---------------------------- MODULE BatchAnalysis ----------------------------
(***************************************************************************)
(* One batch of the earlier analysis operator (run_batch): a coordinating  *)
(* thread hands positions to worker threads, publishes their results one   *)
(* by one and counts failures; each worker thread keeps an engine, known   *)
(* to the registry; an interrupting thread asks for a drain first and for  *)
(* a forced stop second.  The batch runs under AnalysisRunLock (see        *)
(* EvaluationSessions), so nobody else publishes.                          *)
(***************************************************************************)
EXTENDS Naturals, FiniteSets

CONSTANTS
  Work,           \* how many positions work_positions returns, in order
  Slots,          \* workers, each with its thread; the executor has at least one
  MaxAttempts,    \* MAX_ATTEMPTS
  MaxFailures,    \* MAX_CONSECUTIVE_FAILURES
  MaxFaults       \* bound: database errors, processes that do not exit

ASSUME BatchAssumption ==
  /\ Work \in Nat
  /\ Slots # {} /\ IsFiniteSet(Slots)
  /\ MaxAttempts \in Nat \ {0}
  /\ MaxFailures \in Nat \ {0}
  /\ MaxFaults \in Nat

VARIABLES
  next,         \* the next position of the iterator pending
  worker,       \* worker[t]: the future in slot t, and its thread's engine
  returned,     \* futures of the last wait not looked at yet
  stored,       \* positions published by this batch
  failures,     \* positions on the list of final failures
  consecutive,  \* consecutive_failures
  breaker,      \* circuit_breaker
  pc,           \* the coordinating thread
  status,       \* status of the batch record, "none" before it is written
  interrupts,   \* how far the interrupting thread is
  stop, hard,   \* InterruptController.stop_dispatch and hard_stop
  strays,       \* engine processes that nothing keeps track of
  faults

coordinator == <<next, returned, stored, failures, consecutive, breaker, pc, status>>
controller == <<interrupts, stop, hard>>
vars == <<coordinator, worker, controller, strays, faults>>

-----------------------------------------------------------------------------

Positions == 1 .. Work

NoPosition == 0

NoWork == [position |-> NoPosition, attempt |-> 0, at |-> "idle", engine |-> "none"]

Finished == {"forced", "ok", "failure", "lifecycle"}

InFlight == {t \in Slots : worker[t].at # "idle"}

Threads == {t \in Slots : worker[t].at \notin Finished \cup {"idle"}}

\* Engines the registry holds whose process runs.
Registered == {t \in Slots : worker[t].engine = "registered"}

Set(t, at, engine) ==
  worker' = [worker EXCEPT ![t].at = at, ![t].engine = engine]

Fault == faults < MaxFaults /\ faults' = faults + 1

-----------------------------------------------------------------------------
(* The worker threads: _analyse_one. *)

\* The forced stop is looked at before each attempt.
Check(t) ==
  /\ worker[t].at = "check"
  /\ Set(t, IF hard THEN "forced"
            ELSE IF worker[t].engine = "none" THEN "launch" ELSE "analyse",
         worker[t].engine)
  /\ UNCHANGED <<coordinator, controller, strays, faults>>

\* registry.current: the factory returns a running engine ...
Launch(t) ==
  /\ worker[t].at = "launch"
  /\ Set(t, "register", "unregistered")
  /\ UNCHANGED <<coordinator, controller, strays, faults>>

\* ... which the registry learns of afterwards.
Register(t) ==
  /\ worker[t].at = "register"
  /\ Set(t, "analyse", "registered")
  /\ UNCHANGED <<coordinator, controller, strays, faults>>

\* Slip: the forced stop is not looked at after the analysis.
AnalyseReturnsUnchecked(t) ==
  /\ worker[t].at = "analyse"
  /\ worker[t].engine = "registered"
  /\ Set(t, "ok", "registered")
  /\ UNCHANGED <<coordinator, controller, strays, faults>>

AnalyseReturns(t) ==
  /\ worker[t].at = "analyse"
  /\ worker[t].engine = "registered"
  /\ Set(t, IF hard THEN "forced" ELSE "ok", "registered")
  /\ UNCHANGED <<coordinator, controller, strays, faults>>

\* The launch or the analysis raises: a timeout, a wrong result, a process
\* that was terminated by force.
AnalyseRaises(t) ==
  /\ worker[t].at \in {"launch", "analyse"}
  /\ Set(t, "discard", worker[t].engine)
  /\ UNCHANGED <<coordinator, controller, strays, faults>>

\* The watchdog terminates an engine that does not exit.  It counts as closed
\* from then on, so that neither discard_current nor close_all touch it again.
WatchdogFails(t) ==
  /\ worker[t].at = "analyse"
  /\ worker[t].engine = "registered"
  /\ Set(t, "discard", "killed")
  /\ strays' = strays + 1
  /\ Fault
  /\ UNCHANGED <<coordinator, controller>>

\* Slip: the comparison lets one attempt too many through.
AfterDiscardOneMore(w) ==
  IF hard THEN [w EXCEPT !.at = "forced", !.engine = "none"]
  ELSE IF w.attempt <= MaxAttempts
    THEN [w EXCEPT !.at = "check", !.attempt = @ + 1, !.engine = "none"]
    ELSE [w EXCEPT !.at = "failure", !.engine = "none"]

\* Slip: a failed attempt is repeated until it works.
AfterDiscardAgain(w) ==
  [w EXCEPT !.at = IF hard THEN "forced" ELSE "check", !.engine = "none"]

AfterDiscard(w) ==
  CASE hard -> [w EXCEPT !.at = "forced", !.engine = "none"]
    [] ~hard /\ w.attempt < MaxAttempts ->
         [w EXCEPT !.at = "check", !.attempt = @ + 1, !.engine = "none"]
    [] OTHER -> [w EXCEPT !.at = "failure", !.engine = "none"]

\* Slip: the engine is forgotten and not terminated.
DiscardUnclosed(t) ==
  /\ worker[t].at = "discard"
  /\ worker' = [worker EXCEPT ![t] = AfterDiscard(@)]
  /\ strays' = strays + (IF worker[t].engine = "registered" THEN 1 ELSE 0)
  /\ UNCHANGED <<coordinator, controller, faults>>

\* discard_current, then the next attempt, if there is one.
Discard(t) ==
  /\ worker[t].at = "discard"
  /\ worker' = [worker EXCEPT ![t] = AfterDiscard(@)]
  /\ UNCHANGED <<coordinator, controller, strays, faults>>

\* The discarded engine does not exit: EngineLifecycleError leaves the thread.
DiscardFails(t) ==
  /\ worker[t].at = "discard"
  /\ worker[t].engine = "registered"
  /\ Set(t, "lifecycle", "none")
  /\ strays' = strays + 1
  /\ Fault
  /\ UNCHANGED <<coordinator, controller>>

-----------------------------------------------------------------------------
(* The coordinating thread: run_batch. *)

\* Slip: the circuit breaker is not looked at.
DispatchTripped ==
  /\ pc = "dispatch"
  /\ pc' = IF stop THEN "dispatched" ELSE "fill"
  /\ UNCHANGED <<next, returned, stored, failures, consecutive, breaker, status>>
  /\ UNCHANGED <<worker, controller, strays, faults>>

\* dispatch looks at the stop once, and then fills every free slot.
Dispatch ==
  /\ pc = "dispatch"
  /\ pc' = IF stop \/ breaker THEN "dispatched" ELSE "fill"
  /\ UNCHANGED <<next, returned, stored, failures, consecutive, breaker, status>>
  /\ UNCHANGED <<worker, controller, strays, faults>>

Submit(t) ==
  /\ pc = "fill"
  /\ worker[t].at = "idle"
  /\ next \in Positions
  /\ next' = next + 1
  /\ worker' = [worker EXCEPT ![t].position = next, ![t].attempt = 1, ![t].at = "check"]
  /\ UNCHANGED <<returned, stored, failures, consecutive, breaker, pc, status>>
  /\ UNCHANGED <<controller, strays, faults>>

Dispatched ==
  /\ \/ pc = "dispatched"
     \/ pc = "fill" /\ (InFlight = Slots \/ next \notin Positions)
  /\ pc' = IF InFlight = {} THEN "shutdown" ELSE "wait"
  /\ UNCHANGED <<next, returned, stored, failures, consecutive, breaker, status>>
  /\ UNCHANGED <<worker, controller, strays, faults>>

\* wait(FIRST_COMPLETED): every future that is done by now.
WaitReturns ==
  /\ pc = "wait"
  /\ InFlight # Threads
  /\ returned' = InFlight \ Threads
  /\ pc' = "settle"
  /\ UNCHANGED <<next, stored, failures, consecutive, breaker, status>>
  /\ UNCHANGED <<worker, controller, strays, faults>>

\* The future in slot t is looked at; dispatch follows the last one.
Take(t, outcomes) ==
  /\ pc = "settle"
  /\ t \in returned
  /\ worker[t].at \in outcomes
  /\ returned' = returned \ {t}
  /\ worker' = [worker EXCEPT ![t] = [NoWork EXCEPT !.engine = worker[t].engine]]
  /\ pc' = IF returned' = {} THEN "dispatch" ELSE "settle"

\* A result is published, in the transaction of AnalysisRepository.publish.
Publish(t) ==
  /\ Take(t, {"ok"})
  /\ stored' = stored \cup {worker[t].position}
  /\ consecutive' = 0
  /\ UNCHANGED <<next, failures, breaker, status, controller, strays, faults>>

CountFailure(t) ==
  /\ failures' = failures \cup {worker[t].position}
  /\ consecutive' = consecutive + 1
  /\ breaker' = (breaker \/ consecutive' >= MaxFailures)

\* Slip: the position is left published.
PublishFailsAfterCommit(t) ==
  /\ Take(t, {"ok"})
  /\ CountFailure(t)
  /\ stored' = stored \cup {worker[t].position}
  /\ Fault
  /\ UNCHANGED <<next, status, controller, strays>>

\* Publishing raises, also after the retries of a busy database.
PublishFails(t) ==
  /\ Take(t, {"ok"})
  /\ CountFailure(t)
  /\ Fault
  /\ UNCHANGED <<next, stored, status, controller, strays>>

\* _WorkerFailure: the position's attempts have failed.
RecordFailure(t) ==
  /\ Take(t, {"failure"})
  /\ CountFailure(t)
  /\ UNCHANGED <<next, stored, status, controller, strays, faults>>

\* _ForcedInterruption: neither a result nor a failure.
DropForced(t) ==
  /\ Take(t, {"forced"})
  /\ UNCHANGED <<next, stored, failures, consecutive, breaker, status>>
  /\ UNCHANGED <<controller, strays, faults>>

\* EngineLifecycleError ends the batch without a record.
Abort(t) ==
  /\ pc = "settle"
  /\ t \in returned
  /\ worker[t].at = "lifecycle"
  /\ pc' = "abort"
  /\ returned' = {}
  /\ UNCHANGED <<next, stored, failures, consecutive, breaker, status>>
  /\ UNCHANGED <<worker, controller, strays, faults>>

\* executor.shutdown waits for the threads; their results are dropped.
Shutdown ==
  /\ pc \in {"shutdown", "abort"}
  /\ Threads = {}
  /\ pc' = IF pc = "abort" THEN "abort close" ELSE "close"
  /\ UNCHANGED <<next, returned, stored, failures, consecutive, breaker, status>>
  /\ UNCHANGED <<worker, controller, strays, faults>>

\* close_all, by force after a forced stop; every engine is gone afterwards.
CloseEngines ==
  /\ pc \in {"close", "abort close"}
  /\ pc' = IF pc = "close" THEN "record" ELSE "raised"
  /\ worker' = [t \in Slots |-> [worker[t] EXCEPT !.engine = "none"]]
  /\ UNCHANGED <<next, returned, stored, failures, consecutive, breaker, status>>
  /\ UNCHANGED <<controller, strays, faults>>

\* One of them does not exit: those behind it are not closed either.
CloseFails ==
  /\ pc \in {"close", "abort close"}
  /\ \E open \in SUBSET Registered :
       open # {} /\ strays' = strays + Cardinality(open)
  /\ pc' = "raised"
  /\ worker' = [t \in Slots |-> [worker[t] EXCEPT !.engine = "none"]]
  /\ Fault
  /\ UNCHANGED <<next, returned, stored, failures, consecutive, breaker, status>>
  /\ UNCHANGED controller

Outcome ==
  CASE stop -> "interrupted"
    [] ~stop /\ failures # {} -> "failed"
    [] OTHER -> "success"

\* append_batch, with its retries.
AppendBatch ==
  /\ pc = "record"
  /\ pc' = "done"
  /\ status' = Outcome
  /\ UNCHANGED <<next, returned, stored, failures, consecutive, breaker>>
  /\ UNCHANGED <<worker, controller, strays, faults>>

AppendFails ==
  /\ pc = "record"
  /\ pc' = "raised"
  /\ Fault
  /\ UNCHANGED <<next, returned, stored, failures, consecutive, breaker, status>>
  /\ UNCHANGED <<worker, controller, strays>>

-----------------------------------------------------------------------------
(* The interrupting thread: InterruptController.request_interrupt. *)

FirstInterrupt ==
  /\ interrupts = "none"
  /\ interrupts' = "first"
  /\ stop' = TRUE
  /\ UNCHANGED <<hard, coordinator, worker, strays, faults>>

\* Slip: hard_stop is set, and stop_dispatch later.
SecondInterruptLate ==
  /\ interrupts \in {"none", "first"}
  /\ interrupts' = "second"
  /\ UNCHANGED <<stop, hard, coordinator, worker, strays, faults>>

\* Two interrupts at once: the second may be served before the first.
SecondInterrupt ==
  /\ interrupts \in {"none", "first"}
  /\ interrupts' = "second"
  /\ stop' = TRUE
  /\ UNCHANGED <<hard, coordinator, worker, strays, faults>>

HardStop ==
  /\ interrupts = "second"
  /\ interrupts' = "hard"
  /\ hard' = TRUE
  /\ UNCHANGED <<stop, coordinator, worker, strays, faults>>

Kill(ts) ==
  worker' = [t \in Slots |->
               IF t \in ts THEN [worker[t] EXCEPT !.engine = "killed"] ELSE worker[t]]

\* The callback: close_all of the engines registered at this moment.
ForceClose ==
  /\ interrupts = "hard"
  /\ interrupts' = "forced"
  /\ Kill(Registered)
  /\ UNCHANGED <<stop, hard, coordinator, strays, faults>>

\* One of them does not exit, and those behind it are not terminated.
ForceCloseFails ==
  /\ interrupts = "hard"
  /\ interrupts' = "forced"
  /\ \E t \in Registered : \E killed \in SUBSET (Registered \ {t}) :
       Kill(killed \cup {t})
  /\ strays' = strays + 1
  /\ Fault
  /\ UNCHANGED <<stop, hard, coordinator>>

-----------------------------------------------------------------------------

Init ==
  /\ next = 1
  /\ worker = [t \in Slots |-> NoWork]
  /\ returned = {} /\ stored = {} /\ failures = {}
  /\ consecutive = 0 /\ breaker = FALSE
  /\ pc = "dispatch" /\ status = "none"
  /\ interrupts = "none" /\ stop = FALSE /\ hard = FALSE
  /\ strays = 0 /\ faults = 0

Ended == pc \in {"done", "raised"}

Coordinate ==
  \/ Dispatch \/ Dispatched \/ WaitReturns \/ Shutdown \/ CloseEngines \/ AppendBatch
  \/ \E t \in Slots :
       Submit(t) \/ Publish(t) \/ RecordFailure(t) \/ DropForced(t) \/ Abort(t)

Analyse(t) ==
  \/ Check(t) \/ Launch(t) \/ Register(t)
  \/ AnalyseReturns(t) \/ AnalyseRaises(t) \/ Discard(t)

Breaks ==
  \/ CloseFails \/ AppendFails
  \/ \E t \in Slots : PublishFails(t) \/ WatchdogFails(t) \/ DiscardFails(t)

Interrupt ==
  \/ FirstInterrupt \/ SecondInterrupt \/ HardStop \/ ForceClose \/ ForceCloseFails

Next ==
  \/ Coordinate \/ Breaks
  \/ \E t \in Slots : Analyse(t)
  \/ ~Ended /\ Interrupt
  \/ Ended /\ UNCHANGED vars   \* nothing is left to do

Spec == Init /\ [][Next]_vars

\* The coordinating thread runs, and every analysis ends (the watchdog).
FairSpec ==
  Spec /\ WF_vars(Coordinate) /\ \A t \in Slots : WF_vars(Analyse(t))

-----------------------------------------------------------------------------

TypeOK ==
  /\ next \in 1 .. Work + 1
  /\ worker \in [Slots -> [position : 0 .. Work, attempt : 0 .. MaxAttempts,
       at : {"idle", "check", "launch", "register", "analyse", "discard"} \cup Finished,
       engine : {"none", "unregistered", "registered", "killed"}]]
  /\ returned \subseteq InFlight
  /\ stored \subseteq Positions /\ failures \subseteq Positions
  /\ consecutive \in 0 .. Work /\ breaker \in BOOLEAN
  /\ pc \in {"dispatch", "fill", "dispatched", "wait", "settle", "shutdown", "close",
             "record", "done", "abort", "abort close", "raised"}
  /\ status \in {"none", "interrupted", "failed", "success"}
  /\ interrupts \in {"none", "first", "second", "hard", "forced"}
  /\ stop \in BOOLEAN /\ hard \in BOOLEAN
  /\ strays \in Nat /\ faults \in 0 .. MaxFaults

\* When the batch has ended no engine process is left, whatever was
\* interrupted, discarded or created meanwhile, unless one refused to exit.
NoEngineSurvives ==
  Ended /\ faults = 0 =>
    strays = 0 /\ \A t \in Slots : worker[t].engine \in {"none", "killed"}

\* A batch that says "success" has published every position; one that says
\* "failed" has published or listed every position it took up.
RecordIsTruthful ==
  /\ status = "success" => stored = Positions
  /\ status = "failed" =>
       /\ Positions \cap (1 .. next - 1) = stored \cup failures
       /\ next \in Positions => breaker

\* No position is both published and listed as failed.
NotBothOutcomes == stored \cap failures = {}

\* After the circuit breaker has tripped no further position is taken up,
\* whatever comes back from the analyses in flight (runner.py:229, 290).
BreakerStopsDispatch == [][breaker => next' = next]_vars

\* After the forced stop no analysis becomes a result any more: at most what
\* had returned before is still published.
ForcedStopEndsResults ==
  [][hard => Cardinality(stored' \cup {worker'[t].position : t \in {u \in Slots : worker'[u].at = "ok"}})
              <= Cardinality(stored \cup {worker[t].position : t \in {u \in Slots : worker[u].at = "ok"}})]_vars

\* The batch ends, interrupted or not.
BatchEnds == <>Ended

\* What engine.py:253 and runner.py:44 say of the second interrupt: when its
\* callback has run, no engine that the registry tracks is running.
ForceTerminatesEngines ==
  interrupts = "forced" /\ faults = 0 => Registered = {}

\* When the batch has ended its record is right, no position is both published and
\* failed, and no engine survives, whenever it was interrupted (runner.py:96, 264).
BatchIsTruthful == TypeOK /\ RecordIsTruthful /\ NotBothOutcomes /\ NoEngineSurvives

\* The two ways to stop are heeded while up to six analyses are in flight: nothing
\* is taken up after the breaker tripped (runner.py:264), and nothing becomes a
\* result after the forced stop (runner.py:68).
StopsAreHeeded == BreakerStopsDispatch /\ ForcedStopEndsResults

=============================================================================
