-------------------------- MODULE EvaluationSessions --------------------------
(***************************************************************************)
(* Evaluation sessions (run_session) drain evaluation_queue with a few     *)
(* worker threads, each with an engine of its own; only the coordinating   *)
(* thread touches the database.  Sessions exclude each other, and the      *)
(* batch analysis, with AnalysisRunLock, a file lock that the operating    *)
(* system frees when its owner dies.  Browser clients request evaluations  *)
(* meanwhile.  The table has one row per position, first in first out by   *)
(* its column "position"; each of its operations is one write transaction  *)
(* (_transaction begins IMMEDIATE).                                        *)
(***************************************************************************)
EXTENDS Naturals, FiniteSets, Sequences, SequencesExt

CONSTANTS
  Keys,         \* position keys
  Sessions,     \* processes that run sessions, one at a time each
  Slots,        \* places for work in flight: workers, each with its thread
  Clients,      \* browser clients
  Terminal,     \* keys of finished positions, which need no engine
  Corpus,       \* the batch analysis, as an owner of the lock
  NoOwner,
  NoKey,
  MaxFaults     \* bound: deaths, database errors, engines that do not close or terminate

ASSUME SessionAssumption ==
  /\ Terminal \subseteq Keys
  /\ NoKey \notin Keys
  /\ Corpus \notin Sessions
  /\ NoOwner \notin Sessions \cup {Corpus}
  /\ MaxFaults \in Nat

VARIABLES
  row,       \* row[p]: the column state of p's row, or "absent"
  order,     \* the keys that have a row, by the column "position"
  stored,    \* positions with a persisted result
  lock,      \* who owns AnalysisRunLock
  pc,        \* pc[s]: where session s is
  job,       \* job[s][t]: the item in flight in slot t and its future's state
  returned,  \* returned[s]: the futures of the last wait not looked at yet
  engine,    \* engine[s]: the engines that run, <<t, "kept">> in the registry for the
             \* thread of slot t, <<t, "lost">> out of it after a failed termination
  intent,    \* intent[c]: the request c has found allowed, not yet enqueued
  faults

queueVars == <<row, order>>
sessionVars == <<pc, job, returned, engine>>
vars == <<row, order, stored, lock, sessionVars, intent, faults>>

-----------------------------------------------------------------------------
(* evaluation_queue. *)

QueueStates == {"queued", "running", "done", "failed"}

Live(state) == state \in {"queued", "running"}

RowsIn(state) == {p \in Keys : row[p] = state}

\* _next_position: the rows ps are given the positions after the largest one.
ToTail(ps) ==
  order' = SelectSeq(order, LAMBDA p : ~Contains(ps, p)) \o ps

\* enqueue: a live row is left as it is; any other is queued behind the rest.
Enqueue(p) ==
  IF Live(row[p])
    THEN UNCHANGED queueVars
    ELSE /\ row' = [row EXCEPT ![p] = "queued"]
         /\ ToTail(<<p>>)

\* claim_next's choice: the queued row with the smallest position.
OldestQueued(p) ==
  /\ row[p] = "queued"
  /\ \E i \in DOMAIN order :
       order[i] = p /\ \A j \in 1 .. i - 1 : row[order[j]] # "queued"

ClaimNext(p) ==
  /\ OldestQueued(p)
  /\ row' = [row EXCEPT ![p] = "running"]
  /\ UNCHANGED order

\* complete and fail: both raise unless the row is running.
Complete(p) ==
  /\ row[p] = "running"
  /\ row' = [row EXCEPT ![p] = "done"]
  /\ UNCHANGED order

Fail(p) ==
  /\ row[p] = "running"
  /\ row' = [row EXCEPT ![p] = "failed"]
  /\ UNCHANGED order

RunningInOrder == SelectSeq(order, LAMBDA p : row[p] = "running")

\* Slip: the interrupted rows go back to where they were.
RequeueInPlace ==
  /\ row' = [p \in Keys |-> IF row[p] = "running" THEN "queued" ELSE row[p]]
  /\ UNCHANGED order

\* Slip: what a dead session was working on is not looked at.
RequeueNothing == UNCHANGED queueVars

\* requeue_running: behind everything queued, in the order they had.
RequeueRunning ==
  /\ row' = [p \in Keys |-> IF row[p] = "running" THEN "queued" ELSE row[p]]
  /\ ToTail(RunningInOrder)

-----------------------------------------------------------------------------

\* How many queued rows are ahead of p.
Ahead(p) ==
  Cardinality({i \in DOMAIN order :
                 row[order[i]] = "queued" /\ i < SelectInSeq(order, LAMBDA q : q = p)})

QueueInit == row = [p \in Keys |-> "absent"] /\ order = << >>

QueueTypeOK ==
  /\ row \in [Keys -> QueueStates \cup {"absent"}]
  /\ ToSet(order) = {p \in Keys : row[p] # "absent"}
  /\ IsInjective(order)

-----------------------------------------------------------------------------
(* The sessions. *)

NoJob == [key |-> NoKey, future |-> "none"]

NoIntent == [key |-> NoKey, action |-> "none"]

InFlight(s) == {t \in Slots : job[s][t] # NoJob}

KeysInFlight(s) == {job[s][t].key : t \in InFlight(s)}

Draining == {"dispatch", "wait", "settle", "complete"}

At(s, from) == pc[s] = from /\ UNCHANGED <<pc, lock>>

Move(s, from, to) ==
  /\ pc[s] = from
  /\ pc' = [pc EXCEPT ![s] = to]
  /\ UNCHANGED lock

Leave(s, to) ==
  /\ pc' = [pc EXCEPT ![s] = to]
  /\ lock' = IF lock = s THEN NoOwner ELSE lock

SetJob(s, t, j) == job' = [job EXCEPT ![s][t] = j]

SetFuture(s, t, f) == job' = [job EXCEPT ![s][t].future = f]

Fault == faults < MaxFaults /\ faults' = faults + 1

\* Removing the future in hand; after the last one dispatch is called again.
NextFuture(s, t) ==
  LET rest == returned[s] \ {t}
  IN  /\ returned' = [returned EXCEPT ![s] = rest]
      /\ pc' = [pc EXCEPT ![s] = IF rest = {} THEN "dispatch" ELSE "settle"]
      /\ UNCHANGED lock

-----------------------------------------------------------------------------
(* The session. *)

\* Slip: the lock is not looked at.
StartUnlocked(s) ==
  /\ pc[s] = "off"
  /\ lock' = s
  /\ pc' = [pc EXCEPT ![s] = "requeue"]
  /\ UNCHANGED <<queueVars, stored, job, returned, engine, intent, faults>>

\* AnalysisRunLock.acquire, without waiting; when it is taken nothing happens.
Start(s) ==
  /\ pc[s] = "off"
  /\ lock = NoOwner
  /\ lock' = s
  /\ pc' = [pc EXCEPT ![s] = "requeue"]
  /\ UNCHANGED <<queueVars, stored, job, returned, engine, intent, faults>>

Requeue(s) ==
  /\ Move(s, "requeue", "dispatch")
  /\ RequeueRunning
  /\ UNCHANGED <<stored, job, returned, engine, intent, faults>>

RequeueFails(s) ==
  /\ pc[s] = "requeue"
  /\ Leave(s, "off")
  /\ Fault
  /\ UNCHANGED <<queueVars, stored, job, returned, engine, intent>>

DispatchClaim(s, t, p) ==
  /\ At(s, "dispatch")
  /\ job[s][t] = NoJob
  /\ ClaimNext(p)
  /\ SetJob(s, t, [key |-> p, future |-> "running"])
  /\ UNCHANGED <<stored, returned, engine, intent, faults>>

DispatchEnds(s) ==
  /\ InFlight(s) = Slots \/ RowsIn("queued") = {}
  /\ Move(s, "dispatch", IF InFlight(s) = {} THEN "shutdown" ELSE "wait")
  /\ UNCHANGED <<queueVars, stored, job, returned, engine, intent, faults>>

\* claim_next raises: _drain is left through its finally clause.
DispatchFails(s) ==
  /\ InFlight(s) # Slots
  /\ Move(s, "dispatch", "shutdown")
  /\ Fault
  /\ UNCHANGED <<queueVars, stored, job, returned, engine, intent>>

\* A worker thread: _evaluate_one, with the engine of its thread.
EvaluationReturns(s, t) ==
  /\ job[s][t].future = "running"
  /\ SetFuture(s, t, "result")
  /\ engine' = IF job[s][t].key \in Terminal
                 THEN engine
                 ELSE [engine EXCEPT ![s] = @ \cup {<<t, "kept">>}]
  /\ UNCHANGED <<queueVars, stored, lock, pc, returned, intent, faults>>

\* The engine is not obtained or fails: it is terminated and forgotten.
EvaluationFails(s, t) ==
  /\ job[s][t].future = "running"
  /\ job[s][t].key \notin Terminal
  /\ SetFuture(s, t, "failure")
  /\ engine' = [engine EXCEPT ![s] = @ \ {<<t, "kept">>}]
  /\ UNCHANGED <<queueVars, stored, lock, pc, returned, intent, faults>>

\* force_terminate raises: the engine is in no registry any more, so close_all
\* passes it by, and it may run until the process goes.
TerminationFails(s, t) ==
  /\ job[s][t].future = "running"
  /\ job[s][t].key \notin Terminal
  /\ SetFuture(s, t, "failure")
  /\ engine' = [engine EXCEPT ![s] = (@ \ {<<t, "kept">>}) \cup {<<t, "lost">>}]
  /\ Fault
  /\ UNCHANGED <<queueVars, stored, lock, pc, returned, intent>>

\* wait(FIRST_COMPLETED): every future that is done by now.
WaitReturns(s) ==
  LET done == {t \in Slots : job[s][t].future \in {"result", "failure"}}
  IN  /\ done # {}
      /\ Move(s, "wait", "settle")
      /\ returned' = [returned EXCEPT ![s] = done]
      /\ UNCHANGED <<queueVars, stored, job, engine, intent, faults>>

\* Slip: the item is completed before its result is published.
PublishLater(s, t) ==
  /\ Move(s, "settle", "complete")
  /\ t \in returned[s] /\ job[s][t].future = "result"
  /\ SetFuture(s, t, "published")
  /\ UNCHANGED <<queueVars, stored, returned, engine, intent, faults>>

\* _persist_with_busy_retry: a transaction of its own, before complete.
PublishResult(s, t) ==
  /\ Move(s, "settle", "complete")
  /\ t \in returned[s] /\ job[s][t].future = "result"
  /\ stored' = stored \cup {job[s][t].key}
  /\ SetFuture(s, t, "published")
  /\ UNCHANGED <<queueVars, returned, engine, intent, faults>>

\* Publishing raises: "persistence_failure", recorded like an engine failure.
PublishFails(s, t) ==
  /\ At(s, "settle")
  /\ t \in returned[s] /\ job[s][t].future = "result"
  /\ SetFuture(s, t, "failure")
  /\ Fault
  /\ UNCHANGED <<queueVars, stored, returned, engine, intent>>

CompleteItem(s, t) ==
  /\ pc[s] = "complete"
  /\ job[s][t].future = "published"
  /\ Complete(job[s][t].key)
  /\ SetJob(s, t, NoJob)
  /\ NextFuture(s, t)
  /\ UNCHANGED <<stored, engine, intent, faults>>

\* complete raises after the publication: the item is failed all the same.
CompleteFails(s, t) ==
  /\ Move(s, "complete", "settle")
  /\ job[s][t].future = "published"
  /\ SetFuture(s, t, "failure")
  /\ Fault
  /\ UNCHANGED <<queueVars, stored, returned, engine, intent>>

\* Slip: a failure is counted and its row left alone.
RecordFailureUnwritten(s, t) ==
  /\ pc[s] = "settle"
  /\ t \in returned[s] /\ job[s][t].future = "failure"
  /\ SetJob(s, t, NoJob)
  /\ NextFuture(s, t)
  /\ UNCHANGED <<queueVars, stored, engine, intent, faults>>

RecordFailure(s, t) ==
  /\ pc[s] = "settle"
  /\ t \in returned[s] /\ job[s][t].future = "failure"
  /\ Fail(job[s][t].key)
  /\ SetJob(s, t, NoJob)
  /\ NextFuture(s, t)
  /\ UNCHANGED <<stored, engine, intent, faults>>

\* fail raises: its rows stay running, and so do those of the other futures.
RecordFailureFails(s, t) ==
  /\ Move(s, "settle", "shutdown")
  /\ t \in returned[s] /\ job[s][t].future = "failure"
  /\ Fault
  /\ UNCHANGED <<queueVars, stored, job, returned, engine, intent>>

\* Slip: the executor is not waited for.
ShutdownAtOnce(s) ==
  /\ Move(s, "shutdown", "close")
  /\ returned' = [returned EXCEPT ![s] = {}]
  /\ UNCHANGED <<queueVars, stored, job, engine, intent, faults>>

\* executor.shutdown waits for the threads; their results are dropped.
Shutdown(s) ==
  /\ \A t \in Slots : job[s][t].future # "running"
  /\ Move(s, "shutdown", "close")
  /\ job' = [job EXCEPT ![s] = [t \in Slots |-> NoJob]]
  /\ returned' = [returned EXCEPT ![s] = {}]
  /\ UNCHANGED <<queueVars, stored, engine, intent, faults>>

\* The engines of s that are in no registry.
Lost(s) == {e \in engine[s] : e[2] = "lost"}

\* close_all, and the way out through the lock.
CloseEngines(s) ==
  /\ pc[s] = "close"
  /\ Leave(s, IF Lost(s) = {} THEN "off" ELSE "exit")
  /\ engine' = [engine EXCEPT ![s] = Lost(s)]
  /\ UNCHANGED <<queueVars, stored, job, returned, intent, faults>>

\* An engine does not close: it and those behind it stay open although the
\* lock is released, until the process goes.
CloseFails(s) ==
  /\ pc[s] = "close"
  /\ Leave(s, "exit")
  /\ \E open \in SUBSET engine[s] :
       open # {} /\ Lost(s) \subseteq open /\ engine' = [engine EXCEPT ![s] = open]
  /\ Fault
  /\ UNCHANGED <<queueVars, stored, job, returned, intent>>

\* The process ends; its engines see the end of their input.
ProcessEnds(s) ==
  /\ Leave(s, "off")
  /\ job' = [job EXCEPT ![s] = [t \in Slots |-> NoJob]]
  /\ returned' = [returned EXCEPT ![s] = {}]
  /\ engine' = [engine EXCEPT ![s] = {}]
  /\ UNCHANGED <<queueVars, stored, intent>>

Exit(s) == pc[s] = "exit" /\ ProcessEnds(s) /\ UNCHANGED faults

Dies(s) == pc[s] \notin {"off", "exit"} /\ ProcessEnds(s) /\ Fault

-----------------------------------------------------------------------------
(* The batch analysis, and the clients. *)

CorpusStarts ==
  /\ lock = NoOwner
  /\ lock' = Corpus
  /\ UNCHANGED <<queueVars, stored, sessionVars, intent, faults>>

CorpusPublishes(p) ==
  /\ lock = Corpus
  /\ stored' = stored \cup {p}
  /\ UNCHANGED <<queueVars, lock, sessionVars, intent, faults>>

CorpusEnds ==
  /\ lock = Corpus
  /\ lock' = NoOwner
  /\ UNCHANGED <<queueVars, stored, sessionVars, intent, faults>>

Allowed(action, state) ==
  \/ action = "analyze" /\ state \in {"absent", "failed"}
  \/ action = "update" /\ state = "done"
  \/ action = "retry" /\ state = "failed"

\* request reads the item first, outside of the transaction that enqueues.
Look(c, p, action) ==
  /\ intent[c] = NoIntent
  /\ Allowed(action, row[p])
  /\ intent' = [intent EXCEPT ![c] = [key |-> p, action |-> action]]
  /\ UNCHANGED <<queueVars, stored, lock, sessionVars, faults>>

Submit(c) ==
  /\ intent[c] # NoIntent
  /\ Enqueue(intent[c].key)
  /\ intent' = [intent EXCEPT ![c] = NoIntent]
  /\ UNCHANGED <<stored, lock, sessionVars, faults>>

-----------------------------------------------------------------------------

Init ==
  /\ QueueInit
  /\ stored = {}
  /\ lock = NoOwner
  /\ pc = [s \in Sessions |-> "off"]
  /\ job = [s \in Sessions |-> [t \in Slots |-> NoJob]]
  /\ returned = [s \in Sessions |-> {}]
  /\ engine = [s \in Sessions |-> {}]
  /\ intent = [c \in Clients |-> NoIntent]
  /\ faults = 0

Drain(s) ==
  \/ \E t \in Slots, p \in Keys : DispatchClaim(s, t, p)
  \/ DispatchEnds(s) \/ WaitReturns(s) \/ Shutdown(s) \/ CloseEngines(s)
  \/ Exit(s)
  \/ \E t \in Slots :
       PublishResult(s, t) \/ CompleteItem(s, t) \/ RecordFailure(s, t)

Work(s, t) == EvaluationReturns(s, t) \/ EvaluationFails(s, t)

Breaks(s) ==
  \/ RequeueFails(s) \/ DispatchFails(s) \/ CloseFails(s) \/ Dies(s)
  \/ \E t \in Slots :
       \/ PublishFails(s, t) \/ CompleteFails(s, t) \/ RecordFailureFails(s, t)
       \/ TerminationFails(s, t)

Next ==
  \/ \E s \in Sessions :
       \/ Start(s) \/ Requeue(s) \/ Drain(s) \/ Breaks(s)
       \/ \E t \in Slots : Work(s, t)
  \/ CorpusStarts \/ CorpusEnds
  \/ \E p \in Keys : CorpusPublishes(p)
  \/ \E c \in Clients :
       \/ \E p \in Keys, a \in {"analyze", "update", "retry"} : Look(c, p, a)
       \/ Submit(c)

Spec == Init /\ [][Next]_vars

\* Sessions are started again and again and are not always refused; a session
\* that runs goes on, and the watchdog ends every analysis.
FairSpec ==
  /\ Spec
  /\ WF_vars(CorpusEnds)
  /\ \A s \in Sessions :
       /\ SF_vars(Start(s))
       /\ WF_vars(Requeue(s))
       /\ WF_vars(Drain(s))
       /\ \A t \in Slots : WF_vars(Work(s, t))

-----------------------------------------------------------------------------

TypeOK ==
  /\ QueueTypeOK
  /\ stored \subseteq Keys
  /\ lock \in Sessions \cup {Corpus, NoOwner}
  /\ pc \in [Sessions -> Draining \cup {"off", "requeue", "shutdown", "close", "exit"}]
  /\ job \in [Sessions -> [Slots -> [key : Keys \cup {NoKey},
                 future : {"none", "running", "result", "failure", "published"}]]]
  /\ returned \in [Sessions -> SUBSET Slots]
  /\ engine \in [Sessions -> SUBSET (Slots \X {"kept", "lost"})]
  /\ intent \in [Clients -> [key : Keys \cup {NoKey},
                             action : {"none", "analyze", "update", "retry"}]]
  /\ faults \in 0 .. MaxFaults
  /\ \A s \in Sessions : returned[s] \subseteq InFlight(s)

\* While a session drains, exactly the rows in its hands are running, each
\* once: complete and fail never find a row that is not (queue.py:206, 233).
InFlightIsRunning ==
  \A s \in Sessions : pc[s] \in Draining =>
    /\ KeysInFlight(s) = RowsIn("running")
    /\ \A t, u \in InFlight(s) : job[s][t].key = job[s][u].key => t = u

\* No row is left running by sessions that met no fault (service.py:318).
OrphansNeedFaults ==
  RowsIn("running") # {} => lock \in Sessions \/ faults > 0

\* An item is done only with its result in the database (queue.py:192).
DoneHasResult == RowsIn("done") \subseteq stored

\* Engines run under the lock only, except where one would not close or terminate
\* and its process has not gone yet.
EnginesUnderLock ==
  \A s \in Sessions : engine[s] # {} => lock = s \/ pc[s] = "exit"

\* Nothing a session, a restart or another request does moves a waiting item
\* further from its turn: interrupted work goes behind it (queue.py:244).
NeverPushedBack ==
  [][\A p \in Keys : row[p] = "queued" /\ row'[p] = "queued" => Ahead(p)' <= Ahead(p)]_vars

\* Every accepted item is evaluated or failed, however many sessions die and
\* however many requests follow it.
EveryItemSettles ==
  \A p \in Keys : row[p] = "queued" ~> row[p] \in {"done", "failed"}

\* What the refusal says (service.py:217): Analyze never redoes what is done.
AnalyzeNeverRedoes ==
  [][\A c \in Clients :
       intent[c].action = "analyze" /\ intent'[c] = NoIntent => row[intent[c].key] # "done"]_vars

\* Rows, work in flight, results and engines stay in step, whatever fails or dies:
\* a draining session has exactly the running rows in its hands, rows are left
\* running only after a fault, items are done only with a result, and engines run
\* under the lock only, but for one that would not end before its process does
\* (queue.py:206, service.py:318, 352).
ItemsAreAccountedFor ==
  InFlightIsRunning /\ OrphansNeedFaults /\ DoneHasResult /\ EnginesUnderLock

\* An item that was accepted is never pushed back behind items that came after it,
\* except by its own failure or the death of its session, and it is settled in
\* the end: it has its turn however many others are enqueued and whichever
\* sessions die (queue.py:244).
EveryItemHasItsTurn == []TypeOK /\ NeverPushedBack /\ EveryItemSettles

=============================================================================
