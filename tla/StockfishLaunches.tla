-------------------------- MODULE StockfishLaunches --------------------------
(***************************************************************************)
(* The processes that do engine work on one database: worker launches      *)
(* (WorkerRunner.run), which drain the queue, and bulk launches            *)
(* (BulkRunner.run), which publish results past it.  They exclude each     *)
(* other with DatabaseMutex and share the queue with the requests of the   *)
(* web service.  A launch may be interrupted or die at any point, its      *)
(* queue calls may fail when SQLite's write lock is not obtained in time,  *)
(* and an engine may outlive what was to end it: _terminate_process waits  *)
(* half a second for terminate and for kill and then goes on.              *)
(***************************************************************************)
EXTENDS Integers, FiniteSets

CONSTANTS
  Positions, Tokens, NoToken, StaleAfter, Horizon,  \* see AnalysisQueue
  Workers,        \* worker processes, one launch at a time each
  Bulks,          \* bulk processes
  NoProcess,      \* see DatabaseMutex
  PollTicks,      \* recovery_poll_seconds, in ticks
  MaxFaults,      \* bound: deaths, storage and wait errors, lost claims, kills
                  \* that do not take in time
  MaxInterrupts   \* bound: KeyboardInterrupts

ASSUME LaunchAssumption ==
  /\ Positions \subseteq Nat \ {0}
  /\ NoToken \notin Tokens
  /\ StaleAfter \in Nat \ {0}
  /\ Horizon \in Nat
  /\ Workers \cap Bulks = {}
  /\ NoProcess \notin Workers \cup Bulks
  /\ PollTicks \in Nat \ {0}
  /\ MaxFaults \in Nat
  /\ MaxInterrupts \in Nat

Processes == Workers \cup Bulks

VARIABLES
  queue, results, claim,                             \* see AnalysisQueue
  instance, recovered, owner, abandoned, orphaned,   \* see DatabaseMutex
  pc,           \* pc[i]: where the launch of process i is, "off" without one
  engine,       \* engine[i]: i has an engine process open
  survivors,    \* how many engine processes were let go of and not seen to end
  excluded,     \* excluded[w]: failed_position_ids
  verdict,      \* verdict[w]: "clean", "failed" or "interrupted" (0, 1, 130)
  recovery,     \* recovery[w]: the local variables of _recover_young_claim
  target,       \* target[b]: the bulk target in hand, or NoTarget
  visited,      \* visited[b]: positions the target iterator has passed
  faults, interrupts   \* how many there were

qvars == <<queue, results, claim>>
mvars == <<instance, recovered, owner, abandoned, orphaned>>
wvars == <<excluded, verdict, recovery>>
bvars == <<target, visited>>
budget == <<faults, interrupts>>

evars == <<engine, survivors>>

vars == <<qvars, mvars, pc, evars, wvars, bvars, budget>>

Q == INSTANCE AnalysisQueue WITH Callers <- Workers

M == INSTANCE DatabaseMutex

-----------------------------------------------------------------------------

NoTarget == 0

NoRecovery == [remaining |-> 0, sleep |-> 0, polls |-> 0, limit |-> 0]

\* Slip: the quotient is rounded down.
PollLimitFloor(remaining) == remaining \div PollTicks

\* max_polls: ceil(remaining / poll) + 1.
PollLimit(remaining) == (remaining + PollTicks - 1) \div PollTicks + 1

\* Recovery as it begins, for a deadline so far away.
Observed(n) == [remaining |-> n, sleep |-> 0, polls |-> 0, limit |-> PollLimit(n)]

\* One more poll: min(poll, remaining) is slept.
Polled(r) == [remaining |-> r.remaining,
              sleep |-> IF PollTicks < r.remaining THEN PollTicks ELSE r.remaining,
              polls |-> r.polls + 1, limit |-> r.limit]

\* BulkTargetSelector._is_eligible: no result, a browser one, or an old one.
Eligible(p) == ~Q!Satisfies(results[p], "tool")

LiveRows == {p \in Positions : Q!Live(queue[p])}

\* young_running_claim_deadline: the table holds one row, running and young.
YoungRunning(p) ==
  /\ LiveRows = {p}
  /\ queue[p].state = "running"
  /\ queue[p].claimedAge < StaleAfter

Move(i, from, to) == pc[i] = from /\ pc' = [pc EXCEPT ![i] = to]

SetVerdict(w, v) == verdict' = [verdict EXCEPT ![w] = v]

Fault == faults < MaxFaults /\ faults' = faults + 1 /\ UNCHANGED interrupts

Interrupt ==
  /\ interrupts < MaxInterrupts
  /\ interrupts' = interrupts + 1
  /\ UNCHANGED faults

\* The engine of i is told to end and gone when the wait is over, or, a fault,
\* both waits time out and are passed over.
EngineEnds(i) ==
  \/ UNCHANGED <<survivors, budget>>
  \/ engine[i] /\ Fault /\ survivors' = survivors + 1

\* Its end is not waited for.
EngineIsLeft(i) == survivors' = IF engine[i] THEN survivors + 1 ELSE survivors

-----------------------------------------------------------------------------
(* A worker launch: the mutex. *)

WorkerOpen(w) ==
  /\ Move(w, "off", "opening")
  /\ M!Open(w)
  /\ excluded' = [excluded EXCEPT ![w] = {}]
  /\ SetVerdict(w, "clean")
  /\ UNCHANGED <<qvars, evars, recovery, bvars, budget>>

WorkerAcquire(w) ==
  /\ Move(w, "opening", "claiming")
  /\ M!Acquire(w)
  /\ UNCHANGED <<qvars, evars, wvars, bvars, budget>>

\* Slip: the answer of acquire is not looked at.
WorkerBusyIgnored(w) ==
  /\ Move(w, "opening", "claiming")
  /\ owner # NoProcess
  /\ UNCHANGED <<qvars, mvars, evars, wvars, bvars, budget>>

\* MutexBusyError: the launch ends before any engine work.
WorkerBusy(w) ==
  /\ Move(w, "opening", "off")
  /\ M!Busy(w)
  /\ UNCHANGED <<qvars, evars, wvars, bvars, budget>>

\* acquire raises.
WorkerWaitFails(w) ==
  /\ Move(w, "opening", "off")
  /\ M!WaitFails(w)
  /\ Fault
  /\ UNCHANGED <<qvars, evars, wvars, bvars>>

-----------------------------------------------------------------------------
(* A worker launch: the claim loop. *)

\* The points at which queue.claim is called: the top of the claim loop, the
\* end of a recovery sleep, and the stale boundary recovery has waited for.
CallsClaim(w) ==
  \/ pc[w] = "claiming"
  \/ pc[w] = "sleeping" /\ recovery[w].sleep = 0
  \/ pc[w] = "polling" /\ recovery[w].remaining = 0

ClaimOldest(w) ==
  /\ CallsClaim(w)
  /\ \E p \in Positions, t \in Tokens : Q!ClaimRow(w, p, t, excluded[w])
  /\ pc' = [pc EXCEPT ![w] = "working"]
  /\ recovery' = [recovery EXCEPT ![w] = NoRecovery]
  /\ UNCHANGED <<mvars, evars, excluded, verdict, bvars, budget>>

ClaimNone(w) ==
  /\ Move(w, "claiming", IF recovered[w] THEN "observing" ELSE "finishing")
  /\ Q!Claimable(excluded[w]) = {}
  /\ UNCHANGED <<qvars, mvars, evars, wvars, bvars, budget>>

\* claim, or the read of the deadline, raises: the launch ends undrained.
ClaimRaises(w) ==
  /\ CallsClaim(w) \/ pc[w] = "observing"
  /\ Fault
  /\ pc' = [pc EXCEPT ![w] = "finishing"]
  /\ SetVerdict(w, "failed")
  /\ UNCHANGED <<qvars, mvars, evars, excluded, recovery, bvars>>

\* KeyboardInterrupt in the loop or in recovery, before a claim is made.
InterruptClaim(w) ==
  /\ pc[w] \in {"claiming", "observing", "polling", "sleeping"}
  /\ Interrupt
  /\ pc' = [pc EXCEPT ![w] = "finishing"]
  /\ SetVerdict(w, "interrupted")
  /\ UNCHANGED <<qvars, mvars, evars, excluded, recovery, bvars>>

\* KeyboardInterrupt after claim has committed and before current_claim is
\* assigned: the row is running with a token that nobody holds.
ClaimLost(w) ==
  /\ Move(w, "working", "finishing")
  /\ Fault
  /\ SetVerdict(w, "interrupted")
  /\ claim' = [claim EXCEPT ![w] = Q!NoClaim]
  /\ UNCHANGED <<queue, results, mvars, evars, excluded, recovery, bvars>>

-----------------------------------------------------------------------------
(* A worker launch: waiting for the claim of a dead owner to become stale. *)

ObserveDeadline(w) ==
  /\ pc[w] = "observing"
  /\ \/ \E p \in Positions :
          /\ YoungRunning(p)
          /\ recovery' = [recovery EXCEPT ![w] = Observed(StaleAfter - queue[p].claimedAge)]
          /\ pc' = [pc EXCEPT ![w] = "polling"]
     \/ /\ ~\E p \in Positions : YoungRunning(p)
        /\ pc' = [pc EXCEPT ![w] = "finishing"]
        /\ UNCHANGED recovery
  /\ UNCHANGED <<qvars, mvars, evars, excluded, verdict, bvars, budget>>

PollSleep(w) ==
  /\ Move(w, "polling", "sleeping")
  /\ recovery[w].remaining > 0
  /\ recovery[w].polls < recovery[w].limit
  /\ recovery' = [recovery EXCEPT ![w] = Polled(@)]
  /\ UNCHANGED <<qvars, mvars, evars, excluded, verdict, bvars, budget>>

PollAgain(w) ==
  /\ Move(w, "sleeping", "polling")
  /\ recovery[w].sleep = 0
  /\ Q!Claimable(excluded[w]) = {}
  /\ UNCHANGED <<qvars, mvars, evars, wvars, bvars, budget>>

\* "remained unreclaimable at its stale boundary" or "could not be polled to
\* its stale boundary".
PollGiveUp(w) ==
  /\ Move(w, "polling", "finishing")
  /\ IF recovery[w].remaining = 0
       THEN Q!Claimable(excluded[w]) = {}
       ELSE recovery[w].polls >= recovery[w].limit
  /\ SetVerdict(w, "failed")
  /\ recovery' = [recovery EXCEPT ![w] = NoRecovery]
  /\ UNCHANGED <<qvars, mvars, evars, excluded, bvars, budget>>

-----------------------------------------------------------------------------
(* A worker launch: the work on one claim. *)

\* The position is loaded and an engine created unless one is open.
StartEngine(w) ==
  /\ Move(w, "working", "analyzing")
  /\ engine' = [engine EXCEPT ![w] = TRUE]
  /\ UNCHANGED <<qvars, mvars, survivors, wvars, bvars, budget>>

Analyzed(w) ==
  /\ Move(w, "analyzing", "completing")
  /\ UNCHANGED <<qvars, mvars, evars, wvars, bvars, budget>>

\* Slip: the position is excluded, the failure is not recorded.
WorkFailsSilently(w) ==
  /\ pc[w] \in {"working", "analyzing", "completing"}
  /\ pc' = [pc EXCEPT ![w] = "failing"]
  /\ IF pc[w] = "analyzing" THEN EngineEnds(w) ELSE UNCHANGED <<survivors, budget>>
  /\ engine' = [engine EXCEPT ![w] = @ /\ pc[w] # "analyzing"]
  /\ excluded' = [excluded EXCEPT ![w] = @ \cup {claim[w].position}]
  /\ UNCHANGED <<qvars, mvars, verdict, recovery, bvars>>

\* Slip: the failure is recorded, the position is not excluded.
WorkFailsRetrying(w) ==
  /\ pc[w] \in {"working", "analyzing", "completing"}
  /\ pc' = [pc EXCEPT ![w] = "failing"]
  /\ IF pc[w] = "analyzing" THEN EngineEnds(w) ELSE UNCHANGED <<survivors, budget>>
  /\ engine' = [engine EXCEPT ![w] = @ /\ pc[w] # "analyzing"]
  /\ SetVerdict(w, "failed")
  /\ UNCHANGED <<qvars, mvars, excluded, recovery, bvars>>

\* Loading, starting, analyzing or publishing raises: the position is excluded
\* for the rest of the launch.  A failed analysis closes the engine.
WorkFails(w) ==
  /\ pc[w] \in {"working", "analyzing", "completing"}
  /\ pc' = [pc EXCEPT ![w] = "failing"]
  /\ IF pc[w] = "analyzing" THEN EngineEnds(w) ELSE UNCHANGED <<survivors, budget>>
  /\ engine' = [engine EXCEPT ![w] = @ /\ pc[w] # "analyzing"]
  /\ excluded' = [excluded EXCEPT ![w] = @ \cup {claim[w].position}]
  /\ SetVerdict(w, "failed")
  /\ UNCHANGED <<qvars, mvars, recovery, bvars>>

CompleteClaim(w) ==
  /\ Move(w, "completing", "claiming")
  /\ Q!CompleteTicket(claim[w])
  /\ claim' = [claim EXCEPT ![w] = Q!NoClaim]
  /\ UNCHANGED <<mvars, evars, wvars, bvars, budget>>

FailClaim(w) ==
  /\ Move(w, "failing", "claiming")
  /\ Q!FailTicket(claim[w])
  /\ claim' = [claim EXCEPT ![w] = Q!NoClaim]
  /\ UNCHANGED <<mvars, evars, wvars, bvars, budget>>

\* queue.fail raises: the row stays running, the launch goes on without it.
FailRaises(w) ==
  /\ Move(w, "failing", "claiming")
  /\ Fault
  /\ claim' = [claim EXCEPT ![w] = Q!NoClaim]
  /\ UNCHANGED <<queue, results, mvars, evars, wvars, bvars>>

\* KeyboardInterrupt during the work: the handler of the step releases the
\* claim, after closing the engine if it was analyzing.  In complete it may
\* arrive before or after the commit, in analyze while the engine is ended.
InterruptWork(w) ==
  /\ pc[w] \in {"working", "analyzing", "completing"}
  /\ Interrupt
  /\ pc' = [pc EXCEPT ![w] = "releasing"]
  /\ UNCHANGED survivors \/ (pc[w] = "analyzing" /\ EngineIsLeft(w))
  /\ engine' = [engine EXCEPT ![w] = @ /\ pc[w] # "analyzing"]
  /\ SetVerdict(w, "interrupted")
  /\ \/ UNCHANGED <<queue, results>>
     \/ pc[w] = "completing" /\ Q!CompleteTicket(claim[w])
  /\ UNCHANGED <<claim, mvars, excluded, recovery, bvars>>

\* KeyboardInterrupt inside _fail_claim or a second one inside the handler's
\* _release_claim leaves run through its finally block.
InterruptHandler(w) ==
  /\ pc[w] \in {"failing", "releasing"}
  /\ Interrupt
  /\ pc' = [pc EXCEPT ![w] = "finishing"]
  /\ SetVerdict(w, "interrupted")
  /\ \/ UNCHANGED <<queue, results>>
     \/ pc[w] = "failing" /\ Q!FailTicket(claim[w])
     \/ pc[w] = "releasing" /\ Q!ReleaseTicket(claim[w])
  /\ UNCHANGED <<claim, mvars, evars, excluded, recovery, bvars>>

\* Slip: the launch goes back to its loop instead of ending.
ReleaseClaimKeeping(w) ==
  /\ Move(w, "releasing", "claiming")
  /\ Q!ReleaseTicket(claim[w])
  /\ UNCHANGED <<claim, mvars, evars, wvars, bvars, budget>>

\* The claim is forgotten only if release found its row.
ReleaseClaim(w) ==
  /\ Move(w, "releasing", "finishing")
  /\ Q!ReleaseTicket(claim[w])
  /\ claim' = [claim EXCEPT ![w] = IF Q!Owns(@) THEN Q!NoClaim ELSE @]
  /\ UNCHANGED <<mvars, evars, wvars, bvars, budget>>

ReleaseRaises(w) ==
  /\ Move(w, "releasing", "finishing")
  /\ Fault
  /\ UNCHANGED <<qvars, mvars, evars, wvars, bvars>>

-----------------------------------------------------------------------------
(* A worker launch: the finally block. *)

\* Slip: the claim in hand is forgotten.
FinishClaimForgetting(w) ==
  /\ Move(w, "finishing", "closing")
  /\ claim' = [claim EXCEPT ![w] = Q!NoClaim]
  /\ recovery' = [recovery EXCEPT ![w] = NoRecovery]
  /\ UNCHANGED <<queue, results, mvars, evars, excluded, verdict, bvars, budget>>

\* Slip: the engine is left open.
FinishClaimUnclosed(w) ==
  /\ Move(w, "finishing", "unlocking")
  /\ Q!ReleaseTicket(claim[w])
  /\ claim' = [claim EXCEPT ![w] = Q!NoClaim]
  /\ recovery' = [recovery EXCEPT ![w] = NoRecovery]
  /\ UNCHANGED <<mvars, evars, excluded, verdict, bvars, budget>>

FinishClaim(w) ==
  /\ Move(w, "finishing", "closing")
  /\ Q!ReleaseTicket(claim[w])
  /\ claim' = [claim EXCEPT ![w] = Q!NoClaim]
  /\ recovery' = [recovery EXCEPT ![w] = NoRecovery]
  /\ UNCHANGED <<mvars, evars, excluded, verdict, bvars, budget>>

FinishRaises(w) ==
  /\ Move(w, "finishing", "closing")
  /\ claim[w] # Q!NoClaim
  /\ Fault
  /\ claim' = [claim EXCEPT ![w] = Q!NoClaim]
  /\ recovery' = [recovery EXCEPT ![w] = NoRecovery]
  /\ UNCHANGED <<queue, results, mvars, evars, excluded, verdict, bvars>>

\* Workers and bulk launches alike close the engine, then release the mutex.
\* An error of the close is swallowed, or passes through to the release.
CloseEngine(i) ==
  /\ Move(i, "closing", "unlocking")
  /\ EngineEnds(i)
  /\ engine' = [engine EXCEPT ![i] = FALSE]
  /\ UNCHANGED <<qvars, mvars, wvars, bvars>>

ReleaseMutex(i) ==
  /\ Move(i, "unlocking", "off")
  /\ M!Release(i)
  /\ UNCHANGED <<qvars, evars, wvars, bvars, budget>>

\* KeyboardInterrupt inside the finally block, where _release_claim and
\* _close_engine catch only Exception: what was left to do is not done.  The
\* release of a claim may have committed.  The mutex is released by __del__,
\* or left abandoned by the process as it exits.
InterruptFinally(w) ==
  /\ pc[w] \in {"finishing", "closing", "unlocking"}
  /\ Interrupt
  /\ pc' = [pc EXCEPT ![w] = "off"]
  /\ SetVerdict(w, "interrupted")
  /\ UNCHANGED <<queue, results>> \/ Q!ReleaseTicket(claim[w])
  /\ claim' = [claim EXCEPT ![w] = Q!NoClaim]
  /\ recovery' = [recovery EXCEPT ![w] = NoRecovery]
  /\ EngineIsLeft(w)
  /\ engine' = [engine EXCEPT ![w] = FALSE]
  /\ M!Release(w) \/ M!Crash(w)
  /\ UNCHANGED <<excluded, bvars>>

-----------------------------------------------------------------------------
(* A bulk launch. *)

\* The first target is selected before the mutex is asked for.
BulkSelect(b) ==
  /\ Move(b, "off", "selected")
  /\ \E p \in Positions :
       /\ Eligible(p)
       /\ target' = [target EXCEPT ![b] = p]
       /\ visited' = [visited EXCEPT ![b] = {p}]
  /\ UNCHANGED <<qvars, mvars, evars, wvars, budget>>

BulkOpen(b) ==
  /\ Move(b, "selected", "opening")
  /\ M!Open(b)
  /\ UNCHANGED <<qvars, evars, wvars, bvars, budget>>

BulkAcquire(b) ==
  /\ Move(b, "opening", "running")
  /\ M!Acquire(b)
  /\ engine' = [engine EXCEPT ![b] = TRUE]
  /\ UNCHANGED <<qvars, survivors, wvars, bvars, budget>>

BulkBusy(b) ==
  /\ Move(b, "opening", "off")
  /\ M!Busy(b)
  /\ target' = [target EXCEPT ![b] = NoTarget]
  /\ visited' = [visited EXCEPT ![b] = {}]
  /\ UNCHANGED <<qvars, evars, wvars, budget>>

BulkWaitFails(b) ==
  /\ Move(b, "opening", "off")
  /\ M!WaitFails(b)
  /\ Fault
  /\ target' = [target EXCEPT ![b] = NoTarget]
  /\ visited' = [visited EXCEPT ![b] = {}]
  /\ UNCHANGED <<qvars, evars, wvars>>

BulkPublish(b) ==
  /\ pc[b] = "running" /\ target[b] # NoTarget
  /\ Q!Publish(target[b], "tool")
  /\ target' = [target EXCEPT ![b] = NoTarget]
  /\ UNCHANGED <<mvars, pc, evars, wvars, visited, budget>>

\* A failed analysis or publication is isolated to its target; after a failed
\* analysis the process is ended and the next target gets a new one.
BulkFails(b) ==
  /\ pc[b] = "running" /\ target[b] # NoTarget
  /\ target' = [target EXCEPT ![b] = NoTarget]
  /\ EngineEnds(b)
  /\ UNCHANGED <<qvars, mvars, pc, engine, wvars, visited>>

\* Eligibility is read when the iterator reaches the position.
BulkNext(b) ==
  /\ pc[b] = "running" /\ target[b] = NoTarget
  /\ \E p \in Positions \ visited[b] :
       /\ target' = [target EXCEPT ![b] = IF Eligible(p) THEN p ELSE NoTarget]
       /\ visited' = [visited EXCEPT ![b] = @ \cup {p}]
  /\ UNCHANGED <<qvars, mvars, pc, evars, wvars, budget>>

\* No target is left, the limit is reached, or the launch is interrupted.
BulkStop(b) ==
  /\ Move(b, "running", "closing")
  /\ target' = [target EXCEPT ![b] = NoTarget]
  /\ visited' = [visited EXCEPT ![b] = {}]
  /\ UNCHANGED <<qvars, mvars, evars, wvars, budget>>

\* KeyboardInterrupt: analyze or close ends the engine, the mutex is released
\* on the way out; one that falls into this is as in a worker's finally block.
BulkInterrupted(b) ==
  /\ \/ Move(b, "running", "closing") /\ UNCHANGED <<engine, mvars>>
     \/ /\ Move(b, "closing", "unlocking")
        /\ engine' = [engine EXCEPT ![b] = FALSE]
        /\ UNCHANGED mvars
     \/ Move(b, "unlocking", "off") /\ UNCHANGED engine /\ (M!Release(b) \/ M!Crash(b))
  /\ Interrupt
  /\ EngineIsLeft(b)
  /\ target' = [target EXCEPT ![b] = NoTarget]
  /\ visited' = [visited EXCEPT ![b] = {}]
  /\ UNCHANGED <<qvars, wvars>>

-----------------------------------------------------------------------------
(* The environment. *)

\* The web service's requests.
RequestAnalysis(p, q) ==
  /\ Q!Request(p, q)
  /\ UNCHANGED <<mvars, pc, evars, wvars, bvars, budget>>

\* The process dies; what it had written to the database stays.
Crash(i) ==
  /\ M!Crash(i)
  /\ Fault
  /\ pc' = [pc EXCEPT ![i] = "off"]
  /\ EngineIsLeft(i)
  /\ engine' = [engine EXCEPT ![i] = FALSE]
  /\ IF i \in Workers
       THEN /\ claim' = [claim EXCEPT ![i] = Q!NoClaim]
            /\ recovery' = [recovery EXCEPT ![i] = NoRecovery]
            /\ UNCHANGED bvars
       ELSE /\ target' = [target EXCEPT ![i] = NoTarget]
            /\ visited' = [visited EXCEPT ![i] = {}]
            /\ UNCHANGED <<claim, recovery>>
  /\ UNCHANGED <<queue, results, excluded, verdict>>

Less(n) == IF n > 0 THEN n - 1 ELSE 0

Passed(r) == [remaining |-> Less(r.remaining), sleep |-> Less(r.sleep),
              polls |-> r.polls, limit |-> r.limit]

\* Time passes for the rows and for a launch that waits.
Tick ==
  /\ Q!Tick
  /\ recovery' = [w \in Workers |-> Passed(recovery[w])]
  /\ UNCHANGED <<mvars, pc, evars, excluded, verdict, bvars, budget>>

-----------------------------------------------------------------------------

Init ==
  /\ Q!Init /\ M!Init
  /\ pc = [i \in Processes |-> "off"]
  /\ engine = [i \in Processes |-> FALSE]
  /\ survivors = 0
  /\ excluded = [w \in Workers |-> {}]
  /\ verdict = [w \in Workers |-> "clean"]
  /\ recovery = [w \in Workers |-> NoRecovery]
  /\ target = [b \in Bulks |-> NoTarget]
  /\ visited = [b \in Bulks |-> {}]
  /\ faults = 0 /\ interrupts = 0

\* What a worker launch does of its own, once it was started.
WorkerStep(w) ==
  \/ WorkerAcquire(w) \/ WorkerBusy(w)
  \/ ClaimOldest(w) \/ ClaimNone(w)
  \/ ObserveDeadline(w) \/ PollSleep(w) \/ PollAgain(w) \/ PollGiveUp(w)
  \/ StartEngine(w) \/ Analyzed(w) \/ WorkFails(w)
  \/ CompleteClaim(w) \/ FailClaim(w) \/ ReleaseClaim(w)
  \/ FinishClaim(w) \/ CloseEngine(w) \/ ReleaseMutex(w)

\* What happens to it: storage errors and KeyboardInterrupts.
WorkerMishap(w) ==
  \/ WorkerWaitFails(w) \/ ClaimRaises(w) \/ FailRaises(w) \/ ReleaseRaises(w) \/ FinishRaises(w)
  \/ InterruptClaim(w) \/ ClaimLost(w)
  \/ InterruptWork(w) \/ InterruptHandler(w) \/ InterruptFinally(w)

BulkStep(b) ==
  \/ BulkSelect(b) \/ BulkOpen(b) \/ BulkAcquire(b) \/ BulkBusy(b)
  \/ BulkWaitFails(b)
  \/ BulkPublish(b) \/ BulkFails(b) \/ BulkNext(b) \/ BulkStop(b)
  \/ BulkInterrupted(b) \/ CloseEngine(b) \/ ReleaseMutex(b)

Next ==
  \/ \E w \in Workers : WorkerOpen(w) \/ WorkerStep(w) \/ WorkerMishap(w)
  \/ \E b \in Bulks : BulkStep(b)
  \/ \E i \in Processes : Crash(i)
  \/ \E p \in Positions, q \in Q!Quality : RequestAnalysis(p, q)
  \/ Tick

Spec == Init /\ [][Next]_vars

\* A running launch keeps being scheduled, and time passes.
FairSpec ==
  /\ Spec
  /\ \A w \in Workers : WF_vars(WorkerStep(w))
  /\ WF_vars(Tick)

\* Besides, the user keeps starting worker launches.
ServedSpec == FairSpec /\ \A w \in Workers : WF_vars(WorkerOpen(w))

-----------------------------------------------------------------------------
(* Properties. *)

InHand == {"working", "analyzing", "completing", "failing"}

Stages == {"off", "opening", "claiming", "observing", "polling", "sleeping",
           "releasing", "finishing", "closing", "unlocking"} \cup InHand

\* The launches are well formed: a ticket is held exactly from the claim to
\* the handler that ends it, and an engine is open only inside a launch.
TypeOK ==
  /\ Q!TypeOK /\ M!TypeOK
  /\ \A w \in Workers :
       /\ pc[w] \in Stages
       /\ excluded[w] \subseteq Positions
       /\ verdict[w] \in {"clean", "failed", "interrupted"}
       /\ pc[w] \in InHand => claim[w] # Q!NoClaim
       /\ claim[w] # Q!NoClaim => pc[w] \in InHand \cup {"releasing", "finishing"}
  /\ \A b \in Bulks :
       /\ pc[b] \in {"off", "selected", "opening", "running", "closing", "unlocking"}
       /\ target[b] \in visited[b] \cup {NoTarget}
       /\ visited[b] \subseteq Positions
  /\ \A i \in Processes : engine[i] => pc[i] \notin {"off", "selected", "opening"}
  /\ recovery \in [Workers -> [remaining : 0..StaleAfter, sleep : 0..StaleAfter,
                                polls : 0..StaleAfter, limit : 0..StaleAfter + 1]]
  /\ survivors \in Nat
  /\ faults \in 0..MaxFaults /\ interrupts \in 0..MaxInterrupts

\* The engine a launch holds is under the mutex, so one at most of workers and
\* bulk launches together.  Any other that still runs was let go of by a kill that
\* did not take, a death or an interrupt, one engine for each.
EngineUnderMutex ==
  /\ \A i \in Processes : engine[i] => owner = i
  /\ survivors <= faults + interrupts

\* Not a property: "one sequential engine process at a time" (worker.py:70).  The
\* mutex is released also when the engine did not end.
OneEngine == Cardinality({i \in Processes : engine[i]}) + survivors <= 1

\* The mutex makes the stale interval harmless: however long an analysis
\* takes, no launch takes over the row that another one is working on, so the
\* completion of a live launch is always applied.
WorkStaysOwned == \A w \in Workers : pc[w] \in InHand => Q!Owns(claim[w])

\* A running row nobody works on any more.
Orphans ==
  {p \in Positions :
     /\ queue[p].state = "running"
     /\ ~\E w \in Workers : Q!Owns(claim[w]) /\ claim[w].position = p}

\* A row is orphaned only by the death of its process, a storage error or an
\* interrupt just behind the claim, one row for each, or by two KeyboardInterrupts
\* of one launch, the second in its finally block: no failed analysis and no
\* single interrupt of the work or of its handler leaves a row running.
OrphansNeedFaults == 2 * Cardinality(Orphans) <= 2 * faults + interrupts

\* A launch that leaves its claim loop with a clean verdict leaves no row
\* behind that anybody could claim: what it passed over it had failed on.
CleanLaunchDrains ==
  [][\A w \in Workers :
       /\ pc[w] = "claiming" /\ pc'[w] \in {"observing", "finishing"}
       /\ verdict'[w] = "clean"
       => Q!Claimable({}) = {}]_vars

\* The bound on recovery polls never cuts a recovery short of the boundary at
\* which the young claim becomes stale.
RecoveryReachesBoundary ==
  \A w \in Workers :
    pc[w] = "polling" /\ recovery[w].remaining > 0
      => recovery[w].polls < recovery[w].limit

\* Launches, crashes and interrupts included, only use the queue the way its
\* specification says, and so inherit what it promises.
UsesQueueAsSpecified == Q!Spec

\* Every worker launch ends, though requests keep arriving while it drains
\* the queue: a position it failed on is not tried again, and a result it
\* published satisfies the same request.
LaunchTerminates == \A w \in Workers : pc[w] # "off" ~> pc[w] = "off"

\* While worker launches keep being started, every request is settled in the
\* end, also one whose worker died on it.
EveryRequestSettles ==
  \A p \in Positions : Q!Live(queue[p]) ~> ~Q!Live(queue[p])

\* However long an analysis takes and whatever dies or is interrupted: a launch in
\* its engine work owns the row it claimed, and no more rows are left running in
\* nobody's hands than there were faults and pairs of interrupts (queue_service.py:32,
\* worker.py:201 and 239).
WorkIsAccountedFor == TypeOK /\ WorkStaysOwned /\ OrphansNeedFaults

=============================================================================
