---------------------------- MODULE ServiceProofs ----------------------------
(***************************************************************************)
(* What the web service promises besides the analysis, for all values of   *)
(* the constants.                                                          *)
(*                                                                         *)
(* Sessions and their queue: who holds the lock tells where every session  *)
(* is, so the rows that run are those in the hands of the one session that *)
(* drains; how the rows are ordered plays no part.                         *)
(*                                                                         *)
(* The insight into a position: the rows of a position are its occurrences *)
(* in the games, so whatever the games are their statistics fit; while     *)
(* nothing is written they are those of the games there are.               *)
(*                                                                         *)
(* The search for games: a game's place in the order is its rank among     *)
(* those that match, which games added can only raise, so what was not on  *)
(* a page yet is on one to come; what a search has read so far is judged   *)
(* by what it would give if nothing more were written.                     *)
(*                                                                         *)
(* The catalogue of openings: an answer is made of the rows of at most two *)
(* publications, and what it names, counts and pages follows from that,    *)
(* whatever the routes are.                                                *)
(***************************************************************************)
EXTENDS Integers, EvaluationSessions, Reads, FiniteSetTheorems, WellFoundedInduction, TLAPS

USE SessionAssumption DEF SessionAssumption

-----------------------------------------------------------------------------
(* The invariant. *)

Stages == Draining \cup {"off", "requeue", "shutdown", "close", "exit"}

Futures == {"none", "running", "result", "failure", "published"}

Job == [key : Keys \cup {NoKey}, future : Futures]

Intent == [key : Keys \cup {NoKey}, action : {"none", "analyze", "update", "retry"}]

EnginesOf == Slots \X {"kept", "lost"}

Shapes ==
  /\ row \in [Keys -> QueueStates \cup {"absent"}]
  /\ pc \in [Sessions -> Stages]
  /\ job \in [Sessions -> [Slots -> Job]]
  /\ engine \in [Sessions -> SUBSET EnginesOf]
  /\ intent \in [Clients -> Intent]
  /\ faults \in Nat

\* A slot is free, or works on a key.
Whole == \A s \in Sessions, t \in Slots : job[s][t] # NoJob => job[s][t].key \in Keys /\ job[s][t].future # "none"

\* The lock tells who is inside.
Locked ==
  /\ \A s \in Sessions : pc[s] \notin {"off", "exit"} <=> lock = s
  /\ lock \in Sessions \cup {Corpus, NoOwner}

\* Only from dispatching to shutting down is anything in flight.
Idle == \A s \in Sessions : pc[s] \notin Draining \cup {"shutdown"} => \A t \in Slots : job[s][t] = NoJob

InHands ==
  \A s \in Sessions : pc[s] \in Draining =>
    /\ \A p \in Keys : row[p] = "running" <=> \E t \in Slots : job[s][t].key = p
    /\ \A t, u \in Slots : job[s][t].key = job[s][u].key /\ job[s][t] # NoJob => t = u

\* A session that met no fault leaves nothing running behind.
Settled ==
  /\ \A s \in Sessions : pc[s] \in {"shutdown", "close"} /\ faults = 0 => RowsIn("running") = {}
  /\ lock \notin Sessions /\ faults = 0 => RowsIn("running") = {}

Results ==
  /\ \A s \in Sessions, t \in Slots : job[s][t].future = "published" => job[s][t].key \in stored
  /\ DoneHasResult

Inside == \A s \in Sessions : engine[s] # {} => pc[s] \notin {"off", "requeue"}

SInv == Shapes /\ Whole /\ Locked /\ Idle /\ InHands /\ Settled /\ Results /\ Inside

-----------------------------------------------------------------------------
(* The steps of a session. *)

USE DEF queueVars, sessionVars

LEMMA InitSessions == Init => SInv
BY DEF Init, QueueInit, SInv, Shapes, Whole, Locked, Idle, InHands, Settled, Results, Inside, DoneHasResult,
       RowsIn, NoJob, NoIntent, Job, Intent, Futures, QueueStates, Stages, Draining

LEMMA SessionSteps ==
  ASSUME SInv, NEW s \in Sessions
  PROVE  /\ Start(s) \/ Requeue(s) \/ RequeueFails(s) => SInv'
         /\ DispatchEnds(s) \/ DispatchFails(s) \/ WaitReturns(s) => SInv'
         /\ Shutdown(s) \/ CloseEngines(s) \/ CloseFails(s) => SInv'
         /\ Exit(s) \/ Dies(s) => SInv'
<1> USE DEF SInv, Shapes, Whole, Locked, Idle, InHands, Settled, Results, Inside, DoneHasResult,
            RowsIn, NoJob, Job, Futures, QueueStates, Stages, Draining, InFlight
<1>1. ASSUME Start(s) PROVE SInv'
  BY <1>1 DEF Start
<1>2. ASSUME Requeue(s) PROVE SInv'
  <2>1. /\ pc[s] = "requeue" /\ pc' = [pc EXCEPT ![s] = "dispatch"]
        /\ row' = [p \in Keys |-> IF row[p] = "running" THEN "queued" ELSE row[p]]
        /\ UNCHANGED <<lock, stored, job, engine, intent, faults>>
    BY <1>2 DEF Requeue, RequeueRunning, Move
  <2>2. \A p \in Keys : row'[p] # "running" /\ (row'[p] = "done" => row[p] = "done")
    BY <2>1
  <2>3. Shapes' /\ Whole' /\ Locked' /\ Idle' /\ Inside'
    BY <2>1
  <2>4. InHands'
    <3>1. \A t \in Slots : job'[s][t] = NoJob
      BY <2>1
    <3>2. ASSUME NEW o \in Sessions, pc'[o] \in Draining
          PROVE  o = s
      <4>1. lock = s /\ (o # s => pc'[o] = pc[o])
        BY <2>1
      <4> QED
        BY <3>2, <4>1
    <3> QED
      BY <2>2, <3>1, <3>2
  <2>5. Settled' /\ Results'
    BY <2>1, <2>2
  <2> QED
    BY <2>3, <2>4, <2>5
<1>3. ASSUME RequeueFails(s) PROVE SInv'
  <2>1. /\ pc[s] = "requeue" /\ pc' = [pc EXCEPT ![s] = "off"] /\ lock = s /\ lock' = NoOwner
        /\ UNCHANGED <<row, stored, job, engine, intent>> /\ faults' = faults + 1
    BY <1>3 DEF RequeueFails, Leave, Fault
  <2>2. engine[s] = {}
    BY <2>1
  <2> QED
    BY <2>1, <2>2
<1>4. ASSUME DispatchEnds(s) PROVE SInv'
  BY <1>4 DEF DispatchEnds, Move
<1>5. ASSUME DispatchFails(s) PROVE SInv'
  BY <1>5 DEF DispatchFails, Move, Fault
<1>6. ASSUME WaitReturns(s) PROVE SInv'
  BY <1>6 DEF WaitReturns, Move
<1>7. ASSUME Shutdown(s) PROVE SInv'
  BY <1>7 DEF Shutdown, Move
<1>8. ASSUME CloseEngines(s) PROVE SInv'
  BY <1>8 DEF CloseEngines, Leave, Lost
<1>9. ASSUME CloseFails(s) PROVE SInv'
  BY <1>9 DEF CloseFails, Leave, Fault
<1>10. ASSUME Exit(s) PROVE SInv'
  BY <1>10 DEF Exit, ProcessEnds, Leave
<1>11. ASSUME Dies(s) PROVE SInv'
  BY <1>11 DEF Dies, ProcessEnds, Leave, Fault
<1> QED
  BY <1>1, <1>2, <1>3, <1>4, <1>5, <1>6, <1>7, <1>8, <1>9, <1>10, <1>11

-----------------------------------------------------------------------------
(* The work in flight. *)

\* What is said of the slots is said of keys and futures, one slot at a time.
LEMMA JobSet ==
  ASSUME SInv, NEW s \in Sessions, NEW t \in Slots, NEW j \in Job, job' = [job EXCEPT ![s][t] = j]
  PROVE  /\ job' \in [Sessions -> [Slots -> Job]]
         /\ job'[s][t] = j
         /\ \A o \in Sessions, u \in Slots : o # s \/ u # t => job'[o][u] = job[o][u]
BY DEF SInv, Shapes

LEMMA FutureSet ==
  ASSUME SInv, NEW s \in Sessions, NEW t \in Slots, job[s][t] # NoJob,
         NEW f \in Futures \ {"none"}, SetFuture(s, t, f)
  PROVE  /\ job' \in [Sessions -> [Slots -> Job]]
         /\ \A o \in Sessions, u \in Slots :
              job'[o][u].key = job[o][u].key /\ (job'[o][u] = NoJob <=> job[o][u] = NoJob)
         /\ job'[s][t].future = f
         /\ \A o \in Sessions, u \in Slots : o # s \/ u # t => job'[o][u] = job[o][u]
<1>1. job[s][t] \in Job
  BY DEF SInv, Shapes
<1>2. PICK j : j = [job[s][t] EXCEPT !.future = f]
  OBVIOUS
<1>3. j \in Job /\ j.key = job[s][t].key /\ j.future = f /\ j # NoJob
  BY <1>1, <1>2 DEF Job, NoJob
<1>4. job' = [job EXCEPT ![s][t] = j]
  BY <1>2 DEF SetFuture
<1>5. /\ job' \in [Sessions -> [Slots -> Job]] /\ job'[s][t] = j
      /\ \A o \in Sessions, u \in Slots : o # s \/ u # t => job'[o][u] = job[o][u]
  BY <1>3, <1>4 DEF SInv, Shapes
<1>6. ASSUME NEW o \in Sessions, NEW u \in Slots
      PROVE  job'[o][u].key = job[o][u].key /\ (job'[o][u] = NoJob <=> job[o][u] = NoJob)
  <2>1. CASE o = s /\ u = t
    BY <1>3, <1>5, <2>1
  <2>2. CASE o # s \/ u # t
    BY <1>5, <2>2
  <2> QED
    BY <2>1, <2>2
<1> QED
  BY <1>3, <1>5, <1>6

LEMMA FutureKeeps ==
  ASSUME SInv, NEW s \in Sessions, NEW t \in Slots, job[s][t] # NoJob,
         NEW f \in Futures \ {"none"}, SetFuture(s, t, f),
         pc[s] \in Draining \cup {"shutdown"},
         \/ pc' = pc
         \/ pc[s] \in Draining /\ \E to \in Draining \cup {"shutdown"} : pc' = [pc EXCEPT ![s] = to]
                               /\ (to = "shutdown" => faults' = faults + 1),
         stored \subseteq stored', f = "published" => job[s][t].key \in stored',
         engine' \in [Sessions -> SUBSET EnginesOf], \A o \in Sessions \ {s} : engine'[o] = engine[o],
         faults' \in {faults, faults + 1}, UNCHANGED <<row, lock, intent>>
  PROVE  SInv'
<1>1. /\ job' \in [Sessions -> [Slots -> Job]]
      /\ \A o \in Sessions, u \in Slots :
           job'[o][u].key = job[o][u].key /\ (job'[o][u] = NoJob <=> job[o][u] = NoJob)
      /\ job'[s][t].future = f
      /\ \A o \in Sessions, u \in Slots : o # s \/ u # t => job'[o][u] = job[o][u]
  BY FutureSet
<1>2. /\ pc' \in [Sessions -> Stages] /\ \A o \in Sessions \ {s} : pc'[o] = pc[o]
      /\ pc'[s] \in Draining \cup {"shutdown"}
      /\ pc[s] = "shutdown" => pc'[s] = "shutdown"
      /\ pc'[s] = "shutdown" => pc[s] = "shutdown" \/ faults' = faults + 1
  BY DEF SInv, Shapes, Stages, Draining
<1>3. Shapes'
  BY <1>1, <1>2 DEF SInv, Shapes
<1>4. Whole' /\ Idle'
  <2>1. ASSUME NEW o \in Sessions, NEW u \in Slots, job'[o][u] # NoJob
        PROVE  job'[o][u].key \in Keys /\ job'[o][u].future # "none"
    <3>1. job[o][u].key \in Keys /\ job[o][u].future # "none" /\ job'[o][u].key = job[o][u].key
      BY <1>1, <2>1 DEF SInv, Whole
    <3>2. CASE o = s /\ u = t
      BY <1>1, <3>1, <3>2
    <3>3. CASE o # s \/ u # t
      BY <1>1, <3>1, <3>3
    <3> QED
      BY <3>2, <3>3
  <2>2. ASSUME NEW o \in Sessions, pc'[o] \notin Draining \cup {"shutdown"}, NEW u \in Slots
        PROVE  job'[o][u] = NoJob
    BY <1>1, <1>2, <2>2 DEF SInv, Idle
  <2> QED
    BY <2>1, <2>2 DEF Whole, Idle
<1>5. Locked'
  BY <1>2 DEF SInv, Locked, Draining
<1>6. InHands'
  <2>1. \A o \in Sessions : pc'[o] \in Draining => pc[o] \in Draining
    BY <1>2 DEF Draining
  <2>2. ASSUME NEW o \in Sessions, pc'[o] \in Draining
        PROVE  /\ \A p \in Keys : row'[p] = "running" <=> \E u \in Slots : job'[o][u].key = p
               /\ \A u, v \in Slots : job'[o][u].key = job'[o][v].key /\ job'[o][u] # NoJob => u = v
    <3>1. /\ \A p \in Keys : row[p] = "running" <=> \E u \in Slots : job[o][u].key = p
          /\ \A u, v \in Slots : job[o][u].key = job[o][v].key /\ job[o][u] # NoJob => u = v
      BY <2>1, <2>2 DEF SInv, InHands
    <3>2. \A u \in Slots : job'[o][u].key = job[o][u].key /\ (job'[o][u] = NoJob <=> job[o][u] = NoJob)
      BY <1>1
    <3> QED
      BY <3>1, <3>2
  <2> QED
    BY <2>2 DEF InHands
<1>7. Settled'
  BY <1>2, <1>5 DEF SInv, Shapes, Settled, RowsIn, Locked, Draining
<1>8. Results'
  BY <1>1 DEF SInv, Results, DoneHasResult, RowsIn
<1>9. Inside'
  BY <1>2 DEF SInv, Inside, Draining
<1> QED
  BY <1>3, <1>4, <1>5, <1>6, <1>7, <1>8, <1>9 DEF SInv

LEMMA WorkSteps ==
  ASSUME SInv, NEW s \in Sessions, NEW t \in Slots
  PROVE  /\ EvaluationReturns(s, t) \/ EvaluationFails(s, t) \/ TerminationFails(s, t) => SInv'
         /\ PublishResult(s, t) \/ PublishFails(s, t) \/ CompleteFails(s, t) => SInv'
<1> USE DEF Futures, Draining
<1>1. job[s][t].future # "none" => job[s][t] # NoJob
  BY DEF NoJob
<1>2. job[s][t] # NoJob => pc[s] \in Draining \cup {"shutdown"}
  BY DEF SInv, Idle
<1>3. engine \in [Sessions -> SUBSET EnginesOf] /\ faults \in Nat
  BY DEF SInv, Shapes
<1>4. ASSUME EvaluationReturns(s, t) PROVE SInv'
  <2>1. engine' \in [Sessions -> SUBSET EnginesOf] /\ \A o \in Sessions \ {s} : engine'[o] = engine[o]
    BY <1>3, <1>4 DEF EvaluationReturns, EnginesOf
  <2>2. /\ job[s][t].future = "running" /\ SetFuture(s, t, "result")
        /\ UNCHANGED <<row, stored, lock, pc, intent, faults>>
    BY <1>4 DEF EvaluationReturns
  <2> QED
    BY <1>1, <1>2, <2>1, <2>2, FutureKeeps
<1>5. ASSUME EvaluationFails(s, t) PROVE SInv'
  <2>1. engine' \in [Sessions -> SUBSET EnginesOf] /\ \A o \in Sessions \ {s} : engine'[o] = engine[o]
    BY <1>3, <1>5 DEF EvaluationFails, EnginesOf
  <2>2. /\ job[s][t].future = "running" /\ SetFuture(s, t, "failure")
        /\ UNCHANGED <<row, stored, lock, pc, intent, faults>>
    BY <1>5 DEF EvaluationFails
  <2> QED
    BY <1>1, <1>2, <2>1, <2>2, FutureKeeps
<1>6. ASSUME PublishResult(s, t) PROVE SInv'
  <2>1. /\ job[s][t].future = "result" /\ SetFuture(s, t, "published")
        /\ pc[s] = "settle" /\ pc' = [pc EXCEPT ![s] = "complete"]
        /\ stored' = stored \cup {job[s][t].key} /\ UNCHANGED <<row, lock, engine, intent, faults>>
    BY <1>6 DEF PublishResult, Move
  <2>2. stored \subseteq stored' /\ job[s][t].key \in stored'
    BY <2>1
  <2>3. \E to \in Draining \cup {"shutdown"} : pc' = [pc EXCEPT ![s] = to] /\ (to = "shutdown" => faults' = faults + 1)
    BY <2>1
  <2> QED
    BY <1>1, <1>2, <1>3, <2>1, <2>2, <2>3, FutureKeeps
<1>7. ASSUME PublishFails(s, t) PROVE SInv'
  BY <1>1, <1>2, <1>3, <1>7, FutureKeeps DEF PublishFails, At, Fault
<1>8. ASSUME CompleteFails(s, t) PROVE SInv'
  BY <1>1, <1>2, <1>3, <1>8, FutureKeeps DEF CompleteFails, Move, Fault
<1>9. ASSUME TerminationFails(s, t) PROVE SInv'
  <2>1. /\ engine' \in [Sessions -> SUBSET EnginesOf]
        /\ \A o \in Sessions \ {s} : engine'[o] = engine[o]
    BY <1>3, <1>9 DEF TerminationFails, EnginesOf
  <2>2. /\ job[s][t].future = "running" /\ SetFuture(s, t, "failure") /\ faults' = faults + 1
        /\ UNCHANGED <<row, stored, lock, pc, intent>>
    BY <1>9 DEF TerminationFails, Fault
  <2> QED
    BY <1>1, <1>2, <2>1, <2>2, FutureKeeps
<1> QED
  BY <1>4, <1>5, <1>6, <1>7, <1>8, <1>9

LEMMA NoJobIsJob == NoJob \in Job
BY DEF NoJob, Job, Futures

\* An item leaves its slot together with the running state of its row.
LEMMA ItemEnds ==
  ASSUME SInv, NEW s \in Sessions, NEW t \in Slots, pc[s] \in Draining, job[s][t] # NoJob,
         SetJob(s, t, NoJob), NEW st \in {"done", "failed"}, row' = [row EXCEPT ![job[s][t].key] = st],
         st = "done" => job[s][t].key \in stored,
         NEW to \in Draining, pc' = [pc EXCEPT ![s] = to], UNCHANGED <<lock, stored, engine, intent, faults>>
  PROVE  SInv'
<1> DEFINE k == job[s][t].key
<1>1. /\ job' \in [Sessions -> [Slots -> Job]] /\ job'[s][t] = NoJob
      /\ \A o \in Sessions, u \in Slots : o # s \/ u # t => job'[o][u] = job[o][u]
  BY NoJobIsJob DEF SetJob, SInv, Shapes
<1>2. /\ pc' \in [Sessions -> Stages] /\ pc'[s] \in Draining /\ \A o \in Sessions \ {s} : pc'[o] = pc[o]
  BY DEF SInv, Shapes, Stages
<1>3. /\ k \in Keys /\ row[k] = "running" /\ row'[k] = st /\ \A p \in Keys \ {k} : row'[p] = row[p]
      /\ row' \in [Keys -> QueueStates \cup {"absent"}]
  <2>1. k \in Keys
    BY DEF SInv, Whole
  <2>2. row[k] = "running"
    BY <2>1 DEF SInv, InHands
  <2> QED
    BY <2>1, <2>2 DEF SInv, Shapes, QueueStates
<1>4. Shapes'
  BY <1>1, <1>2, <1>3 DEF SInv, Shapes
<1>5. Whole' /\ Idle'
  <2>1. ASSUME NEW o \in Sessions, NEW u \in Slots
        PROVE  job'[o][u] \in {job[o][u], NoJob}
    BY <1>1
  <2> QED
    BY <1>2, <2>1 DEF SInv, Whole, Idle
<1>6. Locked'
  BY <1>2 DEF SInv, Locked, Draining
<1>7. \A o \in Sessions : pc'[o] \in Draining => o = s
  <2>1. lock = s
    BY DEF SInv, Locked, Draining
  <2> QED
    BY <1>2, <2>1 DEF SInv, Locked, Draining
<1>8. InHands'
  <2>1. /\ \A p \in Keys : row[p] = "running" <=> \E u \in Slots : job[s][u].key = p
        /\ \A u, v \in Slots : job[s][u].key = job[s][v].key /\ job[s][u] # NoJob => u = v
    BY DEF SInv, InHands
  <2>2. \A u \in Slots \ {t} : job'[s][u] = job[s][u] /\ job[s][u].key # k
    BY <1>1, <2>1
  <2>3. job'[s][t].key = NoKey /\ NoKey \notin Keys
    BY <1>1 DEF NoJob
  <2>4. ASSUME NEW p \in Keys
        PROVE  row'[p] = "running" <=> \E u \in Slots : job'[s][u].key = p
    <3>1. CASE p = k
      BY <1>3, <2>2, <2>3, <3>1
    <3>2. CASE p # k
      BY <1>3, <2>1, <2>2, <2>3, <3>2
    <3> QED
      BY <3>1, <3>2
  <2>5. ASSUME NEW u \in Slots, NEW v \in Slots, job'[s][u].key = job'[s][v].key, job'[s][u] # NoJob
        PROVE  u = v
    <3>1. u # t /\ job[s][u] # NoJob /\ job'[s][u] = job[s][u]
      BY <1>1, <2>2, <2>5
    <3>2. job'[s][u].key \in Keys
      BY <3>1 DEF SInv, Whole
    <3> QED
      BY <2>1, <2>2, <2>3, <2>5, <3>1, <3>2
  <2> QED
    BY <1>7, <2>4, <2>5 DEF InHands
<1>9. Settled'
  <2>1. RowsIn("running")' \subseteq RowsIn("running")
    BY <1>3 DEF RowsIn
  <2> QED
    BY <1>2, <2>1 DEF SInv, Settled, Draining
<1>10. Results'
  <2>1. \A o \in Sessions, u \in Slots : job'[o][u].future = "published" => job'[o][u] = job[o][u]
    BY <1>1 DEF NoJob
  <2>2. RowsIn("done")' \subseteq RowsIn("done") \cup {k} /\ (k \in RowsIn("done")' => k \in stored)
    BY <1>3 DEF RowsIn
  <2> QED
    BY <2>1, <2>2 DEF SInv, Results, DoneHasResult
<1>11. Inside'
  BY <1>2 DEF SInv, Inside, Draining
<1> QED
  BY <1>4, <1>5, <1>6, <1>8, <1>9, <1>10, <1>11 DEF SInv

\* A claimed row was queued, so nobody has it in hand.
LEMMA ItemStarts ==
  ASSUME SInv, NEW s \in Sessions, NEW t \in Slots, NEW k \in Keys, DispatchClaim(s, t, k)
  PROVE  SInv'
<1> DEFINE j == [key |-> k, future |-> "running"]
<1>1. /\ pc[s] = "dispatch" /\ job[s][t] = NoJob /\ row[k] = "queued"
      /\ row' = [row EXCEPT ![k] = "running"]
      /\ UNCHANGED <<pc, lock, stored, engine, intent, faults>> /\ SetJob(s, t, j)
  BY DEF DispatchClaim, At, ClaimNext, OldestQueued
<1>2. j \in Job /\ j # NoJob
  BY DEF Job, NoJob, Futures
<1>3. /\ job' \in [Sessions -> [Slots -> Job]] /\ job'[s][t] = j
      /\ \A o \in Sessions, u \in Slots : o # s \/ u # t => job'[o][u] = job[o][u]
  BY <1>1, <1>2 DEF SetJob, SInv, Shapes
<1>4. /\ row'[k] = "running" /\ \A p \in Keys \ {k} : row'[p] = row[p]
      /\ row' \in [Keys -> QueueStates \cup {"absent"}]
  BY <1>1 DEF SInv, Shapes, QueueStates
<1>5. Shapes'
  BY <1>1, <1>3, <1>4 DEF SInv, Shapes
<1>6. Whole' /\ Idle'
  <2>1. ASSUME NEW o \in Sessions, NEW u \in Slots, job'[o][u] # NoJob
        PROVE  job'[o][u].key \in Keys /\ job'[o][u].future # "none"
    <3>1. CASE o = s /\ u = t
      BY <1>3, <3>1
    <3>2. CASE o # s \/ u # t
      BY <1>3, <2>1, <3>2 DEF SInv, Whole
    <3> QED
      BY <3>1, <3>2
  <2>2. Idle'
    BY <1>1, <1>3 DEF SInv, Idle, Draining
  <2> QED
    BY <2>1, <2>2 DEF Whole
<1>7. Locked' /\ Inside'
  BY <1>1 DEF SInv, Locked, Inside
<1>8. \A o \in Sessions : pc'[o] \in Draining => o = s
  <2>1. lock = s
    BY <1>1 DEF SInv, Locked
  <2> QED
    BY <1>1, <2>1 DEF SInv, Locked, Draining
<1>9. InHands'
  <2>1. /\ \A p \in Keys : row[p] = "running" <=> \E u \in Slots : job[s][u].key = p
        /\ \A u, v \in Slots : job[s][u].key = job[s][v].key /\ job[s][u] # NoJob => u = v
    BY <1>1 DEF SInv, InHands, Draining
  <2>2. \A u \in Slots \ {t} : job'[s][u] = job[s][u] /\ job[s][u].key # k
    BY <1>1, <1>3, <2>1
  <2>3. job'[s][t].key = k /\ job[s][t].key \notin Keys
    BY <1>1, <1>3 DEF NoJob
  <2>4. ASSUME NEW p \in Keys
        PROVE  row'[p] = "running" <=> \E u \in Slots : job'[s][u].key = p
    <3>1. CASE p = k
      BY <1>4, <2>3, <3>1
    <3>2. CASE p # k
      BY <1>4, <2>1, <2>2, <2>3, <3>2
    <3> QED
      BY <3>1, <3>2
  <2>5. ASSUME NEW u \in Slots, NEW v \in Slots, job'[s][u].key = job'[s][v].key, job'[s][u] # NoJob
        PROVE  u = v
    <3>1. CASE u = t \/ v = t
      BY <2>2, <2>3, <2>5, <3>1
    <3>2. CASE u # t /\ v # t
      BY <2>1, <2>2, <2>5, <3>2
    <3> QED
      BY <3>1, <3>2
  <2> QED
    BY <1>8, <2>4, <2>5 DEF InHands
<1>10. Settled'
  <2>1. lock = s
    BY <1>1 DEF SInv, Locked
  <2> QED
    BY <1>1, <2>1 DEF SInv, Settled, Locked
<1>11. Results'
  <2>1. \A o \in Sessions, u \in Slots : job'[o][u].future = "published" => job'[o][u] = job[o][u]
    BY <1>3
  <2>2. RowsIn("done")' \subseteq RowsIn("done")
    BY <1>4 DEF RowsIn
  <2> QED
    BY <1>1, <2>1, <2>2 DEF SInv, Results, DoneHasResult
<1> QED
  BY <1>5, <1>6, <1>7, <1>9, <1>10, <1>11 DEF SInv

LEMMA ItemSteps ==
  ASSUME SInv, NEW s \in Sessions, NEW t \in Slots
  PROVE  /\ CompleteItem(s, t) \/ RecordFailure(s, t) => SInv'
         /\ RecordFailureFails(s, t) => SInv'
<1>1. job[s][t].future # "none" => job[s][t] # NoJob
  BY DEF NoJob
<1>2. ASSUME CompleteItem(s, t) PROVE SInv'
  <2>1. /\ pc[s] \in Draining /\ job[s][t].future = "published" /\ SetJob(s, t, NoJob)
        /\ row' = [row EXCEPT ![job[s][t].key] = "done"] /\ UNCHANGED <<lock, stored, engine, intent, faults>>
    BY <1>2 DEF CompleteItem, Complete, NextFuture, Draining
  <2>2. PICK to \in Draining : pc' = [pc EXCEPT ![s] = to]
    BY <1>2 DEF CompleteItem, NextFuture, Draining
  <2>3. job[s][t].key \in stored
    BY <2>1 DEF SInv, Results
  <2> QED
    BY <1>1, <2>1, <2>2, <2>3, ItemEnds
<1>3. ASSUME RecordFailure(s, t) PROVE SInv'
  <2>1. /\ pc[s] \in Draining /\ job[s][t].future = "failure" /\ SetJob(s, t, NoJob)
        /\ row' = [row EXCEPT ![job[s][t].key] = "failed"] /\ UNCHANGED <<lock, stored, engine, intent, faults>>
    BY <1>3 DEF RecordFailure, Fail, NextFuture, Draining
  <2>2. PICK to \in Draining : pc' = [pc EXCEPT ![s] = to]
    BY <1>3 DEF RecordFailure, NextFuture, Draining
  <2> QED
    BY <1>1, <2>1, <2>2, ItemEnds
<1>4. ASSUME RecordFailureFails(s, t) PROVE SInv'
  <2>1. /\ pc[s] = "settle" /\ pc' = [pc EXCEPT ![s] = "shutdown"] /\ faults' = faults + 1
        /\ UNCHANGED <<row, lock, stored, job, engine, intent>>
    BY <1>4 DEF RecordFailureFails, Move, Fault
  <2> QED
    BY <2>1 DEF SInv, Shapes, Whole, Locked, Idle, InHands, Settled, Results, Inside, DoneHasResult,
                RowsIn, Stages, Draining
<1> QED
  BY <1>2, <1>3, <1>4

-----------------------------------------------------------------------------
(* The other owner of the lock, and the clients. *)

LEMMA CorpusSteps ==
  ASSUME SInv, CorpusStarts \/ CorpusEnds \/ (\E p \in Keys : CorpusPublishes(p)) \/ UNCHANGED vars
  PROVE  SInv'
<1>1. /\ UNCHANGED <<row, pc, job, engine, intent, faults>> /\ stored \subseteq stored'
      /\ (lock' = lock \/ (lock \notin Sessions /\ lock' \in {Corpus, NoOwner}))
  BY DEF CorpusStarts, CorpusEnds, CorpusPublishes, vars
<1> QED
  BY <1>1 DEF SInv, Shapes, Whole, Locked, Idle, InHands, Settled, Results, Inside, DoneHasResult, RowsIn

\* A request never touches a row that is queued or running.
LEMMA ClientSteps ==
  ASSUME SInv, NEW c \in Clients,
         Submit(c) \/ \E p \in Keys, a \in {"analyze", "update", "retry"} : Look(c, p, a)
  PROVE  SInv'
<1>1. intent' \in [Clients -> Intent]
  BY DEF Submit, Look, SInv, Shapes, Intent, NoIntent
<1>2. UNCHANGED <<pc, job, engine, lock, stored, faults>>
  BY DEF Submit, Look
<1>3. /\ row' \in [Keys -> QueueStates \cup {"absent"}]
      /\ \A p \in Keys : row'[p] = row[p] \/ (~Live(row[p]) /\ row'[p] = "queued")
  BY DEF Submit, Look, Enqueue, SInv, Shapes, QueueStates
<1>4. \A p \in Keys : (row'[p] = "running" <=> row[p] = "running") /\ (row'[p] = "done" => row[p] = "done")
  BY <1>3 DEF Live
<1>5. Shapes'
  BY <1>1, <1>2, <1>3 DEF SInv, Shapes
<1> QED
  BY <1>2, <1>4, <1>5 DEF SInv, Whole, Locked, Idle, InHands, Settled, Results, Inside, DoneHasResult, RowsIn

LEMMA StepSessions == SInv /\ [Next]_vars => SInv'
<1> SUFFICES ASSUME SInv, [Next]_vars PROVE SInv'
  OBVIOUS
<1>1. ASSUME NEW s \in Sessions, Start(s) \/ Requeue(s) \/ Drain(s) \/ Breaks(s) \/ \E t \in Slots : Work(s, t)
      PROVE  SInv'
  BY <1>1, SessionSteps, WorkSteps, ItemSteps, ItemStarts, Zenon DEF Drain, Breaks, Work
<1>2. ASSUME NEW c \in Clients, Submit(c) \/ \E p \in Keys, a \in {"analyze", "update", "retry"} : Look(c, p, a)
      PROVE  SInv'
  BY <1>2, ClientSteps
<1> QED
  BY <1>1, <1>2, CorpusSteps, Zenon DEF Next

THEOREM SessionInvariant == Spec => []SInv
BY InitSessions, StepSessions, PTL DEF Spec

-----------------------------------------------------------------------------
(* The theorems. *)

\* complete and fail never find a row that is not running: while a session
\* drains, the running rows are those in its hands, each in one slot.
THEOREM RunningIsInFlight == Spec => []InFlightIsRunning
<1>1. ASSUME SInv PROVE InFlightIsRunning
  <2> SUFFICES ASSUME NEW s \in Sessions, pc[s] \in Draining
               PROVE  /\ KeysInFlight(s) = RowsIn("running")
                      /\ \A t, u \in InFlight(s) : job[s][t].key = job[s][u].key => t = u
    BY DEF InFlightIsRunning
  <2>1. \A p \in Keys : row[p] = "running" <=> \E t \in Slots : job[s][t].key = p
    BY <1>1 DEF SInv, InHands
  <2>2. \A t \in Slots : job[s][t] # NoJob <=> job[s][t].key \in Keys
    BY <1>1 DEF SInv, Whole, NoJob
  <2>3. KeysInFlight(s) = RowsIn("running")
    BY <2>1, <2>2 DEF KeysInFlight, InFlight, RowsIn
  <2> QED
    BY <1>1, <2>3 DEF SInv, InHands, InFlight
<1> QED
  BY <1>1, SessionInvariant, PTL

\* Rows are left running only by sessions that met a fault.
THEOREM OrphansAreFaults == Spec => []OrphansNeedFaults
<1>1. SInv => OrphansNeedFaults
  BY DEF SInv, Shapes, Settled, OrphansNeedFaults
<1> QED
  BY <1>1, SessionInvariant, PTL

\* An item is done only when its result is stored.
THEOREM DoneIsStored == Spec => []DoneHasResult
<1>1. SInv => DoneHasResult
  BY DEF SInv, Results
<1> QED
  BY <1>1, SessionInvariant, PTL

\* Engines run under the lock, but for one that would not close or terminate, until
\* its process goes.
THEOREM EnginesAreLocked == Spec => []EnginesUnderLock
<1>1. SInv => EnginesUnderLock
  BY DEF SInv, Locked, Inside, EnginesUnderLock
<1> QED
  BY <1>1, SessionInvariant, PTL

\* Items are accounted for with any sessions, slots, clients and faults.
THEOREM ItemsStayAccountedFor == Spec => []ItemsAreAccountedFor
BY RunningIsInFlight, OrphansAreFaults, DoneIsStored, EnginesAreLocked, PTL
   DEF ItemsAreAccountedFor

HIDE SessionAssumption DEF SessionAssumption, queueVars, sessionVars

-----------------------------------------------------------------------------
(* Orders. *)

\* R puts the members of S in one order.
Orders(R, S) ==
  /\ \A x, y \in S : x # y => <<x, y>> \in R \/ <<y, x>> \in R
  /\ \A x, y \in S : <<x, y>> \in R => <<y, x>> \notin R
  /\ \A x, y, z \in S : <<x, y>> \in R /\ <<y, z>> \in R => <<x, z>> \in R

\* A finite set in an order is a sequence in that order.
LEMMA OrderExists ==
  ASSUME NEW S, IsFiniteSet(S), NEW R, Orders(R, S)
  PROVE  \E s \in [1 .. Cardinality(S) -> S] :
            \A i, j \in 1 .. Cardinality(S) : i < j => <<s[i], s[j]>> \in R
<1> DEFINE n == Cardinality(S)
           Down(x) == {y \in S : y = x \/ <<y, x>> \in R}
           place == [x \in S |-> Cardinality(Down(x))]
<1>0. n \in Nat
  BY FS_CardinalityType
<1>1. ASSUME NEW x \in S PROVE place[x] \in 1 .. n
  <2>1. Down(x) \in SUBSET S /\ x \in Down(x)
    OBVIOUS
  <2> HIDE DEF Down
  <2>2. IsFiniteSet(Down(x)) /\ Cardinality(Down(x)) <= n
    BY <2>1, FS_Subset
  <2>3. Cardinality(Down(x)) \in Nat /\ Cardinality(Down(x)) # 0
    BY <2>1, <2>2, FS_CardinalityType, FS_EmptySet
  <2> QED
    BY <2>2, <2>3, <1>0
<1>2. ASSUME NEW x \in S, NEW y \in S, <<x, y>> \in R PROVE place[x] < place[y]
  <2> DEFINE A == Down(x)
             B == Down(y)
  <2>1. A \in SUBSET B /\ y \in B /\ y \notin A /\ B \in SUBSET S
    BY <1>2 DEF Orders
  <2>4. place[x] = Cardinality(A) /\ place[y] = Cardinality(B)
    OBVIOUS
  <2> HIDE DEF A, B
  <2>2. IsFiniteSet(B)
    BY <2>1, FS_Subset
  <2>3. Cardinality(A) <= Cardinality(B) /\ Cardinality(B) # Cardinality(A)
    BY <2>1, <2>2, FS_Subset
  <2>5. Cardinality(A) \in Nat /\ Cardinality(B) \in Nat
    BY <2>1, <2>2, FS_Subset, FS_CardinalityType
  <2> QED
    BY <2>3, <2>4, <2>5
<1> HIDE DEF place
<1>3. place \in [S -> 1 .. n]
  BY <1>1 DEF place
<1>4. ASSUME NEW x \in S, NEW y \in S, place[x] = place[y] PROVE x = y
  <2>1. place[x] \in Int /\ ~(place[x] < place[y]) /\ ~(place[y] < place[x])
    BY <1>1, <1>4
  <2> QED
    BY <2>1, <1>2 DEF Orders
<1>5. \A i \in 1 .. n : \E x \in S : place[x] = i
  <2>1. place \in Injection(S, 1 .. n)
    BY <1>3, <1>4 DEF Injection, IsInjective
  <2>2. IsFiniteSet(1 .. n) /\ Cardinality(1 .. n) = n
    BY <1>0, FS_Interval
  <2>3. place \in Surjection(S, 1 .. n)
    BY <2>1, <2>2, <1>0, FS_Injection
  <2> QED
    BY <2>3 DEF Surjection
<1> DEFINE s == [i \in 1 .. n |-> CHOOSE x \in S : place[x] = i]
<1>6. \A i \in 1 .. n : s[i] \in S /\ place[s[i]] = i
  BY <1>5
<1>7. s \in [1 .. n -> S]
  BY <1>6
<1> HIDE DEF s
<1>8. ASSUME NEW i \in 1 .. n, NEW j \in 1 .. n, i < j PROVE <<s[i], s[j]>> \in R
  <2>1. s[i] \in S /\ s[j] \in S /\ place[s[i]] = i /\ place[s[j]] = j
    BY <1>6
  <2>2. s[i] # s[j] /\ ~(<<s[j], s[i]>> \in R)
    BY <2>1, <1>2, <1>8
  <2> QED
    BY <2>1, <2>2 DEF Orders
<1> QED
  BY <1>7, <1>8

\* What a finite set in an order is, read as a sequence.
LEMMA OrderedIs ==
  ASSUME NEW S, IsFiniteSet(S), NEW R, Orders(R, S), NEW s \in [1 .. Cardinality(S) -> S],
         \A i, j \in 1 .. Cardinality(S) : i < j => <<s[i], s[j]>> \in R
  PROVE  s \in SetToSeqs(S) /\ s \in Seq(S) /\ Len(s) = Cardinality(S)
<1> DEFINE n == Cardinality(S)
<1>0. n \in Nat
  BY FS_CardinalityType
<1> HIDE DEF n
<1>1. s \in [1 .. n -> S] /\ \A i, j \in 1 .. n : i < j => <<s[i], s[j]>> \in R
  BY DEF n
<1>2. ASSUME NEW i \in 1 .. n, NEW j \in 1 .. n, i # j PROVE s[i] # s[j]
  <2>1. s[i] \in S
    BY <1>1
  <2>3. i < j \/ j < i
    BY <1>0, <1>2
  <2>2. <<s[i], s[i]>> \notin R
    BY <2>1 DEF Orders
  <2> QED
    BY <1>1, <2>1, <2>2, <2>3
<1>3. s \in Seq(S) /\ Len(s) = n
  BY <1>0, <1>1
<1>4. s \in {f \in [1 .. n -> S] : \A i, j \in 1 .. n : i # j => f[i] # f[j]}
  BY <1>1, <1>2
<1> QED
  BY <1>3, <1>4 DEF n, SetToSeqs

\* A sequence of all members of a set has each of them.
LEMMA SeqsCover ==
  ASSUME NEW S, IsFiniteSet(S), NEW s \in SetToSeqs(S)
  PROVE  /\ s \in Seq(S) /\ Len(s) = Cardinality(S)
         /\ \A x \in S : \E i \in 1 .. Len(s) : s[i] = x
         /\ \A i, j \in 1 .. Len(s) : i # j => s[i] # s[j]
<1> DEFINE n == Cardinality(S)
<1>0. n \in Nat
  BY FS_CardinalityType
<1>1. s \in [1 .. n -> S] /\ \A i, j \in 1 .. n : i # j => s[i] # s[j]
  BY DEF SetToSeqs
<1>2. IsFiniteSet(1 .. n) /\ Cardinality(1 .. n) = n
  BY <1>0, FS_Interval
<1>3. s \in Injection(1 .. n, S)
  BY <1>1 DEF Injection, IsInjective
<1>4. s \in Surjection(1 .. n, S)
  BY <1>2, <1>3, FS_Injection
<1>5. \A x \in S : \E i \in 1 .. n : s[i] = x
  BY <1>4 DEF Surjection
<1> HIDE DEF n
<1>6. s \in Seq(S) /\ Len(s) = n
  BY <1>0, <1>1
<1> QED
  BY <1>1, <1>5, <1>6 DEF n

-----------------------------------------------------------------------------
(* Finite sets, counted. *)

\* Sets that are mapped onto each other one to one are as large.
LEMMA SameCount ==
  ASSUME NEW S, NEW T, IsFiniteSet(S), NEW f \in [S -> T],
         \A x, y \in S : f[x] = f[y] => x = y, \A z \in T : \E x \in S : f[x] = z
  PROVE  IsFiniteSet(T) /\ Cardinality(T) = Cardinality(S)
<1>1. f \in Surjection(S, T) /\ f \in Injection(S, T)
  BY DEF Surjection, Injection, IsInjective
<1> QED
  BY <1>1, FS_Surjection

\* A set that is mapped one to one into another is not larger.
LEMMA NotMore ==
  ASSUME NEW S, NEW T, IsFiniteSet(T), NEW f \in [S -> T],
         \A x, y \in S : f[x] = f[y] => x = y
  PROVE  IsFiniteSet(S) /\ Cardinality(S) <= Cardinality(T)
<1>1. f \in Injection(S, T)
  BY DEF Injection, IsInjective
<1> QED
  BY <1>1, FS_Injection

\* Finitely many finite sets, each with the name of its own.
Apart(C) == UNION {{k} \X C[k] : k \in DOMAIN C}

LEMMA ApartIs ==
  ASSUME NEW C
  PROVE  \A x : x \in Apart(C) <=> \E k \in DOMAIN C : \E y \in C[k] : x = <<k, y>>
BY DEF Apart

LEMMA ApartIsFinite ==
  ASSUME NEW C, IsFiniteSet(DOMAIN C), \A k \in DOMAIN C : IsFiniteSet(C[k])
  PROVE  IsFiniteSet(Apart(C))
<1> DEFINE f == [k \in DOMAIN C |-> {k} \X C[k]]
           T == {{k} \X C[k] : k \in DOMAIN C}
<1>1. f \in Surjection(DOMAIN C, T)
  <2>1. f \in [DOMAIN C -> T]
    OBVIOUS
  <2>2. \A t \in T : \E k \in DOMAIN C : f[k] = t
    OBVIOUS
  <2> QED
    BY <2>1, <2>2 DEF Surjection
<1>2. IsFiniteSet(T)
  <2> HIDE DEF f, T
  <2> QED
    BY <1>1, FS_Surjection
<1>3. \A t \in T : IsFiniteSet(t)
  <2>1. \A k \in DOMAIN C : IsFiniteSet({k} \X C[k])
    BY FS_Singleton, FS_Product
  <2> QED
    BY <2>1
<1> HIDE DEF T
<1>4. IsFiniteSet(UNION T)
  BY <1>2, <1>3, FS_UNION
<1> QED
  BY <1>4 DEF T, Apart

\* Together they are as many as their sizes come to.
LEMMA ApartAreAll ==
  ASSUME NEW C, IsFiniteSet(DOMAIN C), \A k \in DOMAIN C : IsFiniteSet(C[k]),
         NEW n, DOMAIN n = DOMAIN C, \A k \in DOMAIN C : n[k] = Cardinality(C[k])
  PROVE  IsFiniteSet(Insight!Pairs(n)) /\ Cardinality(Insight!Pairs(n)) = Cardinality(Apart(C))
<1> DEFINE b == [k \in DOMAIN C |-> CHOOSE f \in Bijection(1 .. n[k], C[k]) : TRUE]
           D == [k \in DOMAIN C |-> 1 .. n[k]]
           g == [x \in Apart(D) |-> <<x[1], b[x[1]][x[2]]>>]
<1>1. ASSUME NEW k \in DOMAIN C
      PROVE  /\ n[k] \in Nat /\ b[k] \in [1 .. n[k] -> C[k]]
             /\ \A i, j \in 1 .. n[k] : b[k][i] = b[k][j] => i = j
             /\ \A y \in C[k] : \E i \in 1 .. n[k] : b[k][i] = y
  <2>1. n[k] \in Nat /\ Bijection(1 .. n[k], C[k]) # {}
    BY FS_CardinalityType DEF ExistsBijection
  <2>2. b[k] \in Bijection(1 .. n[k], C[k])
    BY <2>1
  <2> HIDE DEF b
  <2>3. b[k] \in [1 .. n[k] -> C[k]] /\ b[k] \in Injection(1 .. n[k], C[k]) /\ b[k] \in Surjection(1 .. n[k], C[k])
    BY <2>2 DEF Bijection, Injection, Surjection
  <2> QED
    BY <2>1, <2>3 DEF Injection, IsInjective, Surjection
<1> HIDE DEF b
<1>2. DOMAIN D = DOMAIN C /\ \A k \in DOMAIN C : D[k] = 1 .. n[k]
  OBVIOUS
<1>3. IsFiniteSet(Apart(D))
  <2>1. \A k \in DOMAIN D : IsFiniteSet(D[k])
    BY <1>1, <1>2, FS_Interval
  <2> QED
    BY <2>1, <1>2, ApartIsFinite
<1>4. Insight!Pairs(n) = Apart(D)
  BY <1>2 DEF Insight!Pairs, Apart
<1> HIDE DEF D
<1>9. ASSUME NEW x \in Apart(D) PROVE \E k \in DOMAIN C : \E i \in 1 .. n[k] : x = <<k, i>>
  <2>1. PICK k \in DOMAIN D : \E i \in D[k] : x = <<k, i>>
    BY ApartIs
  <2> QED
    BY <2>1, <1>2
<1>5. g \in [Apart(D) -> Apart(C)]
  <2> SUFFICES ASSUME NEW x \in Apart(D) PROVE <<x[1], b[x[1]][x[2]]>> \in Apart(C)
    OBVIOUS
  <2>1. PICK k \in DOMAIN C : \E i \in 1 .. n[k] : x = <<k, i>>
    BY <1>9
  <2>2. b[k][x[2]] \in C[k] /\ x[1] = k
    BY <2>1, <1>1
  <2> QED
    BY <2>2, ApartIs
<1>6. ASSUME NEW x \in Apart(D), NEW y \in Apart(D), g[x] = g[y] PROVE x = y
  <2>1. PICK k \in DOMAIN C : \E i \in 1 .. n[k] : x = <<k, i>>
    BY <1>9
  <2>2. PICK l \in DOMAIN C : \E i \in 1 .. n[l] : y = <<l, i>>
    BY <1>9
  <2>3. k = l /\ b[k][x[2]] = b[k][y[2]]
    BY <2>1, <2>2, <1>6
  <2> QED
    BY <2>1, <2>2, <2>3, <1>1
<1>7. ASSUME NEW z \in Apart(C) PROVE \E x \in Apart(D) : g[x] = z
  <2>1. PICK k \in DOMAIN C : \E y \in C[k] : z = <<k, y>>
    BY ApartIs
  <2>2. PICK i \in 1 .. n[k] : b[k][i] = z[2]
    BY <2>1, <1>1
  <2>3. <<k, i>> \in Apart(D)
    BY <2>2, <1>2, ApartIs
  <2>4. g[<<k, i>>] = z
    BY <2>1, <2>2, <2>3
  <2> QED
    BY <2>3, <2>4
<1> HIDE DEF g
<1>8. IsFiniteSet(Apart(C)) /\ Cardinality(Apart(C)) = Cardinality(Apart(D))
  BY <1>3, <1>5, <1>6, <1>7, SameCount
<1> QED
  BY <1>3, <1>4, <1>8

-----------------------------------------------------------------------------
(* The statistics of a position. *)

LEMMA InsightConstants ==
  /\ MaxCommits \in Nat /\ "unconfigured" \in Preferences
  /\ Studied \subseteq Nat /\ None \notin Studied /\ None # "queued" /\ None # "running"
  /\ \A g \in DOMAIN Plays : \A v \in Plays[g] : v.line \in Seq(Studied) /\ v.line # << >>
  /\ \A t \in Endings : DOMAIN t \subseteq Studied
BY InsightHolds DEF Insight!PositionInsightAssumption, Insight!Games

\* The games are finitely many, and none is without a position.
Library ==
  /\ IsFiniteSet(DOMAIN played)
  /\ \A g \in DOMAIN played : played[g].line \in Seq(Studied) /\ played[g].line # << >>

Row(g, i) ==
  [game |-> g, ply |-> i - 1, move |-> Insight!Move(played[g].line, i), color |-> played[g].color]

Mine(p, c) == {r \in Insight!Rows(p) : r.color = c}

\* The rows of a position are its occurrences.
LEMMA RowsAre ==
  ASSUME Library, NEW p
  PROVE  \A r : r \in Insight!Rows(p) <=>
            \E g \in DOMAIN played : \E i \in 1 .. Len(played[g].line) : r = Row(g, i) /\ played[g].line[i] = p
<1> DEFINE All == UNION {{Row(g, i) : i \in DOMAIN played[g].line} : g \in DOMAIN played}
<1>1. \A g \in DOMAIN played : DOMAIN played[g].line = 1 .. Len(played[g].line)
  BY DEF Library
<1>2. \A r : r \in All <=> \E g \in DOMAIN played : \E i \in 1 .. Len(played[g].line) : r = Row(g, i)
  BY <1>1
<1>3. Insight!Rows(p) = {r \in All : played[r.game].line[r.ply + 1] = p}
  BY DEF Insight!Rows, Row
<1>4. ASSUME NEW g \in DOMAIN played, NEW i \in 1 .. Len(played[g].line)
      PROVE  Row(g, i).game = g /\ Row(g, i).ply + 1 = i
  <2>1. Len(played[g].line) \in Nat
    BY DEF Library
  <2> QED
    BY <2>1 DEF Row
<1> HIDE DEF All
<1> QED
  BY <1>2, <1>3, <1>4

LEMMA RowIs ==
  ASSUME Library, NEW p, NEW r \in Insight!Rows(p)
  PROVE  /\ r.game \in DOMAIN played /\ r.ply + 1 \in 1 .. Len(played[r.game].line)
         /\ r = Row(r.game, r.ply + 1) /\ played[r.game].line[r.ply + 1] = p
         /\ r.color = played[r.game].color
         /\ r.move = Insight!Move(played[r.game].line, r.ply + 1)
         /\ r.move \in Studied \cup {None}
<1>1. PICK g \in DOMAIN played : \E i \in 1 .. Len(played[g].line) : r = Row(g, i) /\ played[g].line[i] = p
  BY RowsAre
<1>2. PICK i \in 1 .. Len(played[g].line) : r = Row(g, i) /\ played[g].line[i] = p
  BY <1>1
<1>3. played[g].line \in Seq(Studied)
  BY DEF Library
<1>4. r.game = g /\ r.ply + 1 = i /\ r.color = played[g].color /\ r.move = Insight!Move(played[g].line, i)
  BY <1>2, <1>3 DEF Row
<1>5. Insight!Move(played[g].line, i) \in Studied \cup {None}
  BY <1>3 DEF Insight!Move
<1> QED
  BY <1>2, <1>4, <1>5

Plies == [g \in DOMAIN played |-> 1 .. Len(played[g].line)]

LEMMA PliesAreFinite ==
  ASSUME Library
  PROVE  IsFiniteSet(Apart(Plies))
<1>1. \A g \in DOMAIN Plies : IsFiniteSet(Plies[g])
  BY FS_Interval DEF Library, Plies
<1>2. DOMAIN Plies = DOMAIN played
  BY DEF Plies
<1> QED
  BY <1>1, <1>2, ApartIsFinite DEF Library

LEMMA RowsAreFinite ==
  ASSUME Library, NEW p
  PROVE  IsFiniteSet(Insight!Rows(p))
<1> DEFINE f == [r \in Insight!Rows(p) |-> <<r.game, r.ply + 1>>]
<1>1. f \in [Insight!Rows(p) -> Apart(Plies)]
  <2>1. \A r \in Insight!Rows(p) : <<r.game, r.ply + 1>> \in Apart(Plies)
    BY RowIs, ApartIs DEF Plies
  <2> QED
    BY <2>1
<1>2. ASSUME NEW r \in Insight!Rows(p), NEW t \in Insight!Rows(p), f[r] = f[t] PROVE r = t
  <2>1. r.game = t.game /\ r.ply + 1 = t.ply + 1
    BY <1>2
  <2> QED
    BY <2>1, RowIs
<1> HIDE DEF f
<1> QED
  BY <1>1, <1>2, PliesAreFinite, NotMore

\* What fits together in statistics, whatever the games are.
Fits(s) ==
  /\ s.experience.occurrences = s.outgoing.occurrences + s.terminal.occurrences
  /\ s.outgoing.occurrences = Cardinality(Insight!Pairs([m \in DOMAIN s.moves |-> s.moves[m].occurrences]))
  /\ s.experience.games =< s.total /\ s.outgoing.games =< s.experience.games
  /\ s.outgoing.games =< Cardinality(Insight!Pairs([m \in DOMAIN s.moves |-> s.moves[m].games]))
  /\ s.experience.games =< s.outgoing.games + s.terminal.games
  /\ s.experience.occurrences > 0 => s.observed

GamesOf(rows) == {r.game : r \in rows}

MovesOf(rows) == {r.move : r \in rows} \ {None}

With(rows, m) == {r \in rows : r.move = m}

Leaving(rows) == {r \in rows : r.move # None}

Counted(rows) == [m \in MovesOf(rows) |-> Insight!Counts(With(rows, m))]

\* The rows of each move, and their games.
ByMove(rows) == [m \in MovesOf(rows) |-> With(rows, m)]

GamesByMove(rows) == [m \in MovesOf(rows) |-> GamesOf(With(rows, m))]

LEMMA GamesAreFinite ==
  ASSUME NEW rows, IsFiniteSet(rows)
  PROVE  IsFiniteSet(GamesOf(rows)) /\ Cardinality(GamesOf(rows)) \in Nat
<1> DEFINE f == [r \in rows |-> r.game]
<1>1. f \in [rows -> GamesOf(rows)]
  BY DEF GamesOf
<1>2. \A g \in GamesOf(rows) : \E r \in rows : f[r] = g
  BY DEF GamesOf
<1> HIDE DEF f
<1>3. f \in Surjection(rows, GamesOf(rows))
  BY <1>1, <1>2 DEF Surjection
<1> QED
  BY <1>3, FS_Surjection, FS_CardinalityType

LEMMA MovesAreFinite ==
  ASSUME NEW rows, IsFiniteSet(rows)
  PROVE  IsFiniteSet(MovesOf(rows)) /\ IsFiniteSet(Leaving(rows))
<1> DEFINE f == [r \in Leaving(rows) |-> r.move]
<1>1. f \in [Leaving(rows) -> MovesOf(rows)]
  BY DEF Leaving, MovesOf
<1>2. \A m \in MovesOf(rows) : \E r \in Leaving(rows) : f[r] = m
  BY DEF Leaving, MovesOf
<1> HIDE DEF f
<1>3. f \in Surjection(Leaving(rows), MovesOf(rows))
  BY <1>1, <1>2 DEF Surjection
<1>4. IsFiniteSet(Leaving(rows))
  BY FS_Subset DEF Leaving
<1> QED
  BY <1>3, <1>4, FS_Surjection

LEMMA SizeIs == \A S : Insight!Cardinality(S) = Cardinality(S)
BY Zenon DEF Insight!Cardinality, Cardinality

LEMMA CountsAre ==
  ASSUME NEW rows
  PROVE  /\ Insight!Counts(rows).games = Cardinality(GamesOf(rows))
         /\ Insight!Counts(rows).occurrences = Cardinality(rows)
<1>1. GamesOf(rows) = {r.game : r \in rows}
  BY DEF GamesOf
<1>2. Insight!Counts(rows) = [games |-> Cardinality({r.game : r \in rows}), occurrences |-> Cardinality(rows)]
  BY Zenon, SizeIs DEF Insight!Counts
<1>3. Insight!Counts(rows) = [games |-> Cardinality(GamesOf(rows)), occurrences |-> Cardinality(rows)]
  BY Zenon, <1>1, <1>2
<1> QED
  BY <1>3

\* Rows counted in all, and move by move.
LEMMA CountsFit ==
  ASSUME NEW rows, IsFiniteSet(rows), NEW moves, moves = Counted(rows)
  PROVE  /\ Cardinality(Leaving(rows)) = Cardinality(Insight!Pairs([m \in DOMAIN moves |-> moves[m].occurrences]))
         /\ Cardinality(GamesOf(Leaving(rows))) <= Cardinality(Insight!Pairs([m \in DOMAIN moves |-> moves[m].games]))
         /\ IsFiniteSet(DOMAIN moves) /\ \A m \in DOMAIN moves : moves[m].games \in Nat
<1> DEFINE K == MovesOf(rows)
           C == ByMove(rows)
           D == GamesByMove(rows)
           out == Leaving(rows)
           n == [m \in DOMAIN moves |-> moves[m].occurrences]
           k == [m \in DOMAIN moves |-> moves[m].games]
<1>1. DOMAIN moves = K /\ DOMAIN C = K /\ DOMAIN D = K /\ DOMAIN n = K /\ DOMAIN k = K
  BY DEF Counted, ByMove, GamesByMove
<1>3. IsFiniteSet(K) /\ IsFiniteSet(out)
  BY MovesAreFinite
<1>4. ASSUME NEW m \in K
      PROVE  /\ C[m] = With(rows, m) /\ D[m] = GamesOf(With(rows, m))
             /\ n[m] = moves[m].occurrences /\ k[m] = moves[m].games
             /\ n[m] = Cardinality(C[m]) /\ k[m] = Cardinality(D[m])
             /\ IsFiniteSet(C[m]) /\ IsFiniteSet(D[m])
  <2>1. C[m] = With(rows, m) /\ D[m] = GamesOf(With(rows, m))
    BY DEF ByMove, GamesByMove
  <2>2. moves[m] = Insight!Counts(With(rows, m))
    BY DEF Counted
  <2>3. moves[m].occurrences = Cardinality(With(rows, m)) /\ moves[m].games = Cardinality(GamesOf(With(rows, m)))
    BY <2>2, CountsAre
  <2>4. n[m] = moves[m].occurrences /\ k[m] = moves[m].games
    BY <1>1
  <2>5. IsFiniteSet(With(rows, m))
    BY FS_Subset DEF With
  <2>6. IsFiniteSet(GamesOf(With(rows, m)))
    BY <2>5, GamesAreFinite
  <2> HIDE DEF C, D, n, k
  <2> QED
    BY <2>1, <2>3, <2>4, <2>5, <2>6
<1>7. n = [m \in DOMAIN moves |-> moves[m].occurrences] /\ k = [m \in DOMAIN moves |-> moves[m].games]
  OBVIOUS
<1>5. \A r \in out : r.move \in K /\ r \in C[r.move] /\ r.game \in D[r.move]
  BY DEF GamesOf, Leaving, MovesOf, ByMove, GamesByMove, With
<1>6. \A m \in K : \A r \in C[m] : r \in out /\ r.move = m
  BY DEF Leaving, MovesOf, ByMove, With
<1> HIDE DEF K, C, D, n, k, out
<1>8. /\ \A m \in K : n[m] = Cardinality(C[m]) /\ k[m] = Cardinality(D[m])
      /\ \A m \in K : IsFiniteSet(C[m]) /\ IsFiniteSet(D[m])
      /\ \A m \in K : k[m] = moves[m].games
  BY <1>4
<1>9. /\ Cardinality(Insight!Pairs(n)) = Cardinality(Apart(C)) /\ IsFiniteSet(Insight!Pairs(n))
      /\ Cardinality(Insight!Pairs(k)) = Cardinality(Apart(D)) /\ IsFiniteSet(Insight!Pairs(k))
  BY <1>1, <1>3, <1>8, ApartAreAll
<1>10. IsFiniteSet(Apart(D))
  BY <1>1, <1>3, <1>8, ApartIsFinite
<1>11. Cardinality(Apart(C)) = Cardinality(out)
  <2> DEFINE f == [r \in out |-> <<r.move, r>>]
  <2>1. f \in [out -> Apart(C)]
    BY <1>1, <1>5, ApartIs
  <2>2. \A r, t \in out : f[r] = f[t] => r = t
    OBVIOUS
  <2>3. \A z \in Apart(C) : \E r \in out : f[r] = z
    <3> TAKE z \in Apart(C)
    <3>1. PICK m \in K : \E r \in C[m] : z = <<m, r>>
      BY <1>1, ApartIs
    <3> QED
      BY <3>1, <1>6
  <2> HIDE DEF f
  <2> QED
    BY <1>3, <2>1, <2>2, <2>3, SameCount
<1>12. Cardinality(GamesOf(out)) <= Cardinality(Apart(D))
  <2> DEFINE w(g) == CHOOSE r \in out : r.game = g
             f == [g \in GamesOf(out) |-> <<w(g).move, g>>]
  <2>1. \A g \in GamesOf(out) : w(g) \in out /\ w(g).game = g
    BY DEF GamesOf
  <2> HIDE DEF w
  <2>2. f \in [GamesOf(out) -> Apart(D)]
    <3> SUFFICES ASSUME NEW g \in GamesOf(out) PROVE <<w(g).move, g>> \in Apart(D)
      OBVIOUS
    <3>1. w(g).move \in K /\ g \in D[w(g).move]
      BY <2>1, <1>5
    <3> QED
      BY <3>1, <1>1, ApartIs
  <2>3. \A g, h \in GamesOf(out) : f[g] = f[h] => g = h
    OBVIOUS
  <2> HIDE DEF f
  <2> QED
    BY <1>10, <2>2, <2>3, NotMore
<1>13. \A m \in DOMAIN moves : moves[m].games \in Nat
  BY <1>1, <1>8, FS_CardinalityType
<1> QED
  BY <1>1, <1>3, <1>7, <1>9, <1>11, <1>12, <1>13 DEF out

Ending(rows) == {r \in rows : r.move = None}

LEMMA StatisticsAre ==
  ASSUME NEW p, NEW c, NEW s, s = Insight!Statistics(p, c)
  PROVE  /\ s.observed = (Insight!Rows(p) # {})
         /\ s.total = Cardinality({g \in DOMAIN played : played[g].color = c})
         /\ s.experience = Insight!Counts(Mine(p, c))
         /\ s.outgoing = Insight!Counts(Leaving(Mine(p, c)))
         /\ s.terminal = Insight!Counts(Ending(Mine(p, c)))
         /\ s.moves = Counted(Mine(p, c))
<1> DEFINE M == Mine(p, c)
<1>1. M = {r \in Insight!Rows(p) : r.color = c}
  BY DEF Mine
<1>2. Leaving(M) = {r \in M : r.move # None} /\ Ending(M) = {r \in M : r.move = None}
  BY DEF Leaving, Ending
<1>3. Counted(M) = [m \in {r.move : r \in M} \ {None} |-> Insight!Counts({r \in M : r.move = m})]
  BY Zenon DEF Counted, MovesOf, With
<1> HIDE DEF M
<1>4. s = [observed |-> Insight!Rows(p) # {}, total |-> Cardinality({g \in DOMAIN played : played[g].color = c}),
           experience |-> Insight!Counts(M), outgoing |-> Insight!Counts({r \in M : r.move # None}),
           terminal |-> Insight!Counts({r \in M : r.move = None}),
           moves |-> [m \in {r.move : r \in M} \ {None} |-> Insight!Counts({r \in M : r.move = m})]]
  BY Zenon, <1>1, SizeIs DEF Insight!Statistics
<1>5. s = [observed |-> Insight!Rows(p) # {}, total |-> Cardinality({g \in DOMAIN played : played[g].color = c}),
           experience |-> Insight!Counts(M), outgoing |-> Insight!Counts(Leaving(M)),
           terminal |-> Insight!Counts(Ending(M)), moves |-> Counted(M)]
  BY Zenon, <1>2, <1>3, <1>4
<1>6. /\ s.observed = (Insight!Rows(p) # {})
      /\ s.total = Cardinality({g \in DOMAIN played : played[g].color = c})
      /\ s.experience = Insight!Counts(M)
      /\ s.outgoing = Insight!Counts(Leaving(M))
      /\ s.terminal = Insight!Counts(Ending(M))
      /\ s.moves = Counted(M)
  BY <1>5
<1> QED
  BY <1>6 DEF M

\* Whatever the games are, their statistics fit together.
LEMMA StatisticsFit ==
  ASSUME Library, NEW p, NEW c, NEW s, s = Insight!Statistics(p, c)
  PROVE  /\ Fits(s) /\ IsFiniteSet(DOMAIN s.moves) /\ DOMAIN s.moves \subseteq Studied
         /\ \A m \in DOMAIN s.moves : s.moves[m].games \in Nat
<1> DEFINE M == Mine(p, c)
           L == Leaving(M)
           E == Ending(M)
           T == {g \in DOMAIN played : played[g].color = c}
<1>1. IsFiniteSet(M) /\ IsFiniteSet(L) /\ IsFiniteSet(E) /\ IsFiniteSet(T)
  <2>1. IsFiniteSet(Insight!Rows(p))
    BY RowsAreFinite
  <2>2. M \in SUBSET Insight!Rows(p) /\ L \in SUBSET M /\ E \in SUBSET M /\ T \in SUBSET DOMAIN played
    BY DEF Mine, Leaving, Ending
  <2> HIDE DEF M, L, E, T
  <2>3. IsFiniteSet(M)
    BY <2>1, <2>2, FS_Subset
  <2>4. IsFiniteSet(L)
    BY <2>3, <2>2, FS_Subset
  <2>5. IsFiniteSet(E)
    BY <2>3, <2>2, FS_Subset
  <2> QED
    BY <2>2, <2>3, <2>4, <2>5, FS_Subset DEF Library
<1>2. L \cup E = M /\ L \cap E = {}
  BY DEF Leaving, Ending
<1>3. /\ GamesOf(M) = GamesOf(L) \cup GamesOf(E) /\ GamesOf(L) \in SUBSET GamesOf(M)
  BY DEF GamesOf, Leaving, Ending
<1>4. GamesOf(M) \in SUBSET T
  BY RowIs DEF GamesOf, Mine
<1>5. M # {} => Insight!Rows(p) # {}
  BY DEF Mine
<1>6. /\ s.observed = (Insight!Rows(p) # {})
      /\ s.total = Cardinality(T) /\ s.moves = Counted(M)
      /\ s.experience.games = Cardinality(GamesOf(M)) /\ s.experience.occurrences = Cardinality(M)
      /\ s.outgoing.games = Cardinality(GamesOf(L)) /\ s.outgoing.occurrences = Cardinality(L)
      /\ s.terminal.games = Cardinality(GamesOf(E)) /\ s.terminal.occurrences = Cardinality(E)
  <2>1. /\ s.observed = (Insight!Rows(p) # {})
        /\ s.total = Cardinality(T)
        /\ s.experience = Insight!Counts(M) /\ s.outgoing = Insight!Counts(L) /\ s.terminal = Insight!Counts(E)
        /\ s.moves = Counted(M)
    BY StatisticsAre
  <2> HIDE DEF M, L, E, T
  <2> QED
    BY <2>1, CountsAre
<1>7. \A m \in DOMAIN s.moves : m \in Studied
  <2>1. ASSUME NEW m \in MovesOf(M) PROVE m \in Studied
    BY <2>1, RowIs DEF MovesOf, Mine
  <2>2. DOMAIN s.moves = MovesOf(M)
    BY <1>6 DEF Counted
  <2> QED
    BY <2>1, <2>2
<1> HIDE DEF M, T
<1>8. /\ Cardinality(L) = Cardinality(Insight!Pairs([m \in DOMAIN s.moves |-> s.moves[m].occurrences]))
      /\ Cardinality(GamesOf(L)) <= Cardinality(Insight!Pairs([m \in DOMAIN s.moves |-> s.moves[m].games]))
      /\ IsFiniteSet(DOMAIN s.moves) /\ \A m \in DOMAIN s.moves : s.moves[m].games \in Nat
  BY <1>1, <1>6, CountsFit
<1> HIDE DEF L, E
<1>9. /\ IsFiniteSet(GamesOf(M)) /\ IsFiniteSet(GamesOf(L)) /\ IsFiniteSet(GamesOf(E))
      /\ Cardinality(GamesOf(M)) \in Nat /\ Cardinality(GamesOf(L)) \in Nat /\ Cardinality(GamesOf(E)) \in Nat
  BY <1>1, GamesAreFinite
<1>10. Cardinality(M) = Cardinality(L) + Cardinality(E)
  <2>1. Cardinality(L \cup E) = Cardinality(L) + Cardinality(E) - Cardinality(L \cap E)
    BY <1>1, FS_Union
  <2>2. Cardinality(L \cap E) = 0 /\ Cardinality(L \cup E) = Cardinality(M)
    BY <1>2, FS_EmptySet
  <2>3. Cardinality(L) \in Nat /\ Cardinality(E) \in Nat
    BY <1>1, FS_CardinalityType
  <2> QED
    BY <2>1, <2>2, <2>3
<1>11. Cardinality(GamesOf(M)) <= Cardinality(T) /\ Cardinality(GamesOf(L)) <= Cardinality(GamesOf(M))
  BY <1>1, <1>3, <1>4, <1>9, FS_Subset
<1>12. Cardinality(GamesOf(M)) <= Cardinality(GamesOf(L)) + Cardinality(GamesOf(E))
  <2>1. /\ IsFiniteSet(GamesOf(L) \cap GamesOf(E))
        /\ Cardinality(GamesOf(L) \cup GamesOf(E))
             = Cardinality(GamesOf(L)) + Cardinality(GamesOf(E)) - Cardinality(GamesOf(L) \cap GamesOf(E))
    BY <1>9, FS_Union, FS_Intersection
  <2>2. Cardinality(GamesOf(L) \cap GamesOf(E)) \in Nat
    BY <2>1, FS_CardinalityType
  <2>3. Cardinality(GamesOf(M)) = Cardinality(GamesOf(L) \cup GamesOf(E))
    BY <1>3
  <2> QED
    BY <2>1, <2>2, <2>3, <1>9
<1>13. Cardinality(M) > 0 => s.observed
  <2>1. Cardinality(M) > 0 => M # {}
    BY FS_EmptySet
  <2>2. s.observed = (Insight!Rows(p) # {})
    BY <1>6
  <2> QED
    BY Zenon, <2>1, <2>2, <1>5
<1> QED
  BY <1>6, <1>7, <1>8, <1>10, <1>11, <1>12, <1>13 DEF Fits

\* Of the games in a table, those of one colour, and the plies of a game at a position.
GamesFor(all, c) == {g \in DOMAIN all : all[g].color = c}

PliesAt(all, p, g) == {i \in DOMAIN all[g].line : all[g].line[i] = p}

\* What statistics say of the games in a table.
Told(s, p, c, all) ==
  /\ s.total = Cardinality(GamesFor(all, c))
  /\ s.experience = [games |-> Cardinality({g \in GamesFor(all, c) : \E i \in DOMAIN all[g].line : all[g].line[i] = p}),
                     occurrences |-> Cardinality(UNION {{<<g, i>> : i \in PliesAt(all, p, g)} : g \in GamesFor(all, c)})]
  /\ s.terminal.games = Cardinality({g \in GamesFor(all, c) : all[g].line[Len(all[g].line)] = p})
  /\ s.observed = (\E g \in DOMAIN all : \E i \in DOMAIN all[g].line : all[g].line[i] = p)
  /\ \A m \in Studied : (m \in DOMAIN s.moves) =
       (\E g \in GamesFor(all, c) : \E i \in PliesAt(all, p, g) : i < Len(all[g].line) /\ all[g].line[i + 1] = m)

LEMMA StatisticsTold ==
  ASSUME Library, NEW p, NEW c, NEW s, s = Insight!Statistics(p, c)
  PROVE  Told(s, p, c, played)
<1> DEFINE M == Mine(p, c)
           with == {g \in GamesFor(played, c) : \E i \in DOMAIN played[g].line : played[g].line[i] = p}
           last == {g \in GamesFor(played, c) : played[g].line[Len(played[g].line)] = p}
           places == UNION {{<<g, i>> : i \in PliesAt(played, p, g)} : g \in GamesFor(played, c)}
<1>1. \A g \in DOMAIN played : /\ played[g].line \in Seq(Studied) /\ Len(played[g].line) \in Nat \ {0}
                               /\ DOMAIN played[g].line = 1 .. Len(played[g].line)
  BY DEF Library
<1>2. \A g \in DOMAIN played : \A i \in 1 .. Len(played[g].line) :
         /\ Row(g, i).game = g /\ Row(g, i).ply + 1 = i /\ Row(g, i).color = played[g].color
         /\ Row(g, i).move = Insight!Move(played[g].line, i)
  BY <1>1 DEF Row
<1>3. ASSUME NEW g \in GamesFor(played, c), NEW i \in PliesAt(played, p, g)
      PROVE  Row(g, i) \in M /\ Row(g, i).game = g /\ Row(g, i).ply + 1 = i /\ Row(g, i).move = Insight!Move(played[g].line, i)
  <2>1. g \in DOMAIN played /\ i \in 1 .. Len(played[g].line) /\ played[g].line[i] = p /\ played[g].color = c
    BY <1>1 DEF GamesFor, PliesAt
  <2>2. Row(g, i) \in Insight!Rows(p)
    BY <2>1, RowsAre
  <2> QED
    BY <2>1, <2>2, <1>2 DEF Mine
<1>4. ASSUME NEW r \in M
      PROVE  /\ r.game \in GamesFor(played, c) /\ r.ply + 1 \in PliesAt(played, p, r.game) /\ r = Row(r.game, r.ply + 1)
             /\ r.move = Insight!Move(played[r.game].line, r.ply + 1)
  <2>1. r \in Insight!Rows(p) /\ r.color = c
    BY DEF Mine
  <2> QED
    BY <2>1, <1>1, RowIs DEF GamesFor, PliesAt
<1>5. \A g \in DOMAIN played : \A i \in 1 .. Len(played[g].line) :
         /\ i < Len(played[g].line) => Insight!Move(played[g].line, i) = played[g].line[i + 1] /\ played[g].line[i + 1] \in Studied
         /\ (Insight!Move(played[g].line, i) = None) <=> (i = Len(played[g].line))
  <2> TAKE g \in DOMAIN played
  <2> TAKE i \in 1 .. Len(played[g].line)
  <2>1. i < Len(played[g].line) => played[g].line[i + 1] \in Studied
    BY <1>1
  <2>2. None \notin Studied
    BY InsightConstants
  <2> QED
    BY <1>1, <2>1, <2>2 DEF Insight!Move
<1>6. \A g \in GamesFor(played, c) : g \in DOMAIN played /\ \A i \in PliesAt(played, p, g) : i \in 1 .. Len(played[g].line) /\ played[g].line[i] = p
  BY <1>1 DEF GamesFor, PliesAt
<1> HIDE DEF M
<1>7. GamesOf(M) = with
  <2>1. \A g \in GamesOf(M) : g \in with
    BY <1>4 DEF GamesOf, PliesAt
  <2>2. \A g \in with : g \in GamesOf(M)
    BY <1>3 DEF GamesOf, PliesAt
  <2> QED
    BY <2>1, <2>2
<1>8. GamesOf(Ending(M)) = last
  <2>1. ASSUME NEW g \in GamesOf(Ending(M)) PROVE g \in last
    <3>1. PICK r \in M : r.move = None /\ r.game = g
      BY DEF GamesOf, Ending
    <3> QED
      BY <3>1, <1>4, <1>5, <1>6
  <2>2. ASSUME NEW g \in last PROVE g \in GamesOf(Ending(M))
    <3>1. g \in GamesFor(played, c) /\ Len(played[g].line) \in PliesAt(played, p, g)
      BY <1>1 DEF GamesFor, PliesAt
    <3>2. Row(g, Len(played[g].line)) \in M /\ Row(g, Len(played[g].line)).game = g
          /\ Row(g, Len(played[g].line)).move = None
      BY <3>1, <1>3, <1>5, <1>6
    <3> QED
      BY <3>2 DEF GamesOf, Ending
  <2> QED
    BY <2>1, <2>2
<1>9. Cardinality(places) = Cardinality(M)
  <2> DEFINE f == [r \in M |-> <<r.game, r.ply + 1>>]
  <2>1. IsFiniteSet(M)
    <3>1. M \in SUBSET Insight!Rows(p)
      BY DEF M, Mine
    <3> QED
      BY <3>1, RowsAreFinite, FS_Subset
  <2>2. f \in [M -> places]
    <3> SUFFICES ASSUME NEW r \in M PROVE <<r.game, r.ply + 1>> \in places
      OBVIOUS
    <3> QED
      BY <1>4
  <2>3. ASSUME NEW r \in M, NEW t \in M, f[r] = f[t] PROVE r = t
    <3>1. r.game = t.game /\ r.ply + 1 = t.ply + 1
      BY <2>3
    <3>2. r = Row(r.game, r.ply + 1) /\ t = Row(t.game, t.ply + 1)
      BY <1>4
    <3> QED
      BY Zenon, <3>1, <3>2
  <2>4. ASSUME NEW z \in places PROVE \E r \in M : f[r] = z
    <3>1. PICK g \in GamesFor(played, c) : \E i \in PliesAt(played, p, g) : z = <<g, i>>
      OBVIOUS
    <3>2. PICK i \in PliesAt(played, p, g) : z = <<g, i>>
      BY <3>1
    <3> QED
      BY <3>2, <1>3
  <2> HIDE DEF f, places
  <2> QED
    BY <2>1, <2>2, <2>3, <2>4, SameCount
<1>10. ASSUME NEW m \in Studied
       PROVE  (m \in DOMAIN s.moves) <=>
                (\E g \in GamesFor(played, c) : \E i \in PliesAt(played, p, g) : i < Len(played[g].line) /\ played[g].line[i + 1] = m)
  <2>1. DOMAIN s.moves = MovesOf(M)
    <3>1. s.moves = Counted(M)
      BY StatisticsAre DEF M
    <3>2. DOMAIN Counted(M) = MovesOf(M)
      BY DEF Counted
    <3> QED
      BY <3>1, <3>2
  <2>2. m # None
    BY InsightConstants
  <2>3. ASSUME m \in MovesOf(M)
        PROVE  \E g \in GamesFor(played, c) : \E i \in PliesAt(played, p, g) : i < Len(played[g].line) /\ played[g].line[i + 1] = m
    <3>1. PICK r \in M : r.move = m
      BY <2>3 DEF MovesOf
    <3>2. /\ r.game \in GamesFor(played, c) /\ r.ply + 1 \in PliesAt(played, p, r.game)
          /\ Insight!Move(played[r.game].line, r.ply + 1) = m
      BY <3>1, <1>4
    <3>3. r.game \in DOMAIN played /\ r.ply + 1 \in 1 .. Len(played[r.game].line) /\ Len(played[r.game].line) \in Nat
      BY <3>2, <1>1, <1>6
    <3>4. r.ply + 1 # Len(played[r.game].line)
      BY <3>2, <3>3, <1>5, <2>2
    <3>5. r.ply + 1 < Len(played[r.game].line)
      BY <3>3, <3>4
    <3>6. played[r.game].line[(r.ply + 1) + 1] = m
      BY <3>2, <3>3, <3>5, <1>5
    <3> QED
      BY <3>2, <3>5, <3>6
  <2>4. ASSUME NEW g \in GamesFor(played, c), NEW i \in PliesAt(played, p, g), i < Len(played[g].line), played[g].line[i + 1] = m
        PROVE  m \in MovesOf(M)
    <3>1. Row(g, i) \in M /\ Row(g, i).move = m
      BY <2>4, <1>3, <1>5, <1>6
    <3> QED
      BY <3>1, <2>2 DEF MovesOf
  <2> QED
    BY <2>1, <2>3, <2>4
<1>11. (Insight!Rows(p) # {}) <=> (\E g \in DOMAIN played : \E i \in DOMAIN played[g].line : played[g].line[i] = p)
  BY <1>1, RowsAre
<1> HIDE DEF with, last, places
<1>12. s.total = Cardinality(GamesFor(played, c))
  BY StatisticsAre DEF GamesFor
<1>13. s.experience = [games |-> Cardinality(with), occurrences |-> Cardinality(places)]
  <2>1. s.experience = Insight!Counts(M)
    BY StatisticsAre DEF M
  <2>2. Insight!Counts(M) = [games |-> Cardinality(GamesOf(M)), occurrences |-> Cardinality(M)]
    <3>1. GamesOf(M) = {r.game : r \in M}
      BY DEF GamesOf
    <3> QED
      BY Zenon, <3>1, SizeIs DEF Insight!Counts
  <2> QED
    BY <2>1, <2>2, <1>7, <1>9
<1>14. s.terminal.games = Cardinality(last)
  <2>1. s.terminal = Insight!Counts(Ending(M))
    BY StatisticsAre DEF M
  <2> QED
    BY <2>1, <1>8, CountsAre
<1>15. s.observed = (\E g \in DOMAIN played : \E i \in DOMAIN played[g].line : played[g].line[i] = p)
  <2>1. s.observed = (Insight!Rows(p) # {})
    BY StatisticsAre
  <2> QED
    BY Zenon, <2>1, <1>11
<1>16. \A m \in Studied : (m \in DOMAIN s.moves) =
         (\E g \in GamesFor(played, c) : \E i \in PliesAt(played, p, g) : i < Len(played[g].line) /\ played[g].line[i + 1] = m)
  <2> TAKE m \in Studied
  <2> DEFINE left == m \in DOMAIN s.moves
             told == \E g \in GamesFor(played, c) : \E i \in PliesAt(played, p, g) : i < Len(played[g].line) /\ played[g].line[i + 1] = m
  <2>1. left <=> told
    BY <1>10
  <2>2. left \in BOOLEAN /\ told \in BOOLEAN
    OBVIOUS
  <2> HIDE DEF left, told
  <2>3. left = told
    BY <2>1, <2>2
  <2> QED
    BY <2>3 DEF left, told
<1> QED
  BY <1>12, <1>13, <1>14, <1>15, <1>16 DEF Told, with, last, places

\* The moves are listed with those of more games first.
Descends(moves, o) == \A i \in 1 .. Len(o) - 1 : moves[o[i]].games >= moves[o[i + 1]].games

LEMMA SeqsAre == \A S : Insight!SetToSeqs(S) = SetToSeqs(S)
BY Zenon, SizeIs DEF Insight!SetToSeqs, SetToSeqs

LEMMA MembersAre == \A s : Insight!ToSet(s) = {s[i] : i \in DOMAIN s}
BY DEF Insight!ToSet

LEMMA MoveOrderIs ==
  ASSUME NEW moves, IsFiniteSet(DOMAIN moves), DOMAIN moves \subseteq Studied,
         \A m \in DOMAIN moves : moves[m].games \in Nat
  PROVE  /\ {Insight!MoveOrder(moves)[i] : i \in DOMAIN Insight!MoveOrder(moves)} = DOMAIN moves
         /\ Descends(moves, Insight!MoveOrder(moves))
<1> DEFINE S == DOMAIN moves
           R == {x \in S \X S : Insight!MoveBefore(moves, x[1], x[2])}
           o == Insight!MoveOrder(moves)
           Ordered(s) == \A i, j \in DOMAIN s : i < j => Insight!MoveBefore(moves, s[i], s[j])
<1>1. \A x, y \in S : <<x, y>> \in R <=> Insight!MoveBefore(moves, x, y)
  OBVIOUS
<1>2. \A x \in S : x \in Nat /\ moves[x].games \in Nat
  BY InsightConstants
<1>3. \A x, y \in S : Insight!MoveBefore(moves, x, y) <=>
        (moves[x].games > moves[y].games \/ (moves[x].games = moves[y].games /\ x < y))
  BY DEF Insight!MoveBefore
<1> HIDE DEF R
<1>4. Orders(R, S)
  <2> HIDE DEF S
  <2> QED
    BY <1>1, <1>2, <1>3 DEF Orders
<1>5. PICK s \in [1 .. Cardinality(S) -> S] :
         \A i, j \in 1 .. Cardinality(S) : i < j => <<s[i], s[j]>> \in R
  BY <1>4, OrderExists
<1>6. s \in SetToSeqs(S) /\ s \in Seq(S) /\ Len(s) = Cardinality(S)
  BY <1>4, <1>5, OrderedIs
<1>7. Ordered(s)
  <2> SUFFICES ASSUME NEW i \in DOMAIN s, NEW j \in DOMAIN s, i < j
               PROVE  Insight!MoveBefore(moves, s[i], s[j])
    OBVIOUS
  <2>1. s[i] \in S /\ s[j] \in S /\ <<s[i], s[j]>> \in R
    BY <1>5
  <2> QED
    BY <2>1, <1>1
<1>8. o \in SetToSeqs(S) /\ Ordered(o)
  <2>1. o = CHOOSE t \in SetToSeqs(S) : Ordered(t)
    BY Zenon, SeqsAre DEF Insight!MoveOrder
  <2> HIDE DEF o, Ordered
  <2> QED
    BY <2>1, <1>6, <1>7
<1>9. o \in Seq(S) /\ \A x \in S : \E i \in 1 .. Len(o) : o[i] = x
  <2> HIDE DEF o
  <2> QED
    BY <1>8, SeqsCover
<1> HIDE DEF o
<1>10. ASSUME NEW i \in 1 .. Len(o) - 1 PROVE moves[o[i]].games >= moves[o[i + 1]].games
  <2>1. i \in DOMAIN o /\ i + 1 \in DOMAIN o /\ i < i + 1 /\ o[i] \in S /\ o[i + 1] \in S
    BY <1>9
  <2>2. Insight!MoveBefore(moves, o[i], o[i + 1])
    BY <2>1, <1>8
  <2> QED
    BY <2>1, <2>2, <1>2, <1>3
<1>11. {o[i] : i \in DOMAIN o} = S
  <2>1. DOMAIN o = 1 .. Len(o) /\ \A i \in 1 .. Len(o) : o[i] \in S
    BY <1>9
  <2> HIDE DEF S
  <2> QED
    BY <1>9, <2>1
<1> QED
  BY <1>10, <1>11 DEF Descends, o

-----------------------------------------------------------------------------
(* The invariant of an insight. *)

After == {"queue", "preference", "opening", "result"}

\* Games, positions and requests are what they should be; no preference is of a position that is not stored.
InsightTypes ==
  /\ Insight!TypeOK /\ IsFiniteSet(DOMAIN played)
  /\ \A p \in Studied \ kept : preference[p] = "unconfigured"

\* What has been read so far fits together, and rest that can be seen has been seen.
ReadingFits ==
  /\ reading.next # "idle" => reading.position \in Studied /\ (Insight!Resting(reading.position) => rested)
  /\ reading.next = "sparse" => rested
  /\ reading.next \in After =>
       Fits(reading.statistics) /\ {reading.moves[i] : i \in DOMAIN reading.moves} = DOMAIN reading.statistics.moves
  /\ reading.next \in After \ {"queue"} =>
       /\ reading.queue \in {None, "queued", "running"}
       /\ reading.queue = None => rested \/ reading.position \in analysed

\* While nothing is written, what has been read is still so.
ReadingTrue ==
  begun = commits =>
    /\ reading.next = "sparse" => reading.position \notin kept
    /\ reading.next \in After =>
         /\ Told(reading.statistics, reading.position, reading.color, played)
         /\ Descends(reading.statistics.moves, reading.moves)
    /\ reading.next \in {"opening", "result"} => reading.preference = preference[reading.position]
    /\ reading.next = "result" =>
         reading.opening = IF reading.position \in DOMAIN endings THEN endings[reading.position] ELSE None

\* The same of the last answer.
InsightFits ==
  insight # None =>
    /\ Fits(insight.statistics) /\ {insight.moves[i] : i \in DOMAIN insight.moves} = DOMAIN insight.statistics.moves
    /\ insight.state = "not_requested" => rested

InsightTrue ==
  insight # None /\ begun = commits =>
    /\ Told(insight.statistics, insight.position, insight.color, played)
    /\ Descends(insight.statistics.moves, insight.moves)
    /\ insight.preference = preference[insight.position]
    /\ insight.opening = IF insight.position \in DOMAIN endings THEN endings[insight.position] ELSE None

\* The request has its eight fields.
IsReading ==
  reading = [next |-> reading.next, position |-> reading.position, color |-> reading.color,
             statistics |-> reading.statistics, moves |-> reading.moves, queue |-> reading.queue,
             preference |-> reading.preference, opening |-> reading.opening]

InsightInv == InsightTypes /\ IsReading /\ ReadingFits /\ ReadingTrue /\ InsightFits /\ InsightTrue

LEMMA LibraryHolds ==
  ASSUME InsightTypes
  PROVE  Library
<1>1. \A g \in DOMAIN played : g \in DOMAIN Plays /\ played[g] \in Plays[g]
  BY DEF InsightTypes, Insight!TypeOK, Insight!Games
<1> QED
  BY <1>1, InsightConstants DEF InsightTypes, Library

\* The lines of the games run through positions that are stored.
LEMMA LinesAreStored ==
  ASSUME InsightTypes, NEW g \in DOMAIN played, NEW i \in DOMAIN played[g].line
  PROVE  played[g].line[i] \in kept
<1>1. Insight!ToSet(played[g].line) \subseteq kept
  BY DEF InsightTypes, Insight!TypeOK
<1> QED
  BY <1>1, MembersAre

\* An answer that the invariant speaks for is honest.
LEMMA InsightInvIsHonest ==
  ASSUME InsightInv
  PROVE  Insight!Honest
<1>1. Insight!TypeOK
  BY DEF InsightInv, InsightTypes
<1>2. Insight!StatisticsAgree
  <2> SUFFICES ASSUME insight # None PROVE Insight!StatisticsAgree
    BY DEF Insight!StatisticsAgree, Insight!Answered
  <2> DEFINE s == insight.statistics
             a == [m \in DOMAIN s.moves |-> s.moves[m].occurrences]
             b == [m \in DOMAIN s.moves |-> s.moves[m].games]
  <2>1. /\ Fits(s) /\ {insight.moves[i] : i \in DOMAIN insight.moves} = DOMAIN s.moves
    BY DEF InsightInv, InsightFits
  <2>2. /\ s.experience.occurrences = s.outgoing.occurrences + s.terminal.occurrences
        /\ s.outgoing.occurrences = Insight!Cardinality(Insight!Pairs(a))
        /\ s.experience.games =< s.total /\ s.outgoing.games =< s.experience.games
        /\ s.outgoing.games =< Insight!Cardinality(Insight!Pairs(b))
        /\ s.experience.games =< s.outgoing.games + s.terminal.games
        /\ s.experience.occurrences > 0 => s.observed
        /\ Insight!ToSet(insight.moves) = DOMAIN s.moves
    <3> HIDE DEF s
    <3> QED
      BY <2>1, SizeIs, MembersAre DEF Fits
  <2> QED
    BY <2>2 DEF Insight!StatisticsAgree
<1>3. Insight!UndisturbedIsExact
  <2> SUFFICES ASSUME insight # None, begun = commits PROVE Insight!UndisturbedIsExact
    BY DEF Insight!UndisturbedIsExact, Insight!Answered
  <2> DEFINE s == insight.statistics
             p == insight.position
             c == insight.color
  <2>1. /\ Told(s, p, c, played) /\ Descends(s.moves, insight.moves)
        /\ insight.preference = preference[p]
        /\ insight.opening = IF p \in DOMAIN endings THEN endings[p] ELSE None
    BY DEF InsightInv, InsightTrue
  <2>2. \A g \in DOMAIN played : p \in Insight!ToSet(played[g].line) <=> \E i \in DOMAIN played[g].line : played[g].line[i] = p
    BY MembersAre
  <2> QED
    BY <2>1, <2>2, SizeIs DEF Told, GamesFor, PliesAt, Descends, Insight!UndisturbedIsExact
<1>4. Insight!NotRequestedWasTrue
  BY DEF InsightInv, InsightFits, Insight!NotRequestedWasTrue, Insight!Answered
<1> QED
  BY <1>1, <1>2, <1>3, <1>4 DEF Insight!Honest

LEMMA InsightBegins ==
  ASSUME Insight!Init
  PROVE  InsightInv
<1>1. /\ played = << >> /\ analysed = {} /\ requests = << >> /\ endings \in Endings /\ kept = DOMAIN endings
      /\ preference = [p \in Studied |-> "unconfigured"] /\ reading = Insight!Idle /\ insight = None
      /\ begun = 0 /\ rested = FALSE /\ commits = 0
  BY DEF Insight!Init
<1>2. reading.next = "idle"
  BY <1>1 DEF Insight!Idle
<1>3. DOMAIN played = {} /\ DOMAIN requests = {}
  BY <1>1
<1>4. kept \subseteq Studied
  BY <1>1, InsightConstants
<1>5. preference \in [Studied -> Preferences]
  BY <1>1, InsightConstants
<1>6. Insight!TypeOK
  <2>1. endings \in Endings /\ DOMAIN endings \subseteq kept /\ analysed \subseteq kept
    <3>1. endings \in Endings /\ kept = DOMAIN endings /\ analysed = {}
      BY <1>1
    <3> QED
      BY Zenon, <3>1
  <2>2. begun \in 0 .. commits /\ commits \in 0 .. MaxCommits /\ rested \in BOOLEAN
    <3>1. begun = 0 /\ commits = 0 /\ rested = FALSE
      BY <1>1
    <3>2. MaxCommits \in Nat
      BY InsightConstants
    <3>3. begun \in 0 .. commits /\ commits \in 0 .. MaxCommits
      BY <3>1, <3>2
    <3>4. rested \in BOOLEAN
      BY Zenon, <3>1
    <3> QED
      BY <3>3, <3>4
  <2> QED
    BY <1>2, <1>3, <1>4, <1>5, <2>1, <2>2 DEF Insight!TypeOK
<1>7. IsFiniteSet(DOMAIN played)
  BY <1>3, FS_EmptySet
<1>8. \A p \in Studied \ kept : preference[p] = "unconfigured"
  BY <1>1
<1>9. IsReading
  BY <1>1 DEF Insight!Idle, IsReading
<1> QED
  BY <1>1, <1>2, <1>6, <1>7, <1>8, <1>9 DEF InsightInv, InsightTypes, ReadingFits, ReadingTrue, InsightFits, InsightTrue, After

-----------------------------------------------------------------------------
(* The writers. *)

\* A commit makes what has been read doubtful, and takes no rest back.
LEMMA CommitKeeps ==
  ASSUME InsightInv, Insight!Commit, analysed \subseteq analysed'
  PROVE  /\ IsReading' /\ ReadingFits' /\ ReadingTrue' /\ InsightFits' /\ InsightTrue'
         /\ begun' \in 0 .. commits' /\ commits' \in 0 .. MaxCommits /\ rested' \in BOOLEAN
         /\ reading'.next \in {"idle", "position", "statistics", "sparse", "queue", "preference", "opening", "result"}
<1>1. /\ commits < MaxCommits /\ commits' = commits + 1
      /\ reading' = reading /\ insight' = insight /\ begun' = begun
      /\ rested' = (rested \/ (reading.next # "idle" /\ Insight!Resting(reading.position)'))
  BY DEF Insight!Commit
<1>2. /\ begun \in 0 .. commits /\ commits \in 0 .. MaxCommits /\ rested \in BOOLEAN /\ MaxCommits \in Nat
      /\ reading.next \in {"idle", "position", "statistics", "sparse", "queue", "preference", "opening", "result"}
  BY InsightConstants DEF InsightInv, InsightTypes, Insight!TypeOK
<1>3. /\ begun' \in 0 .. commits' /\ commits' \in 0 .. MaxCommits /\ rested' \in BOOLEAN /\ begun' # commits'
  BY <1>1, <1>2
<1>4. rested => rested'
  BY <1>1
<1>5. ReadingTrue' /\ InsightTrue'
  BY <1>3 DEF ReadingTrue, InsightTrue
<1>6. InsightFits'
  BY <1>1, <1>4 DEF InsightInv, InsightFits
<1>7. reading.next # "idle" => (Insight!Resting(reading.position)' => rested')
  BY <1>1
<1>8. ReadingFits'
  <2>1. /\ reading.next # "idle" => reading.position \in Studied
        /\ reading.next = "sparse" => rested
        /\ reading.next \in After =>
             Fits(reading.statistics) /\ {reading.moves[i] : i \in DOMAIN reading.moves} = DOMAIN reading.statistics.moves
        /\ reading.next \in After \ {"queue"} =>
             /\ reading.queue \in {None, "queued", "running"}
             /\ reading.queue = None => rested \/ reading.position \in analysed
    BY DEF InsightInv, ReadingFits
  <2>2. reading.next # "idle" => (Insight!Resting(reading.position) => rested)'
    BY <1>7
  <2> QED
    BY <1>1, <1>4, <2>1, <2>2 DEF ReadingFits
<1>9. IsReading'
  BY <1>1 DEF InsightInv, IsReading
<1> QED
  BY <1>1, <1>2, <1>3, <1>5, <1>6, <1>8, <1>9

LEMMA ImportKeeps ==
  ASSUME InsightInv, NEW g \in DOMAIN Plays, NEW v \in Plays[g], Insight!Import(g, v)
  PROVE  InsightInv'
<1>1. /\ played' = [x \in DOMAIN played \cup {g} |-> IF x = g THEN v ELSE played[x]]
      /\ kept' = kept \cup Insight!ToSet(v.line)
      /\ endings' = endings /\ requests' = requests /\ analysed' = analysed /\ preference' = preference
      /\ Insight!Commit
  BY DEF Insight!Import
<1>2. /\ IsReading' /\ ReadingFits' /\ ReadingTrue' /\ InsightFits' /\ InsightTrue'
      /\ begun' \in 0 .. commits' /\ commits' \in 0 .. MaxCommits /\ rested' \in BOOLEAN
      /\ reading'.next \in {"idle", "position", "statistics", "sparse", "queue", "preference", "opening", "result"}
  BY <1>1, CommitKeeps
<1>3. Insight!TypeOK
  BY DEF InsightInv, InsightTypes
<1>4. Insight!ToSet(v.line) \subseteq Studied
  <2>1. v.line \in Seq(Studied)
    BY InsightConstants
  <2> QED
    BY <2>1, MembersAre
<1>5. DOMAIN played' = DOMAIN played \cup {g} /\ \A x \in DOMAIN played' : played'[x] = IF x = g THEN v ELSE played[x]
  BY <1>1
<1>6. DOMAIN played' \subseteq DOMAIN Plays
      /\ \A x \in DOMAIN played' : played'[x] \in Plays[x] /\ Insight!ToSet(played'[x].line) \subseteq kept'
  BY <1>1, <1>3, <1>5 DEF Insight!TypeOK, Insight!Games
<1>7. Insight!TypeOK'
  BY <1>1, <1>2, <1>3, <1>4, <1>6 DEF Insight!TypeOK, Insight!Games, Insight!ToSet
<1>8. IsFiniteSet(DOMAIN played')
  BY <1>5, FS_AddElement DEF InsightInv, InsightTypes
<1>9. \A p \in Studied \ kept' : preference'[p] = "unconfigured"
  BY <1>1 DEF InsightInv, InsightTypes
<1> QED
  BY <1>2, <1>7, <1>8, <1>9 DEF InsightInv, InsightTypes

\* A transaction that leaves the games alone.
LEMMA OthersKeep ==
  ASSUME InsightInv, Insight!Commit, played' = played, kept \subseteq kept', kept' \subseteq Studied,
         endings' \in Endings, DOMAIN endings' \subseteq kept',
         DOMAIN requests' \subseteq kept', \A p \in DOMAIN requests' : requests'[p] \in {"queued", "running"},
         analysed \subseteq analysed', analysed' \subseteq kept', preference' \in [Studied -> Preferences],
         \A p \in Studied \ kept' : preference'[p] = "unconfigured"
  PROVE  InsightInv'
<1>1. /\ IsReading' /\ ReadingFits' /\ ReadingTrue' /\ InsightFits' /\ InsightTrue'
      /\ begun' \in 0 .. commits' /\ commits' \in 0 .. MaxCommits /\ rested' \in BOOLEAN
      /\ reading'.next \in {"idle", "position", "statistics", "sparse", "queue", "preference", "opening", "result"}
  BY CommitKeeps
<1>2. Insight!TypeOK /\ IsFiniteSet(DOMAIN played)
  BY DEF InsightInv, InsightTypes
<1>3. Insight!TypeOK'
  BY <1>1, <1>2 DEF Insight!TypeOK, Insight!Games, Insight!ToSet
<1>4. IsFiniteSet(DOMAIN played')
  BY <1>2
<1> QED
  BY <1>1, <1>3, <1>4 DEF InsightInv, InsightTypes

LEMMA WritersKeep ==
  ASSUME InsightInv, Insight!Write
  PROVE  InsightInv'
<1>0. /\ kept \subseteq Studied /\ endings \in Endings /\ DOMAIN endings \subseteq kept
      /\ DOMAIN requests \subseteq kept /\ \A p \in DOMAIN requests : requests[p] \in {"queued", "running"}
      /\ analysed \subseteq kept /\ preference \in [Studied -> Preferences]
      /\ \A p \in Studied \ kept : preference[p] = "unconfigured"
  BY DEF InsightInv, InsightTypes, Insight!TypeOK
<1>1. CASE \E g \in Insight!Games : \E v \in Plays[g] : Insight!Import(g, v)
  BY <1>1, ImportKeeps DEF Insight!Games
<1>2. ASSUME NEW table \in Endings, Insight!Publish(table) PROVE InsightInv'
  <2>1. /\ endings' = table /\ kept' = kept \cup DOMAIN table /\ played' = played
        /\ requests' = requests /\ analysed' = analysed /\ preference' = preference /\ Insight!Commit
    BY <1>2 DEF Insight!Publish
  <2>2. DOMAIN table \subseteq Studied
    BY InsightConstants
  <2> QED
    BY <1>0, <2>1, <2>2, OthersKeep
<1>3. ASSUME NEW p \in Studied, Insight!Enqueue(p) PROVE InsightInv'
  <2>1. /\ requests' = [x \in DOMAIN requests \cup {p} |-> IF x = p THEN "queued" ELSE requests[x]]
        /\ kept' = kept \cup {p} /\ played' = played
        /\ endings' = endings /\ analysed' = analysed /\ preference' = preference /\ Insight!Commit
    BY <1>3 DEF Insight!Enqueue
  <2> QED
    BY <1>0, <2>1, OthersKeep
<1>4. ASSUME NEW p \in Studied, Insight!Claim(p) PROVE InsightInv'
  <2>1. /\ requests' = [requests EXCEPT ![p] = IF @ = "queued" THEN "running" ELSE "queued"]
        /\ kept' = kept /\ played' = played
        /\ endings' = endings /\ analysed' = analysed /\ preference' = preference /\ Insight!Commit
    BY <1>4 DEF Insight!Claim
  <2>2. DOMAIN requests' = DOMAIN requests /\ \A x \in DOMAIN requests' : requests'[x] \in {"queued", "running"}
    BY <1>0, <2>1
  <2> QED
    BY <1>0, <2>1, <2>2, OthersKeep
<1>5. ASSUME NEW p \in Studied, Insight!Complete(p) PROVE InsightInv'
  <2>1. /\ p \in DOMAIN requests /\ requests' = [x \in DOMAIN requests \ {p} |-> requests[x]]
        /\ analysed' = analysed \cup {p} /\ kept' = kept /\ played' = played
        /\ endings' = endings /\ preference' = preference /\ Insight!Commit
    BY <1>5 DEF Insight!Complete, Insight!Without
  <2> QED
    BY <1>0, <2>1, OthersKeep
<1>6. ASSUME NEW p \in Studied, Insight!RemoveRequest(p) PROVE InsightInv'
  <2>1. /\ requests' = [x \in DOMAIN requests \ {p} |-> requests[x]]
        /\ analysed' = analysed /\ kept' = kept /\ played' = played
        /\ endings' = endings /\ preference' = preference /\ Insight!Commit
    BY <1>6 DEF Insight!RemoveRequest, Insight!Without
  <2> QED
    BY <1>0, <2>1, OthersKeep
<1>7. ASSUME NEW p \in Studied, NEW kind \in Preferences, Insight!Prefer(p, kind) PROVE InsightInv'
  <2>1. /\ p \in kept /\ preference' = [preference EXCEPT ![p] = kind]
        /\ requests' = requests /\ analysed' = analysed /\ kept' = kept /\ played' = played
        /\ endings' = endings /\ Insight!Commit
    BY <1>7 DEF Insight!Prefer
  <2> QED
    BY <1>0, <2>1, OthersKeep
<1> QED
  BY <1>1, <1>2, <1>3, <1>4, <1>5, <1>6, <1>7 DEF Insight!Write

-----------------------------------------------------------------------------
(* The reader. *)

Unwritten ==
  /\ played' = played /\ kept' = kept /\ endings' = endings /\ requests' = requests
  /\ analysed' = analysed /\ preference' = preference /\ commits' = commits

LEMMA ReaderKeepsTypes ==
  ASSUME InsightTypes, Unwritten, begun' \in 0 .. commits', rested' \in BOOLEAN,
         reading'.next \in {"idle", "position", "statistics", "sparse", "queue", "preference", "opening", "result"}
  PROVE  InsightTypes'
<1>1. Insight!TypeOK'
  BY DEF InsightTypes, Insight!TypeOK, Unwritten, Insight!Games, Insight!ToSet
<1> QED
  BY <1>1 DEF InsightTypes, Unwritten

\* A step that answers nothing keeps the answer there is.
LEMMA SilenceKeeps ==
  ASSUME InsightInv, Unwritten, begun' = begun, rested' = rested, insight' = insight
  PROVE  InsightFits' /\ InsightTrue' /\ begun' \in 0 .. commits' /\ rested' \in BOOLEAN
<1>1. InsightFits' /\ InsightTrue'
  BY DEF InsightInv, InsightFits, InsightTrue, Unwritten
<1>2. begun \in 0 .. commits /\ rested \in BOOLEAN
  BY DEF InsightInv, InsightTypes, Insight!TypeOK
<1> QED
  BY <1>1, <1>2 DEF Unwritten

LEMMA ReadingGives ==
  ASSUME NEW step, Insight!Reading(step)
  PROVE  reading.next = step /\ Unwritten /\ begun' = begun /\ rested' = rested
BY DEF Insight!Reading, Insight!tables, Unwritten

LEMMA BeginKeeps ==
  ASSUME InsightInv, NEW p \in Studied, NEW c \in Insight!Colors, Insight!Begin(p, c)
  PROVE  InsightInv'
<1>1. /\ reading' = [Insight!Idle EXCEPT !.next = "position", !.position = p, !.color = c]
      /\ insight' = None /\ begun' = commits /\ rested' = Insight!Resting(p) /\ Unwritten
  BY DEF Insight!Begin, Insight!tables, Unwritten
<1>2. reading'.next = "position" /\ reading'.position = p
  BY <1>1 DEF Insight!Idle
<1>3. Insight!Resting(p)' <=> Insight!Resting(p)
  BY <1>1 DEF Insight!Resting, Unwritten
<1>4. commits \in Nat
  BY InsightConstants DEF InsightInv, InsightTypes, Insight!TypeOK
<1>5. begun' \in 0 .. commits' /\ rested' \in BOOLEAN
  <2>1. begun' = commits /\ commits' = commits
    BY <1>1 DEF Unwritten
  <2>2. rested' \in BOOLEAN
    BY Zenon, <1>1 DEF Insight!Resting
  <2> QED
    BY <1>4, <2>1, <2>2
<1>10. InsightTypes /\ Unwritten
  BY <1>1 DEF InsightInv
<1>6. InsightTypes'
  BY <1>2, <1>5, <1>10, ReaderKeepsTypes
<1>11. IsReading'
  <2>1. reading' = [Insight!Idle EXCEPT !.next = "position", !.position = p, !.color = c]
    BY <1>1
  <2>2. reading' = [next |-> "position", position |-> p, color |-> c, statistics |-> None, moves |-> << >>, queue |-> None,
                    preference |-> "unconfigured", opening |-> None]
    BY <2>1 DEF Insight!Idle
  <2> QED
    BY <2>2 DEF IsReading
<1>7. (Insight!Resting(reading.position) => rested)'
  <2>1. rested' = Insight!Resting(p)
    BY <1>1
  <2>2. Insight!Resting(reading.position)' => Insight!Resting(p)
    BY <1>1, <1>2 DEF Insight!Resting, Unwritten
  <2> QED
    BY Zenon, <2>1, <2>2
<1>8. ReadingFits' /\ ReadingTrue'
  BY <1>2, <1>7 DEF ReadingFits, ReadingTrue, After
<1>9. InsightFits' /\ InsightTrue'
  BY <1>1 DEF InsightFits, InsightTrue
<1> QED
  BY <1>6, <1>8, <1>9, <1>11 DEF InsightInv

\* What is said of the reading goes on when a step reads something more.
LEMMA RestKeeps ==
  ASSUME InsightInv, Unwritten, rested' = rested, reading.next # "idle", reading'.position = reading.position
  PROVE  reading'.position \in Studied /\ (Insight!Resting(reading.position) => rested)'
<1>1. reading.position \in Studied /\ (Insight!Resting(reading.position) => rested)
  BY DEF InsightInv, ReadingFits
<1> QED
  BY <1>1 DEF Insight!Resting, Unwritten

LEMMA FindPositionKeeps ==
  ASSUME InsightInv, Insight!FindPosition
  PROVE  InsightInv'
<1>1. /\ reading.next = "position" /\ Unwritten /\ begun' = begun /\ rested' = rested /\ insight' = insight
      /\ reading' = [reading EXCEPT !.next = IF reading.position \in kept THEN "statistics" ELSE "sparse"]
  BY ReadingGives DEF Insight!FindPosition
<1>2. /\ reading'.position = reading.position /\ IsReading'
      /\ reading'.next = IF reading.position \in kept THEN "statistics" ELSE "sparse"
  BY <1>1 DEF InsightInv, IsReading
<1>3. reading'.position \in Studied /\ (Insight!Resting(reading.position) => rested)'
  BY <1>1, <1>2, RestKeeps
<1>4. reading'.next \in {"statistics", "sparse"} /\ (reading'.next = "sparse" => reading.position \notin kept)
  BY <1>2
<1>5. InsightFits' /\ InsightTrue' /\ begun' \in 0 .. commits' /\ rested' \in BOOLEAN
  BY <1>1, SilenceKeeps
<1>6. InsightTypes'
  BY <1>1, <1>4, <1>5, ReaderKeepsTypes DEF InsightInv
<1>7. reading.position \notin kept => rested
  <2>1. DOMAIN requests \subseteq kept /\ analysed \subseteq kept
    BY DEF InsightInv, InsightTypes, Insight!TypeOK
  <2>2. Insight!Resting(reading.position) => rested
    BY <1>1 DEF InsightInv, ReadingFits
  <2> QED
    BY <2>1, <2>2 DEF Insight!Resting
<1>8. ReadingFits'
  BY <1>1, <1>2, <1>3, <1>4, <1>7 DEF ReadingFits, After
<1>9. ReadingTrue'
  BY <1>1, <1>2, <1>4 DEF ReadingTrue, After, Unwritten
<1> QED
  BY <1>2, <1>5, <1>6, <1>8, <1>9 DEF InsightInv

LEMMA ReadStatisticsKeeps ==
  ASSUME InsightInv, Insight!ReadStatistics
  PROVE  InsightInv'
<1> DEFINE s == Insight!Statistics(reading.position, reading.color)
           o == Insight!MoveOrder(s.moves)
<1>1. /\ reading.next = "statistics" /\ Unwritten /\ begun' = begun /\ rested' = rested /\ insight' = insight
      /\ reading' = [reading EXCEPT !.next = "queue", !.statistics = s, !.moves = o]
  BY ReadingGives DEF Insight!ReadStatistics
<1>2. Library
  BY LibraryHolds DEF InsightInv
<1>3. /\ Fits(s) /\ IsFiniteSet(DOMAIN s.moves) /\ DOMAIN s.moves \subseteq Studied
      /\ \A m \in DOMAIN s.moves : s.moves[m].games \in Nat
  BY <1>2, StatisticsFit
<1>4. Told(s, reading.position, reading.color, played)
  BY <1>2, StatisticsTold
<1> HIDE DEF s
<1>5. {o[i] : i \in DOMAIN o} = DOMAIN s.moves /\ Descends(s.moves, o)
  BY <1>3, MoveOrderIs
<1> HIDE DEF o
<1>6. /\ reading'.position = reading.position /\ reading'.color = reading.color /\ IsReading'
      /\ reading'.next = "queue" /\ reading'.statistics = s /\ reading'.moves = o
  BY <1>1 DEF InsightInv, IsReading
<1>7. reading'.position \in Studied /\ (Insight!Resting(reading.position) => rested)'
  BY <1>1, <1>6, RestKeeps
<1>8. InsightFits' /\ InsightTrue' /\ begun' \in 0 .. commits' /\ rested' \in BOOLEAN
  BY <1>1, SilenceKeeps
<1>9. InsightTypes'
  BY <1>1, <1>6, <1>8, ReaderKeepsTypes DEF InsightInv
<1>10. ReadingFits'
  BY <1>3, <1>5, <1>6, <1>7 DEF ReadingFits, After
<1>11. ReadingTrue'
  BY <1>1, <1>4, <1>5, <1>6 DEF ReadingTrue, After, Unwritten
<1> QED
  BY <1>6, <1>8, <1>9, <1>10, <1>11 DEF InsightInv

LEMMA ReadQueueKeeps ==
  ASSUME InsightInv, Insight!ReadQueue
  PROVE  InsightInv'
<1> DEFINE q == Insight!Queued(reading.position)
<1>1. /\ reading.next = "queue" /\ Unwritten /\ begun' = begun /\ rested' = rested /\ insight' = insight
      /\ reading' = [reading EXCEPT !.next = "preference", !.queue = q]
  BY ReadingGives DEF Insight!ReadQueue
<1>2. /\ q \in {None, "queued", "running"}
      /\ q = None => reading.position \notin DOMAIN requests
  <2>1. \A p \in DOMAIN requests : requests[p] \in {"queued", "running"}
    BY DEF InsightInv, InsightTypes, Insight!TypeOK
  <2>2. None # "queued" /\ None # "running"
    BY InsightConstants
  <2> QED
    BY <2>1, <2>2 DEF Insight!Queued
<1> HIDE DEF q
<1>3. Insight!Resting(reading.position) => rested
  BY <1>1 DEF InsightInv, ReadingFits
<1>4. q = None => rested \/ reading.position \in analysed
  BY <1>2, <1>3 DEF Insight!Resting
<1>5. /\ reading'.position = reading.position /\ reading'.color = reading.color /\ IsReading'
      /\ reading'.next = "preference" /\ reading'.statistics = reading.statistics /\ reading'.moves = reading.moves
      /\ reading'.queue = q
  BY <1>1 DEF InsightInv, IsReading
<1>6. reading'.position \in Studied /\ (Insight!Resting(reading.position) => rested)'
  BY <1>1, <1>5, RestKeeps
<1>7. InsightFits' /\ InsightTrue' /\ begun' \in 0 .. commits' /\ rested' \in BOOLEAN
  BY <1>1, SilenceKeeps
<1>8. InsightTypes'
  BY <1>1, <1>5, <1>7, ReaderKeepsTypes DEF InsightInv
<1>9. ReadingFits'
  BY <1>1, <1>2, <1>4, <1>5, <1>6 DEF InsightInv, ReadingFits, After, Unwritten
<1>10. ReadingTrue'
  BY <1>1, <1>5 DEF InsightInv, ReadingTrue, After, Unwritten
<1> QED
  BY <1>5, <1>7, <1>8, <1>9, <1>10 DEF InsightInv

LEMMA ReadPreferenceKeeps ==
  ASSUME InsightInv, Insight!ReadPreference
  PROVE  InsightInv'
<1>1. /\ reading.next = "preference" /\ Unwritten /\ begun' = begun /\ rested' = rested /\ insight' = insight
      /\ reading' = [reading EXCEPT !.next = "opening", !.preference = preference[reading.position]]
  BY ReadingGives DEF Insight!ReadPreference
<1>2. /\ reading'.position = reading.position /\ reading'.color = reading.color /\ IsReading'
      /\ reading'.next = "opening" /\ reading'.statistics = reading.statistics /\ reading'.moves = reading.moves
      /\ reading'.queue = reading.queue /\ reading'.preference = preference[reading.position]
  BY <1>1 DEF InsightInv, IsReading
<1>3. reading'.position \in Studied /\ (Insight!Resting(reading.position) => rested)'
  BY <1>1, <1>2, RestKeeps
<1>4. InsightFits' /\ InsightTrue' /\ begun' \in 0 .. commits' /\ rested' \in BOOLEAN
  BY <1>1, SilenceKeeps
<1>5. InsightTypes'
  BY <1>1, <1>2, <1>4, ReaderKeepsTypes DEF InsightInv
<1>6. ReadingFits'
  BY <1>1, <1>2, <1>3 DEF InsightInv, ReadingFits, After, Unwritten
<1>7. ReadingTrue'
  BY <1>1, <1>2 DEF InsightInv, ReadingTrue, After, Unwritten
<1> QED
  BY <1>2, <1>4, <1>5, <1>6, <1>7 DEF InsightInv

LEMMA ReadOpeningKeeps ==
  ASSUME InsightInv, Insight!ReadOpening
  PROVE  InsightInv'
<1> DEFINE e == IF reading.position \in DOMAIN endings THEN endings[reading.position] ELSE None
<1>1. /\ reading.next = "opening" /\ Unwritten /\ begun' = begun /\ rested' = rested /\ insight' = insight
      /\ reading' = [reading EXCEPT !.next = "result", !.opening = e]
  BY ReadingGives DEF Insight!ReadOpening
<1>2. e = IF reading.position \in DOMAIN endings THEN endings[reading.position] ELSE None
  OBVIOUS
<1> HIDE DEF e
<1>3. /\ reading'.position = reading.position /\ reading'.color = reading.color /\ IsReading'
      /\ reading'.next = "result" /\ reading'.statistics = reading.statistics /\ reading'.moves = reading.moves
      /\ reading'.queue = reading.queue /\ reading'.preference = reading.preference /\ reading'.opening = e
  BY <1>1 DEF InsightInv, IsReading
<1>4. reading'.position \in Studied /\ (Insight!Resting(reading.position) => rested)'
  BY <1>1, <1>3, RestKeeps
<1>5. InsightFits' /\ InsightTrue' /\ begun' \in 0 .. commits' /\ rested' \in BOOLEAN
  BY <1>1, SilenceKeeps
<1>6. InsightTypes'
  BY <1>1, <1>3, <1>5, ReaderKeepsTypes DEF InsightInv
<1>7. ReadingFits'
  BY <1>1, <1>3, <1>4 DEF InsightInv, ReadingFits, After, Unwritten
<1>8. ReadingTrue'
  BY <1>1, <1>2, <1>3 DEF InsightInv, ReadingTrue, After, Unwritten
<1> QED
  BY <1>3, <1>5, <1>6, <1>7, <1>8 DEF InsightInv

\* A reader that has answered has nothing in hand.
LEMMA IdleKeeps ==
  ASSUME InsightInv, Unwritten, begun' = begun, rested' = rested, reading' = Insight!Idle, InsightFits', InsightTrue'
  PROVE  InsightInv'
<1>1. reading'.next = "idle" /\ IsReading'
  BY DEF Insight!Idle, IsReading
<1>2. begun' \in 0 .. commits' /\ rested' \in BOOLEAN
  BY DEF InsightInv, InsightTypes, Insight!TypeOK, Unwritten
<1>3. InsightTypes'
  BY <1>1, <1>2, ReaderKeepsTypes DEF InsightInv
<1>4. ReadingFits' /\ ReadingTrue'
  BY <1>1 DEF ReadingFits, ReadingTrue, After
<1> QED
  BY <1>1, <1>3, <1>4 DEF InsightInv

LEMMA ReadResultKeeps ==
  ASSUME InsightInv, Insight!ReadResult
  PROVE  InsightInv'
<1> DEFINE done == reading.position \in analysed
           told == Insight!State(reading.queue, done)
<1>1. /\ reading.next = "result" /\ Unwritten /\ begun' = begun /\ rested' = rested /\ reading' = Insight!Idle
      /\ insight' = [position |-> reading.position, color |-> reading.color, statistics |-> reading.statistics,
                     moves |-> reading.moves, state |-> told, analyzed |-> done,
                     preference |-> reading.preference, opening |-> reading.opening]
  BY ReadingGives DEF Insight!ReadResult, Insight!Answer
<1>2. told = "not_requested" => rested
  <2>1. /\ reading.queue \in {None, "queued", "running"}
        /\ reading.queue = None => rested \/ reading.position \in analysed
    BY <1>1 DEF InsightInv, ReadingFits, After
  <2>2. CASE reading.queue # None
    <3>1. told = reading.queue
      BY <2>2 DEF Insight!State
    <3> QED
      BY <3>1, <2>1, <2>2
  <2>3. CASE reading.queue = None /\ done
    <3>1. told = "ready"
      BY <2>3 DEF Insight!State
    <3> QED
      BY <3>1
  <2> QED
    BY <2>1, <2>2, <2>3
<1> HIDE DEF told, done
<1>3. /\ insight'.position = reading.position /\ insight'.color = reading.color
      /\ insight'.statistics = reading.statistics /\ insight'.moves = reading.moves
      /\ insight'.state = told /\ insight'.preference = reading.preference /\ insight'.opening = reading.opening
  BY <1>1
<1>4. InsightFits'
  BY <1>1, <1>2, <1>3 DEF InsightInv, ReadingFits, InsightFits, After
<1>5. InsightTrue'
  BY <1>1, <1>3 DEF InsightInv, ReadingTrue, InsightTrue, After, Unwritten
<1> QED
  BY <1>1, <1>4, <1>5, IdleKeeps

\* Of a position that is not stored there is nothing to count.
LEMMA NothingTold ==
  ASSUME InsightTypes, NEW p, p \notin kept, NEW c, NEW s, s = Insight!NoStatistics(c)
  PROVE  Told(s, p, c, played)
<1> DEFINE with == {g \in GamesFor(played, c) : \E i \in DOMAIN played[g].line : played[g].line[i] = p}
           last == {g \in GamesFor(played, c) : played[g].line[Len(played[g].line)] = p}
           places == UNION {{<<g, i>> : i \in PliesAt(played, p, g)} : g \in GamesFor(played, c)}
<1>1. \A g \in DOMAIN played : \A i \in DOMAIN played[g].line : played[g].line[i] # p
  BY LinesAreStored
<1>2. \A g \in DOMAIN played : Len(played[g].line) \in DOMAIN played[g].line
  <2>1. Library
    BY LibraryHolds
  <2> QED
    BY <2>1 DEF Library
<1>3. with = {} /\ last = {} /\ places = {}
  BY <1>1, <1>2 DEF GamesFor, PliesAt
<1>4. /\ s.observed = FALSE /\ s.total = Cardinality(GamesFor(played, c)) /\ s.experience = Insight!Counts({})
      /\ s.terminal = Insight!Counts({}) /\ s.moves = << >>
  BY SizeIs DEF Insight!NoStatistics, GamesFor
<1>5. Insight!Counts({}) = [games |-> Cardinality({}), occurrences |-> Cardinality({})]
  <2>1. GamesOf({}) = {}
    BY DEF GamesOf
  <2>2. GamesOf({}) = {r.game : r \in {}}
    BY DEF GamesOf
  <2> QED
    BY Zenon, <2>1, <2>2, SizeIs DEF Insight!Counts
<1>6. DOMAIN s.moves = {}
  BY <1>4
<1>7. \A m \in Studied : ~ \E g \in GamesFor(played, c) : \E i \in PliesAt(played, p, g) : i < Len(played[g].line) /\ played[g].line[i + 1] = m
  BY <1>1 DEF GamesFor, PliesAt
<1>8. s.experience = [games |-> Cardinality(with), occurrences |-> Cardinality(places)] /\ s.terminal.games = Cardinality(last)
  <2> HIDE DEF with, last, places
  <2>1. Insight!Counts({}).games = Cardinality({})
    BY <1>5
  <2> QED
    BY <1>3, <1>4, <1>5, <2>1
<1>9. s.observed = (\E g \in DOMAIN played : \E i \in DOMAIN played[g].line : played[g].line[i] = p)
  <2>1. ~ \E g \in DOMAIN played : \E i \in DOMAIN played[g].line : played[g].line[i] = p
    BY <1>1
  <2>2. s.observed = FALSE
    BY <1>4
  <2> QED
    BY <2>1, <2>2
<1>10. \A m \in Studied : (m \in DOMAIN s.moves) =
         (\E g \in GamesFor(played, c) : \E i \in PliesAt(played, p, g) : i < Len(played[g].line) /\ played[g].line[i + 1] = m)
  <2> TAKE m \in Studied
  <2> DEFINE left == m \in DOMAIN s.moves
             told == \E g \in GamesFor(played, c) : \E i \in PliesAt(played, p, g) : i < Len(played[g].line) /\ played[g].line[i + 1] = m
  <2>1. ~left /\ ~told
    BY <1>6, <1>7
  <2>2. left \in BOOLEAN /\ told \in BOOLEAN
    OBVIOUS
  <2> HIDE DEF left, told
  <2>3. left = told
    BY <2>1, <2>2
  <2> QED
    BY <2>3 DEF left, told
<1>11. s.total = Cardinality(GamesFor(played, c))
  BY <1>4
<1> HIDE DEF with, last, places
<1> QED
  BY <1>8, <1>9, <1>10, <1>11 DEF Told, with, last, places

LEMMA NothingFits ==
  ASSUME InsightTypes, NEW c, NEW s, s = Insight!NoStatistics(c)
  PROVE  Fits(s) /\ s.moves = << >>
<1>1. /\ s.total = Cardinality(GamesFor(played, c)) /\ s.experience = Insight!Counts({})
      /\ s.outgoing = Insight!Counts({}) /\ s.terminal = Insight!Counts({}) /\ s.moves = << >>
  BY SizeIs DEF Insight!NoStatistics, GamesFor
<1>2. GamesOf({}) = {}
  BY DEF GamesOf
<1>3. Insight!Counts({}).games = 0 /\ Insight!Counts({}).occurrences = 0
  BY <1>2, CountsAre, FS_EmptySet
<1>4. Cardinality(GamesFor(played, c)) \in Nat
  <2>1. GamesFor(played, c) \in SUBSET DOMAIN played
    BY DEF GamesFor
  <2> QED
    BY <2>1, FS_Subset, FS_CardinalityType DEF InsightTypes
<1>5. \A n : DOMAIN n = {} => Insight!Pairs(n) = {}
  BY DEF Insight!Pairs
<1>6. DOMAIN s.moves = {}
  BY <1>1
<1>7. /\ Cardinality(Insight!Pairs([m \in DOMAIN s.moves |-> s.moves[m].occurrences])) = 0
      /\ Cardinality(Insight!Pairs([m \in DOMAIN s.moves |-> s.moves[m].games])) = 0
  BY <1>5, <1>6, FS_EmptySet
<1> QED
  BY <1>1, <1>3, <1>4, <1>7 DEF Fits

LEMMA SparseKeeps ==
  ASSUME InsightInv, Insight!Sparse
  PROVE  InsightInv'
<1> DEFINE s == Insight!NoStatistics(reading.color)
           p == reading.position
<1>1. /\ reading.next = "sparse" /\ Unwritten /\ begun' = begun /\ rested' = rested /\ reading' = Insight!Idle
      /\ insight' = [position |-> p, color |-> reading.color, statistics |-> s,
                     moves |-> << >>, state |-> "not_requested", analyzed |-> FALSE,
                     preference |-> "unconfigured", opening |-> None]
  BY ReadingGives DEF Insight!Sparse
<1>2. rested /\ p \in Studied
  BY <1>1 DEF InsightInv, ReadingFits
<1>3. Fits(s) /\ s.moves = << >>
  BY NothingFits DEF InsightInv
<1>4. ASSUME p \notin kept
      PROVE  Told(s, p, reading.color, played) /\ p \notin DOMAIN endings /\ preference[p] = "unconfigured"
  <2>1. Told(s, p, reading.color, played)
    BY <1>4, NothingTold DEF InsightInv
  <2>2. DOMAIN endings \subseteq kept
    BY DEF InsightInv, InsightTypes, Insight!TypeOK
  <2>3. preference[p] = "unconfigured"
    BY <1>2, <1>4 DEF InsightInv, InsightTypes
  <2> QED
    BY <1>4, <2>1, <2>2, <2>3
<1>5. begun = commits => p \notin kept
  BY <1>1 DEF InsightInv, ReadingTrue
<1> HIDE DEF s, p
<1>6. /\ insight'.position = p /\ insight'.color = reading.color
      /\ insight'.statistics = s /\ insight'.moves = << >>
      /\ insight'.preference = "unconfigured" /\ insight'.opening = None
  BY <1>1
<1>7. DOMAIN s.moves = {} /\ {insight'.moves[i] : i \in DOMAIN insight'.moves} = {} /\ Len(insight'.moves) = 0
  BY <1>3, <1>6
<1>8. InsightFits'
  BY <1>2, <1>1, <1>3, <1>6, <1>7 DEF InsightFits
<1>9. InsightTrue'
  <2>1. Descends(insight'.statistics.moves, insight'.moves)
    BY <1>7 DEF Descends
  <2> QED
    BY <1>1, <1>4, <1>5, <1>6, <2>1 DEF InsightTrue, Unwritten
<1> QED
  BY <1>1, <1>8, <1>9, IdleKeeps

LEMMA InsightCannotReadKeeps ==
  ASSUME InsightInv, Insight!CannotRead
  PROVE  InsightInv'
<1>1. Unwritten /\ begun' = begun /\ rested' = rested /\ reading' = Insight!Idle /\ insight' = None
  BY ReadingGives DEF Insight!CannotRead
<1>2. InsightFits' /\ InsightTrue'
  BY <1>1 DEF InsightFits, InsightTrue
<1> QED
  BY <1>1, <1>2, IdleKeeps

LEMMA InsightKeeps ==
  ASSUME InsightInv, Insight!Next
  PROVE  InsightInv'
<1>1. CASE Insight!Write
  BY <1>1, WritersKeep
<1>2. CASE Insight!Read
  BY <1>2, FindPositionKeeps, ReadStatisticsKeeps, SparseKeeps, ReadQueueKeeps, ReadPreferenceKeeps,
     ReadOpeningKeeps, ReadResultKeeps, InsightCannotReadKeeps DEF Insight!Read
<1>3. CASE \E p \in Studied, c \in Insight!Colors : Insight!Begin(p, c)
  BY <1>3, BeginKeeps
<1> QED
  BY <1>1, <1>2, <1>3 DEF Insight!Next

\* What is read of a position is honest however its tables change (InsightIsHonest).
THEOREM InsightsStayHonest == ReadsSpec => []InsightIsHonest
<1>1. ReadsInit => InsightInv
  BY InsightBegins DEF ReadsInit
<1>2. InsightInv /\ [ReadsNext]_reads => InsightInv'
  <2> SUFFICES ASSUME InsightInv, [ReadsNext]_reads PROVE InsightInv'
    OBVIOUS
  <2>1. CASE Insight!Next
    BY <2>1, InsightKeeps
  <2>2. CASE UNCHANGED insightVars
    BY <2>2 DEF insightVars, InsightInv, InsightTypes, Insight!TypeOK, Insight!Games, Insight!ToSet, IsReading,
                ReadingFits, ReadingTrue, InsightFits, InsightTrue, Insight!Resting
  <2> QED
    BY <2>1, <2>2 DEF ReadsNext, reads
<1>3. InsightInv => InsightIsHonest
  BY InsightInvIsHonest DEF InsightIsHonest
<1> QED
  BY <1>1, <1>2, <1>3, PTL DEF ReadsSpec

-----------------------------------------------------------------------------
(* Which games match. *)

LEMMA SearchConstants ==
  /\ MaxWrites \in Nat /\ DOMAIN Versions \subseteq Nat
  /\ None \notin Nat /\ None \notin Places /\ None \notin {"none", "partial", "complete"} /\ None # "ok" /\ None # "deepest"
  /\ None \notin Search!Query
  /\ \A u \in DOMAIN Versions : Versions[u] # {}
  /\ \A u \in DOMAIN Versions : \A v \in Versions[u] :
       /\ v.started \in Nat \cup {None} /\ v.rating \in Nat \cup {None} /\ v.class \in Nat
       /\ v.line \in Seq(Places) /\ v.line # << >>
  /\ \A table \in RouteTables : table \subseteq Places \X Nat
  /\ \A q \in Queries : q \in Search!Query /\ q.page = 1
BY SearchHolds DEF Search!GameSearchAssumption, Search!Uuids, Search!States

\* A query that is answered.
Asked(q) == q \in Search!Query /\ Search!Valid(q)

LEMMA QueryFields ==
  ASSUME NEW q \in Search!Query
  PROVE  /\ q.page \in Nat \ {0} /\ q.pageSize \in Nat
         /\ q.sort \in {"started_at", "length", "rating", "game_uuid"} /\ q.descending \in BOOLEAN
         /\ q.from \in Nat \cup {None} /\ q.to \in Nat \cup {None} /\ q.min \in Nat \cup {None} /\ q.max \in Nat \cup {None}
         /\ q.class \in Nat \cup {None} /\ q.opening \in Nat \cup {None} /\ q.match \in {None, "reached", "deepest"}
         /\ q.contains \in Places \cup {None} /\ q.movePosition \in Places \cup {None} /\ q.move \in Places \cup {None}
         /\ q.shortest \in Nat \cup {None} /\ q.longest \in Nat \cup {None}
         /\ q.analysis \in {"none", "partial", "complete", None} /\ q.preferred \in {"none", "partial", "complete", None}
BY DEF Search!Query, Search!States

\* The tables that a search reads, put together.
Snap(g, r, a, p) ==
  [games |-> g, lines |-> [u \in DOMAIN g |-> g[u].line],
   openings |-> [u \in DOMAIN g |-> Search!OpeningMatches(g[u].line, r)], analysed |-> a, preferred |-> p]

LEMMA SnapshotIs ==
  ASSUME NEW db
  PROVE  Search!Snapshot(db) = Snap(db.games, db.routes, db.results, db.preferred)
BY DEF Search!Snapshot, Snap

\* The games that match in what has been read, by their uuid.
Hits(s, q) == {u \in DOMAIN s.games : Search!Matches(Search!Summarize(u, s), q)}

LEMMA UuidIs == \A u, s : Search!Summarize(u, s).uuid = u
BY DEF Search!Summarize

LEMMA FoundAre ==
  ASSUME NEW s, NEW q
  PROVE  /\ \A g : g \in Search!Found(s, q) <=> \E u \in Hits(s, q) : g = Search!Summarize(u, s)
         /\ {g.uuid : g \in Search!Found(s, q)} = Hits(s, q)
         /\ \A g \in Search!Found(s, q) : g.uuid \in Hits(s, q) /\ g = Search!Summarize(g.uuid, s)
<1>1. Search!Found(s, q) = {g \in {Search!Summarize(u, s) : u \in DOMAIN s.games} : Search!Matches(g, q)}
  BY DEF Search!Found
<1>2. \A g : g \in Search!Found(s, q) <=> \E u \in Hits(s, q) : g = Search!Summarize(u, s)
  BY <1>1 DEF Hits
<1>3. \A g \in Search!Found(s, q) : g.uuid \in Hits(s, q) /\ g = Search!Summarize(g.uuid, s)
  BY <1>2, UuidIs
<1>4. \A u \in Hits(s, q) : \E g \in Search!Found(s, q) : g.uuid = u
  BY <1>2, UuidIs
<1> QED
  BY <1>2, <1>3, <1>4

\* Of the three tables that are read apart a query sees those it filters by.
LEMMA MatchAgrees ==
  ASSUME NEW u, NEW s, NEW t, NEW q, s.games[u] = t.games[u], s.lines[u] = t.lines[u],
         q.opening # None => s.openings[u] = t.openings[u],
         q.analysis # None => s.analysed = t.analysed, q.preferred # None => s.preferred = t.preferred
  PROVE  Search!Matches(Search!Summarize(u, s), q) <=> Search!Matches(Search!Summarize(u, t), q)
<1> DEFINE g == Search!Summarize(u, s)
           h == Search!Summarize(u, t)
<1>1. /\ g.started = h.started /\ g.rating = h.rating /\ g.class = h.class
      /\ g.length = h.length /\ g.line = h.line
      /\ q.opening # None => g.openings = h.openings /\ g.deepest = h.deepest
      /\ q.analysis # None => g.analysis = h.analysis
      /\ q.preferred # None => g.preferred = h.preferred
  BY DEF Search!Summarize
<1> HIDE DEF g, h
<1>2. Search!Matches(g, q) <=> Search!Matches(h, q)
  BY <1>1 DEF Search!Matches
<1> QED
  BY <1>2 DEF g, h

\* The page of a query plays no part in what matches.
LEMMA PageApart ==
  ASSUME NEW q \in Search!Query, NEW n, NEW s
  PROVE  Hits(s, [q EXCEPT !.page = n]) = Hits(s, q)
<1> DEFINE r == [q EXCEPT !.page = n]
<1>1. /\ r.from = q.from /\ r.to = q.to /\ r.class = q.class /\ r.min = q.min /\ r.max = q.max
      /\ r.opening = q.opening /\ r.match = q.match /\ r.contains = q.contains /\ r.movePosition = q.movePosition
      /\ r.move = q.move /\ r.shortest = q.shortest /\ r.longest = q.longest /\ r.analysis = q.analysis
      /\ r.preferred = q.preferred
  BY DEF Search!Query
<1> HIDE DEF r
<1>2. \A g : Search!Matches(g, r) <=> Search!Matches(g, q)
  BY <1>1 DEF Search!Matches
<1>3. Hits(s, r) = Hits(s, q)
  BY <1>2 DEF Hits
<1> QED
  BY <1>3 DEF r

\* A set of numbers that is not empty has a least one, and a greatest one when it has a bound.
LEMMA LeastIs ==
  ASSUME NEW S \in SUBSET Nat, S # {}
  PROVE  \E x \in S : \A y \in S : x <= y
<1> DEFINE R == {ss \in Nat \X Nat : ss[1] < ss[2]}
<1>1. IsWellFoundedOn(R, Nat)
  BY NatLessThanWellFounded DEF OpToRel
<1>2. PICK x \in S : \A y \in S : ~(<<y, x>> \in R)
  <2> HIDE DEF R
  <2> QED
    BY <1>1, WFMin
<1>3. ASSUME NEW y \in S PROVE x <= y
  <2>1. <<y, x>> \in Nat \X Nat /\ <<y, x>>[1] = y /\ <<y, x>>[2] = x
    OBVIOUS
  <2>2. ~(y < x)
    BY <1>2, <2>1
  <2> QED
    BY <2>2
<1> QED
  BY <1>3

LEMMA GreatestIs ==
  ASSUME NEW n \in Nat, NEW S \in SUBSET (0 .. n), S # {}
  PROVE  \E x \in S : \A y \in S : y <= x
<1> DEFINE T == {n - x : x \in S}
<1>1. T \in SUBSET Nat /\ T # {}
  <2>1. \A x \in S : n - x \in Nat
    OBVIOUS
  <2>2. \A t \in T : t \in Nat
    BY <2>1
  <2>3. T # {}
    OBVIOUS
  <2> QED
    BY <2>2, <2>3
<1>2. PICK t \in T : \A u \in T : t <= u
  BY <1>1, LeastIs
<1>3. PICK x \in S : t = n - x
  BY <1>2
<1>4. \A y \in S : n - y \in T /\ y \in Int /\ x \in Int
  OBVIOUS
<1> HIDE DEF T
<1>5. \A y \in S : n - x <= n - y
  BY <1>2, <1>3, <1>4
<1> QED
  BY <1>4, <1>5

LEMMA SearchMinIs ==
  ASSUME NEW S \in SUBSET Nat, S # {}
  PROVE  Search!Min(S) \in S /\ \A y \in S : Search!Min(S) <= y
BY LeastIs DEF Search!Min

LEMMA SearchMaxIs ==
  ASSUME NEW n \in Nat, NEW S \in SUBSET (0 .. n), S # {}
  PROVE  Search!Max(S) \in S /\ \A y \in S : Search!Max(S) >= y
<1>1. PICK x \in S : \A y \in S : y <= x
  BY GreatestIs
<1>2. \A y \in S : x >= y
  BY <1>1
<1> QED
  BY <1>1, <1>2 DEF Search!Max

\* The plies of a line at the positions of an opening.
PliesIn(line, table, k) == {i \in 1 .. Len(line) : <<line[i], k>> \in table}

LEMMA OpeningsAre ==
  ASSUME NEW line \in Seq(Places), NEW table, table \subseteq Places \X Nat, NEW m, m = Search!OpeningMatches(line, table)
  PROVE  /\ \A k : k \in DOMAIN m <=> PliesIn(line, table, k) # {}
         /\ DOMAIN m \subseteq Nat
         /\ \A k \in DOMAIN m : /\ m[k] + 1 \in PliesIn(line, table, k) /\ m[k] \in Nat
                                /\ \A i \in PliesIn(line, table, k) : i <= m[k] + 1
<1> DEFINE K == {k \in {r[2] : r \in table} : PliesIn(line, table, k) # {}}
<1>1. m = [k \in K |-> Search!Max(PliesIn(line, table, k)) - 1]
  BY DEF Search!OpeningMatches, PliesIn
<1>2. \A k : k \in K <=> PliesIn(line, table, k) # {}
  <2>1. ASSUME NEW k, NEW i \in PliesIn(line, table, k) PROVE k \in {r[2] : r \in table}
    <3>1. <<line[i], k>> \in table /\ <<line[i], k>>[2] = k
      BY DEF PliesIn
    <3> QED
      BY <3>1
  <2> QED
    BY <2>1
<1>3. K \subseteq Nat
  OBVIOUS
<1>4. ASSUME NEW k \in K
      PROVE  LET x == Search!Max(PliesIn(line, table, k)) IN
             x \in PliesIn(line, table, k) /\ x \in Nat \ {0} /\ \A i \in PliesIn(line, table, k) : i <= x
  <2> DEFINE P == PliesIn(line, table, k)
             x == Search!Max(P)
  <2>1. P \in SUBSET (0 .. Len(line)) /\ P # {} /\ Len(line) \in Nat /\ P \subseteq Nat \ {0}
    BY <1>2 DEF PliesIn
  <2> HIDE DEF P
  <2>2. x \in P /\ \A i \in P : x >= i
    BY <2>1, SearchMaxIs
  <2> HIDE DEF x
  <2>3. x \in P /\ x \in Nat \ {0} /\ \A i \in P : i <= x
    BY <2>1, <2>2
  <2> QED
    BY <2>3 DEF x, P
<1> HIDE DEF K
<1>5. DOMAIN m = K /\ \A k \in K : m[k] = Search!Max(PliesIn(line, table, k)) - 1
  BY <1>1
<1>6. ASSUME NEW k \in K
      PROVE  m[k] + 1 \in PliesIn(line, table, k) /\ m[k] \in Nat /\ \A i \in PliesIn(line, table, k) : i <= m[k] + 1
  <2> DEFINE x == Search!Max(PliesIn(line, table, k))
  <2>1. m[k] = x - 1
    BY <1>5
  <2>2. x \in PliesIn(line, table, k) /\ x \in Nat \ {0} /\ \A i \in PliesIn(line, table, k) : i <= x
    BY <1>4
  <2> HIDE DEF x
  <2>3. m[k] + 1 = x /\ m[k] \in Nat
    BY <2>1, <2>2
  <2> QED
    BY <2>2, <2>3
<1> QED
  BY <1>2, <1>3, <1>5, <1>6

\* The deepest opening of a line is reached last, and is the least of those that are.
LEMMA DeepestIs ==
  ASSUME NEW line \in Seq(Places), NEW table, table \subseteq Places \X Nat, NEW o \in Nat
  PROVE  Search!Deepest(Search!OpeningMatches(line, table)) = o <=>
           /\ PliesIn(line, table, o) # {}
           /\ \A r \in table : \A i \in PliesIn(line, table, r[2]) :
                \E j \in PliesIn(line, table, o) : j > i \/ (j = i /\ o <= r[2])
<1> DEFINE m == Search!OpeningMatches(line, table)
           K == {k \in DOMAIN m : \A l \in DOMAIN m : m[l] <= m[k]}
           P(k) == PliesIn(line, table, k)
<1>1. /\ \A k : k \in DOMAIN m <=> P(k) # {}
      /\ DOMAIN m \subseteq Nat
      /\ \A k \in DOMAIN m : /\ m[k] + 1 \in P(k) /\ m[k] \in Nat
                             /\ \A i \in P(k) : i <= m[k] + 1
  BY OpeningsAre
<1>2. \A k : \A i \in P(k) : i \in Nat /\ i <= Len(line)
  BY DEF PliesIn
<1>3. Len(line) \in Nat
  OBVIOUS
<1>4. \A k : P(k) # {} => \E r \in table : r[2] = k
  <2>1. ASSUME NEW k, NEW i \in P(k) PROVE \E r \in table : r[2] = k
    <3>1. <<line[i], k>> \in table /\ <<line[i], k>>[2] = k
      BY DEF PliesIn
    <3> QED
      BY <3>1
  <2> QED
    BY <2>1
<1>5. m = << >> <=> DOMAIN m = {}
  <2>1. m = [k \in DOMAIN m |-> m[k]]
    BY DEF Search!OpeningMatches
  <2> HIDE DEF m
  <2> QED
    BY <2>1
<1>6. Search!Deepest(m) = IF m = << >> THEN None ELSE Search!Min(K)
  BY DEF Search!Deepest
<1> HIDE DEF m, P
<1>7. ASSUME DOMAIN m # {} PROVE K # {}
  <2> DEFINE D == {m[k] : k \in DOMAIN m}
  <2>1. D # {}
    BY <1>7
  <2>2. \A k \in DOMAIN m : m[k] \in 0 .. Len(line)
    BY <1>1, <1>2, <1>3
  <2>3. D \in SUBSET (0 .. Len(line))
    BY <2>2
  <2> HIDE DEF D
  <2>4. PICK d \in D : \A e \in D : e <= d
    BY <2>1, <2>3, <1>3, GreatestIs
  <2> QED
    BY <2>4 DEF D
<1>8. K \in SUBSET Nat
  BY <1>1
<1>9. \A k : k \in K <=> (k \in DOMAIN m /\ \A l \in DOMAIN m : m[l] <= m[k])
  OBVIOUS
<1> HIDE DEF K
<1>10. ASSUME Search!Deepest(m) = o
       PROVE  /\ P(o) # {}
              /\ \A r \in table : \A i \in P(r[2]) : \E j \in P(o) : j > i \/ (j = i /\ o <= r[2])
  <2>1. m # << >> /\ o = Search!Min(K)
    BY <1>6, <1>10, SearchConstants
  <2>2. o \in K /\ \A k \in K : o <= k
    BY <2>1, <1>5, <1>7, <1>8, SearchMinIs
  <2>3. o \in DOMAIN m /\ m[o] + 1 \in P(o) /\ m[o] \in Nat
    BY <2>2, <1>1, <1>9
  <2>4. ASSUME NEW r \in table, NEW i \in P(r[2])
        PROVE  m[o] + 1 > i \/ (m[o] + 1 = i /\ o <= r[2])
    <3> DEFINE k == r[2]
    <3>1. k \in DOMAIN m
      BY <1>1
    <3> HIDE DEF k
    <3>2. i <= m[k] + 1 /\ m[k] <= m[o] /\ m[k] \in Nat /\ i \in Nat
      BY <3>1, <2>2, <1>1, <1>2, <1>9 DEF k
    <3>3. CASE m[o] + 1 > i
      BY <3>3
    <3>4. CASE ~(m[o] + 1 > i)
      <4>1. m[o] + 1 = i /\ m[k] = m[o]
        BY <3>2, <3>4, <2>3
      <4>2. k \in K
        BY <4>1, <3>1, <2>2, <1>9
      <4> QED
        BY <4>1, <4>2, <2>2 DEF k
    <3> QED
      BY <3>3, <3>4
  <2> QED
    BY <2>3, <2>4
<1>11. ASSUME P(o) # {},
              \A r \in table : \A i \in P(r[2]) : \E j \in P(o) : j > i \/ (j = i /\ o <= r[2])
       PROVE  Search!Deepest(m) = o
  <2>1. o \in DOMAIN m /\ m # << >>
    BY <1>11, <1>1, <1>5
  <2>2. ASSUME NEW k \in DOMAIN m PROVE m[k] <= m[o] /\ (m[k] = m[o] => o <= k)
    <3>1. PICK r \in table : r[2] = k
      BY <1>1, <1>4
    <3>2. PICK j \in P(o) : j > m[k] + 1 \/ (j = m[k] + 1 /\ o <= k)
      BY <3>1, <1>1, <1>11
    <3>3. j <= m[o] + 1 /\ j \in Nat /\ m[k] \in Nat /\ m[o] \in Nat
      BY <2>1, <1>1, <1>2
    <3> QED
      BY <3>2, <3>3
  <2>3. o \in K
    BY <2>1, <2>2, <1>9
  <2>4. \A k \in K : o <= k
    <3> TAKE k \in K
    <3>1. k \in DOMAIN m /\ m[o] <= m[k] /\ m[k] \in Nat /\ m[o] \in Nat
      BY <2>1, <1>1, <1>9
    <3>2. m[k] = m[o]
      BY <3>1, <2>2
    <3> QED
      BY <3>1, <3>2, <2>2
  <2>5. Search!Min(K) \in K /\ Search!Min(K) <= o
    BY <2>3, <1>8, SearchMinIs
  <2>6. o <= Search!Min(K) /\ Search!Min(K) \in Nat
    BY <2>4, <2>5, <1>8
  <2> QED
    BY <2>1, <2>5, <2>6, <1>6
<1> QED
  BY <1>10, <1>11 DEF m, P

\* What an import writes.
Content(v) ==
  /\ v.started \in Nat \cup {None} /\ v.rating \in Nat \cup {None} /\ v.class \in Nat
  /\ v.line \in Seq(Places) /\ v.line # << >>

LEMMA InBoundsIs ==
  ASSUME NEW v \in Nat \cup {None}, NEW l \in Nat \cup {None}, NEW h \in Nat \cup {None}
  PROVE  Search!InBounds(v, l, h) <=>
           /\ l # None => v # None /\ ~ (v < l)
           /\ h # None => v # None /\ ~ (v > h)
BY SearchConstants DEF Search!InBounds

LEMMA SearchSizeIs == \A S : Search!Cardinality(S) = Cardinality(S)
BY Zenon DEF Search!Cardinality, Cardinality

LEMMA SearchFiniteIs == \A S : Search!IsFiniteSet(S) <=> IsFiniteSet(S)
BY Zenon DEF Search!IsFiniteSet, IsFiniteSet

\* The positions of a game, covered by a set.
Along(line) == {line[i] : i \in DOMAIN line}

LEMMA CoverageIs ==
  ASSUME NEW line \in Seq(Places), line # << >>, NEW set
  PROVE  /\ (Search!Coverage(line, set) = "none") <=> (\A p \in Along(line) : p \notin set)
         /\ (Search!Coverage(line, set) = "complete") <=> (\A p \in Along(line) : p \in set)
         /\ (Search!Coverage(line, set) = "partial") <=> (\E p, r \in Along(line) : p \in set /\ r \notin set)
<1> DEFINE A == Along(line)
           c == Cardinality(A \cap set)
<1>1. IsFiniteSet(A) /\ A # {}
  <2> DEFINE f == [i \in 1 .. Len(line) |-> line[i]]
  <2>1. DOMAIN line = 1 .. Len(line) /\ Len(line) \in Nat \ {0}
    OBVIOUS
  <2>2. f \in Surjection(1 .. Len(line), A)
    BY <2>1 DEF Along, Surjection
  <2>3. IsFiniteSet(1 .. Len(line))
    BY <2>1, FS_Interval
  <2>4. line[1] \in A
    BY <2>1 DEF Along
  <2> HIDE DEF f, A
  <2> QED
    BY <2>2, <2>3, <2>4, FS_Surjection
<1>2. Search!Occurrences(line) = A
  BY DEF Search!Occurrences, Search!ToSet, Along
<1> HIDE DEF A
<1>3. Search!Coverage(line, set) = IF c = 0 THEN "none" ELSE IF c = Cardinality(A) THEN "complete" ELSE "partial"
  BY Zenon, <1>2, SearchSizeIs DEF Search!Coverage
<1>4. A \cap set \in SUBSET A
  OBVIOUS
<1>5. /\ IsFiniteSet(A \cap set) /\ c \in Nat /\ Cardinality(A) \in Nat /\ Cardinality(A) # 0
      /\ c = 0 <=> A \cap set = {}
      /\ c = Cardinality(A) <=> A \cap set = A
  <2>1. IsFiniteSet(A \cap set) /\ (c = Cardinality(A) => A \cap set = A)
    BY <1>1, <1>4, FS_Subset
  <2>2. c \in Nat /\ Cardinality(A) \in Nat
    BY <1>1, <2>1, FS_CardinalityType
  <2>3. (c = 0 <=> A \cap set = {}) /\ Cardinality(A) # 0
    BY <1>1, <2>1, FS_EmptySet
  <2> QED
    BY <2>1, <2>2, <2>3
<1>6. (\A p \in A : p \notin set) <=> A \cap set = {}
  OBVIOUS
<1>7. (\A p \in A : p \in set) <=> A \cap set = A
  OBVIOUS
<1>8. (\E p, r \in A : p \in set /\ r \notin set) <=> (A \cap set # {} /\ A \cap set # A)
  OBVIOUS
<1> HIDE DEF c
<1>9. /\ (Search!Coverage(line, set) = "none") <=> A \cap set = {}
      /\ (Search!Coverage(line, set) = "complete") <=> A \cap set = A
      /\ (Search!Coverage(line, set) = "partial") <=> (A \cap set # {} /\ A \cap set # A)
  <2>1. CASE c = 0
    <3>1. Search!Coverage(line, set) = "none"
      BY <1>3, <2>1
    <3>2. A \cap set = {} /\ A \cap set # A
      BY <1>5, <2>1
    <3> QED
      BY <3>1, <3>2
  <2>2. CASE c # 0 /\ c = Cardinality(A)
    <3>1. Search!Coverage(line, set) = "complete"
      BY <1>3, <2>2
    <3>2. A \cap set # {} /\ A \cap set = A
      BY <1>5, <2>2
    <3> QED
      BY <3>1, <3>2
  <2>3. CASE c # 0 /\ c # Cardinality(A)
    <3>1. Search!Coverage(line, set) = "partial"
      BY <1>3, <2>3
    <3>2. A \cap set # {} /\ A \cap set # A
      BY <1>5, <2>3
    <3> QED
      BY <3>1, <3>2
  <2> QED
    BY <2>1, <2>2, <2>3
<1> QED
  BY <1>6, <1>7, <1>8, <1>9 DEF A

\* Content and routes that the tables may hold.
Stocked(g, r) == (\A u \in DOMAIN g : Content(g[u])) /\ r \subseteq Places \X Nat

LEMMA MatchingIs ==
  ASSUME Asked(query), NEW db, Stocked(db.games, db.routes)
  PROVE  Hits(Snap(db.games, db.routes, db.results, db.preferred), query) = Search!Matching(db)
<1> DEFINE s == Snap(db.games, db.routes, db.results, db.preferred)
           Named(line, set, state) ==
             CASE state = "none"     -> \A p \in Search!ToSet(line) : p \notin set
               [] state = "complete" -> \A p \in Search!ToSet(line) : p \in set
               [] OTHER              -> \E p, r \in Search!ToSet(line) : p \in set /\ r \notin set
           Dates(v) ==
             /\ query.from # None => v.started # None /\ ~ (v.started < query.from)
             /\ query.to # None => v.started # None /\ ~ (v.started > query.to)
           Ratings(v) ==
             /\ query.min # None => v.rating # None /\ ~ (v.rating < query.min)
             /\ query.max # None => v.rating # None /\ ~ (v.rating > query.max)
           Opens(v) ==
             /\ query.opening # None => PliesIn(v.line, db.routes, query.opening) # {}
             /\ query.match = "deepest" =>
                  \A r \in db.routes : \A i \in PliesIn(v.line, db.routes, r[2]) :
                    \E j \in PliesIn(v.line, db.routes, query.opening) : j > i \/ (j = i /\ query.opening =< r[2])
           Passes(v) == query.contains # None => \E i \in DOMAIN v.line : v.line[i] = query.contains
           Steps(v) ==
             query.movePosition # None =>
               \E i, j \in DOMAIN v.line : j = i + 1 /\ <<v.line[i], v.line[j]>> = <<query.movePosition, query.move>>
           Lasts(v) ==
             /\ query.shortest # None => Len(v.line) > query.shortest
             /\ query.longest # None => Len(v.line) =< query.longest + 1
           Covers(v) ==
             /\ query.analysis # None => Named(v.line, db.results, query.analysis)
             /\ query.preferred # None => Named(v.line, db.preferred, query.preferred)
<1>1. ASSUME NEW u \in DOMAIN db.games
      PROVE  u \in Search!Matching(db) <=>
               LET v == db.games[u] IN
               /\ Dates(v) /\ Ratings(v) /\ query.class \in {None, v.class} /\ Opens(v) /\ Passes(v) /\ Steps(v)
               /\ Lasts(v) /\ Covers(v)
  BY DEF Search!Matching, PliesIn
<1>2. ASSUME NEW u \in DOMAIN db.games
      PROVE  Search!Matches(Search!Summarize(u, s), query) <=>
               LET v == db.games[u] IN
               /\ Dates(v) /\ Ratings(v) /\ query.class \in {None, v.class} /\ Opens(v) /\ Passes(v) /\ Steps(v)
               /\ Lasts(v) /\ Covers(v)
  <2> DEFINE v == db.games[u]
             g == Search!Summarize(u, s)
  <2>1. /\ g.started = v.started /\ g.rating = v.rating /\ g.class = v.class
        /\ g.length = Len(v.line) - 1 /\ g.line = v.line
        /\ g.openings = Search!OpeningMatches(v.line, db.routes)
        /\ g.deepest = Search!Deepest(Search!OpeningMatches(v.line, db.routes))
        /\ g.analysis = Search!Coverage(v.line, db.results) /\ g.preferred = Search!Coverage(v.line, db.preferred)
    BY DEF Search!Summarize, Snap, Search!Length
  <2>2. Content(v) /\ db.routes \subseteq Places \X Nat
    BY DEF Stocked
  <2>3. v.line \in Seq(Places) /\ Len(v.line) \in Nat \ {0} /\ DOMAIN v.line = 1 .. Len(v.line) /\ v.line # << >>
    BY <2>2 DEF Content
  <2>4. query \in Search!Query /\ Search!Valid(query)
    BY DEF Asked
  <2> HIDE DEF g, v
  <2>5. Search!InBounds(g.started, query.from, query.to) <=> Dates(v)
    BY <2>1, <2>2, <2>4, QueryFields, InBoundsIs DEF Content
  <2>6. Search!InBounds(g.rating, query.min, query.max) <=> Ratings(v)
    BY <2>1, <2>2, <2>4, QueryFields, InBoundsIs DEF Content
  <2>7. (query.class # None => g.class = query.class) <=> query.class \in {None, v.class}
    BY <2>1
  <2>8. (query.opening # None =>
           IF query.match = "reached" THEN query.opening \in DOMAIN g.openings ELSE g.deepest = query.opening) <=> Opens(v)
    <3>1. (query.opening = None) <=> (query.match = None)
      BY <2>4 DEF Search!Valid
    <3>2. query.opening \in Nat \cup {None} /\ query.match \in {None, "reached", "deepest"}
      BY <2>4, QueryFields
    <3>3. CASE query.opening = None
      <4>1. query.match # "deepest"
        BY <3>1, <3>3, SearchConstants
      <4> QED
        BY <4>1, <3>3
    <3>4. CASE query.opening # None
      <4>1. query.opening \in Nat /\ query.match \in {"reached", "deepest"}
        BY <3>1, <3>2, <3>4
      <4>2. query.opening \in DOMAIN g.openings <=> PliesIn(v.line, db.routes, query.opening) # {}
        BY <2>1, <2>2, <2>3, OpeningsAre
      <4>3. g.deepest = query.opening <=>
              /\ PliesIn(v.line, db.routes, query.opening) # {}
              /\ \A r \in db.routes : \A i \in PliesIn(v.line, db.routes, r[2]) :
                   \E j \in PliesIn(v.line, db.routes, query.opening) : j > i \/ (j = i /\ query.opening <= r[2])
        <5> DEFINE told == /\ PliesIn(v.line, db.routes, query.opening) # {}
                           /\ \A r \in db.routes : \A i \in PliesIn(v.line, db.routes, r[2]) :
                                \E j \in PliesIn(v.line, db.routes, query.opening) : j > i \/ (j = i /\ query.opening <= r[2])
        <5>1. v.line \in Seq(Places) /\ db.routes \subseteq Places \X Nat
          BY <2>2, <2>3
        <5>2. (Search!Deepest(Search!OpeningMatches(v.line, db.routes)) = query.opening) <=> told
          BY <5>1, <4>1, DeepestIs
        <5> HIDE DEF told
        <5>3. g.deepest = query.opening <=> told
          BY <5>2, <2>1
        <5> QED
          BY <5>3 DEF told
      <4> QED
        BY <3>4, <4>1, <4>2, <4>3
    <3> QED
      BY <3>3, <3>4
  <2>9. (query.contains # None => query.contains \in Search!Occurrences(g.line)) <=> Passes(v)
    BY <2>1 DEF Search!Occurrences, Search!ToSet
  <2>10. (query.movePosition # None =>
            \E i \in 1 .. g.length : g.line[i] = query.movePosition /\ g.line[i + 1] = query.move) <=> Steps(v)
    <3>1. ASSUME NEW i \in 1 .. g.length, g.line[i] = query.movePosition, g.line[i + 1] = query.move
          PROVE  \E k, j \in DOMAIN v.line : j = k + 1 /\ <<v.line[k], v.line[j]>> = <<query.movePosition, query.move>>
      <4>1. i \in DOMAIN v.line /\ i + 1 \in DOMAIN v.line
        BY <2>1, <2>3
      <4> QED
        BY <4>1, <3>1, <2>1
    <3>2. ASSUME NEW k \in DOMAIN v.line, NEW j \in DOMAIN v.line, j = k + 1,
                 <<v.line[k], v.line[j]>> = <<query.movePosition, query.move>>
          PROVE  \E i \in 1 .. g.length : g.line[i] = query.movePosition /\ g.line[i + 1] = query.move
      <4>1. k \in 1 .. g.length
        BY <2>1, <2>3, <3>2
      <4>2. v.line[k] = query.movePosition /\ v.line[k + 1] = query.move
        BY <3>2
      <4> QED
        BY <4>1, <4>2, <2>1
    <3> QED
      BY <3>1, <3>2
  <2>11. ((query.shortest # None => g.length >= query.shortest) /\ (query.longest # None => g.length =< query.longest)) <=> Lasts(v)
    <3>1. query.shortest \in Nat \cup {None} /\ query.longest \in Nat \cup {None}
      BY <2>4, QueryFields
    <3> QED
      BY <3>1, <2>1, <2>3
  <2>12. ASSUME NEW state \in {"none", "partial", "complete"}, NEW set
         PROVE  (Search!Coverage(v.line, set) = state) <=> Named(v.line, set, state)
    <3>1. Search!ToSet(v.line) = Along(v.line)
      BY DEF Search!ToSet, Along
    <3>2. CASE state = "none"
      BY <2>3, <3>1, <3>2, CoverageIs
    <3>3. CASE state = "complete"
      BY <2>3, <3>1, <3>3, CoverageIs
    <3>4. CASE state = "partial"
      BY <2>3, <3>1, <3>4, CoverageIs
    <3> QED
      BY <3>2, <3>3, <3>4
  <2>13. ((query.analysis # None => g.analysis = query.analysis) /\ (query.preferred # None => g.preferred = query.preferred))
           <=> Covers(v)
    <3>1. /\ query.analysis \in {"none", "partial", "complete", None}
          /\ query.preferred \in {"none", "partial", "complete", None}
      BY <2>4, QueryFields
    <3>2. query.analysis # None =>
            ((Search!Coverage(v.line, db.results) = query.analysis) <=> Named(v.line, db.results, query.analysis))
      BY <3>1, <2>12
    <3>3. query.preferred # None =>
            ((Search!Coverage(v.line, db.preferred) = query.preferred) <=> Named(v.line, db.preferred, query.preferred))
      BY <3>1, <2>12
    <3> HIDE DEF Named
    <3> QED
      BY <3>2, <3>3, <2>1
  <2> HIDE DEF Dates, Ratings, Opens, Passes, Steps, Lasts, Covers
  <2>14. Search!Matches(g, query) <=>
           (/\ Dates(v) /\ Ratings(v) /\ query.class \in {None, v.class} /\ Opens(v) /\ Passes(v) /\ Steps(v)
            /\ Lasts(v) /\ Covers(v))
    BY <2>5, <2>6, <2>7, <2>8, <2>9, <2>10, <2>11, <2>13 DEF Search!Matches
  <2> QED
    BY <2>14 DEF g, v
<1>3. DOMAIN s.games = DOMAIN db.games
  BY DEF Snap
<1>4. \A u : u \in Search!Matching(db) => u \in DOMAIN db.games
  BY DEF Search!Matching
<1> HIDE DEF s, Dates, Ratings, Opens, Passes, Steps, Lasts, Covers
<1>5. \A u : u \in Hits(s, query) <=> u \in Search!Matching(db)
  BY <1>1, <1>2, <1>3, <1>4 DEF Hits
<1>6. Hits(s, query) = Search!Matching(db)
  BY <1>5
<1> QED
  BY <1>6 DEF s

-----------------------------------------------------------------------------
(* The order of the games and its pages. *)

\* What a query sorts a game by, and which of two games it puts ahead.
Key(all, q, u) ==
  CASE q.sort = "started_at" -> all[u].started
    [] q.sort = "length"     -> Len(all[u].line) - 1
    [] q.sort = "rating"     -> all[u].rating
    [] OTHER                 -> u

Goes(all, q, v, u) ==
  \/ Search!Precedes(Key(all, q, v), Key(all, q, u), q.descending)
  \/ Key(all, q, v) = Key(all, q, u) /\ v < u

\* The place of a game among those that match.
UpTo(all, q, S, u) == {v \in S : v = u \/ Goes(all, q, v, u)}

Rank(all, q, S, u) == Cardinality(UpTo(all, q, S, u))

Known(all, S) == S \subseteq Nat /\ \A u \in S : Content(all[u])

LEMMA GoesInOrder ==
  ASSUME NEW q \in Search!Query, NEW all, NEW S, Known(all, S)
  PROVE  /\ \A u, v \in S : u # v => Goes(all, q, u, v) \/ Goes(all, q, v, u)
         /\ \A u, v \in S : Goes(all, q, u, v) => ~ Goes(all, q, v, u)
         /\ \A u, v, w \in S : Goes(all, q, u, v) /\ Goes(all, q, v, w) => Goes(all, q, u, w)
<1> DEFINE k(u) == Key(all, q, u)
           d == q.descending
<1>1. \A u \in S : k(u) \in Nat \cup {None} /\ u \in Nat
  <2>1. \A u \in S : u \in Nat /\ all[u].started \in Nat \cup {None} /\ all[u].rating \in Nat \cup {None}
                     /\ Len(all[u].line) - 1 \in Nat
    <3>1. \A u \in S : u \in Nat /\ Content(all[u])
      BY DEF Known
    <3>2. \A u \in S : /\ all[u].started \in Nat \cup {None} /\ all[u].rating \in Nat \cup {None}
                       /\ Len(all[u].line) - 1 \in Nat
      BY <3>1 DEF Content
    <3> QED
      BY <3>1, <3>2
  <2> QED
    BY <2>1 DEF Key
<1>2. \A u, v \in S : Goes(all, q, u, v) <=>
        \/ k(u) # None /\ (k(v) # None => IF d THEN k(u) > k(v) ELSE k(u) < k(v))
        \/ k(u) = k(v) /\ u < v
  BY DEF Goes, Search!Precedes
<1>3. None \notin Nat
  BY SearchConstants
<1> HIDE DEF k, d
<1>4. \A u, v \in S : u # v => Goes(all, q, u, v) \/ Goes(all, q, v, u)
  BY <1>1, <1>2, <1>3
<1>5. \A u, v \in S : Goes(all, q, u, v) => ~ Goes(all, q, v, u)
  BY <1>1, <1>2, <1>3
<1>6. \A u, v, w \in S : Goes(all, q, u, v) /\ Goes(all, q, v, w) => Goes(all, q, u, w)
  BY <1>1, <1>2, <1>3
<1> QED
  BY <1>4, <1>5, <1>6

LEMMA RankIs ==
  ASSUME NEW all, NEW q, NEW S, IsFiniteSet(S), NEW u \in S
  PROVE  Rank(all, q, S, u) \in 1 .. Cardinality(S)
<1> DEFINE D == UpTo(all, q, S, u)
<1>1. D \in SUBSET S /\ u \in D
  BY DEF UpTo
<1> HIDE DEF D
<1>2. IsFiniteSet(D) /\ Cardinality(D) <= Cardinality(S)
  BY <1>1, FS_Subset
<1>3. Cardinality(D) \in Nat /\ Cardinality(D) # 0 /\ Cardinality(S) \in Nat
  BY <1>1, <1>2, FS_EmptySet, FS_CardinalityType
<1>4. Cardinality(D) \in 1 .. Cardinality(S)
  BY <1>2, <1>3
<1> QED
  BY <1>4 DEF Rank, D

\* Among more games a place is not an earlier one.
LEMMA RankGrows ==
  ASSUME NEW all, NEW q, NEW T, IsFiniteSet(T), NEW S \in SUBSET T, NEW u
  PROVE  Rank(all, q, S, u) \in Nat /\ Rank(all, q, T, u) \in Nat /\ Rank(all, q, S, u) <= Rank(all, q, T, u)
<1> DEFINE D == UpTo(all, q, S, u)
           E == UpTo(all, q, T, u)
<1>1. E \in SUBSET T /\ D \in SUBSET E
  BY DEF UpTo
<1> HIDE DEF D, E
<1>2. IsFiniteSet(E)
  BY <1>1, FS_Subset
<1>3. IsFiniteSet(D) /\ Cardinality(D) <= Cardinality(E)
  BY <1>1, <1>2, FS_Subset
<1>4. Cardinality(D) \in Nat /\ Cardinality(E) \in Nat
  BY <1>2, <1>3, FS_CardinalityType
<1> QED
  BY <1>3, <1>4 DEF Rank, D, E

LEMMA RankStays ==
  ASSUME NEW all, NEW other, NEW q, NEW S, NEW u \in S, \A v \in S : other[v] = all[v]
  PROVE  Rank(other, q, S, u) = Rank(all, q, S, u)
<1>1. \A v \in S : Key(other, q, v) = Key(all, q, v)
  BY DEF Key
<1>2. \A v \in S : Goes(other, q, v, u) <=> Goes(all, q, v, u)
  BY <1>1 DEF Goes
<1>3. UpTo(other, q, S, u) = UpTo(all, q, S, u)
  BY <1>2 DEF UpTo
<1> QED
  BY <1>3 DEF Rank

\* The page plays no part in the order.
LEMMA RankOfPage ==
  ASSUME NEW q \in Search!Query, NEW n, NEW all, NEW S, NEW u
  PROVE  Rank(all, [q EXCEPT !.page = n], S, u) = Rank(all, q, S, u)
<1> DEFINE r == [q EXCEPT !.page = n]
<1>1. r.sort = q.sort /\ r.descending = q.descending
  BY DEF Search!Query
<1> HIDE DEF r
<1>2. \A v : Key(all, r, v) = Key(all, q, v)
  BY <1>1 DEF Key
<1>3. \A v : Goes(all, r, v, u) <=> Goes(all, q, v, u)
  BY <1>1, <1>2 DEF Goes
<1>4. UpTo(all, r, S, u) = UpTo(all, q, S, u)
  BY <1>3 DEF UpTo
<1>5. Rank(all, r, S, u) = Rank(all, q, S, u)
  BY <1>4 DEF Rank
<1> QED
  BY <1>5 DEF r

\* What has been read of games is what they are.
Reads(s, all) ==
  \A u \in DOMAIN s.games :
    s.games[u].started = all[u].started /\ s.games[u].rating = all[u].rating /\ s.lines[u] = all[u].line

LEMMA BeforeIs ==
  ASSUME NEW q \in Search!Query, NEW s, NEW all, Reads(s, all), NEW u \in DOMAIN s.games, NEW v \in DOMAIN s.games
  PROVE  Search!Before(Search!Summarize(u, s), Search!Summarize(v, s), q) <=> Goes(all, q, u, v)
<1> DEFINE g == Search!Summarize(u, s)
           h == Search!Summarize(v, s)
<1>1. /\ g.started = all[u].started /\ g.rating = all[u].rating /\ g.length = Len(all[u].line) - 1 /\ g.uuid = u
      /\ h.started = all[v].started /\ h.rating = all[v].rating /\ h.length = Len(all[v].line) - 1 /\ h.uuid = v
  BY DEF Reads, Search!Summarize, Search!Length
<1> HIDE DEF g, h
<1>2. q.sort \in {"started_at", "length", "rating", "game_uuid"}
  BY QueryFields
<1>3. Search!Before(g, h, q) <=> Goes(all, q, u, v)
  <2>1. CASE q.sort = "started_at"
    BY <1>1, <2>1 DEF Search!Before, Goes, Key
  <2>2. CASE q.sort = "length"
    BY <1>1, <2>2 DEF Search!Before, Goes, Key
  <2>3. CASE q.sort = "rating"
    BY <1>1, <2>3 DEF Search!Before, Goes, Key
  <2>4. CASE q.sort = "game_uuid"
    BY <1>1, <2>4 DEF Search!Before, Goes, Key
  <2> QED
    BY <1>2, <2>1, <2>2, <2>3, <2>4
<1> QED
  BY <1>3 DEF g, h

LEMMA SearchSeqsAre == \A S : Search!SetToSeqs(S) = SetToSeqs(S)
BY Zenon, SearchSizeIs DEF Search!SetToSeqs, SetToSeqs

\* The games found, sorted: each has the place that its rank says.
LEMMA SortedIs ==
  ASSUME NEW q \in Search!Query, NEW s, NEW all, Reads(s, all), Known(all, DOMAIN s.games), IsFiniteSet(DOMAIN s.games),
         NEW L, L = Search!Sorted(Search!Found(s, q), q), NEW S, S = Hits(s, q)
  PROVE  /\ IsFiniteSet(S) /\ IsFiniteSet(Search!Found(s, q)) /\ Cardinality(Search!Found(s, q)) = Cardinality(S)
         /\ L \in Seq(Search!Found(s, q)) /\ Len(L) = Cardinality(S)
         /\ \A i \in 1 .. Len(L) :
              /\ L[i].uuid \in S /\ L[i] = Search!Summarize(L[i].uuid, s)
              /\ Rank(all, q, S, L[i].uuid) = i
         /\ \A u \in S : L[Rank(all, q, S, u)].uuid = u
<1> DEFINE F == Search!Found(s, q)
           R == {x \in F \X F : Search!Before(x[1], x[2], q)}
           Sort(t) == \A i, j \in DOMAIN t : i < j => Search!Before(t[i], t[j], q)
<1>1. /\ \A g : g \in F <=> \E u \in S : g = Search!Summarize(u, s)
      /\ \A g \in F : g.uuid \in S /\ g = Search!Summarize(g.uuid, s)
  BY FoundAre
<1>2. S \in SUBSET DOMAIN s.games
  BY DEF Hits
<1>3. IsFiniteSet(S)
  BY <1>2, FS_Subset
<1>4. IsFiniteSet(F) /\ Cardinality(F) = Cardinality(S)
  <2> DEFINE f == [u \in S |-> Search!Summarize(u, s)]
  <2>1. f \in [S -> F]
    BY <1>1
  <2>2. \A u, v \in S : f[u] = f[v] => u = v
    BY UuidIs
  <2>3. \A g \in F : \E u \in S : f[u] = g
    BY <1>1
  <2> HIDE DEF f, F
  <2> QED
    BY <1>3, <2>1, <2>2, <2>3, SameCount
<1>5. \A x, y \in F : <<x, y>> \in R <=> Search!Before(x, y, q)
  OBVIOUS
<1>6. \A x, y \in F : Search!Before(x, y, q) <=> Goes(all, q, x.uuid, y.uuid)
  <2> SUFFICES ASSUME NEW x \in F, NEW y \in F PROVE Search!Before(x, y, q) <=> Goes(all, q, x.uuid, y.uuid)
    OBVIOUS
  <2>1. x = Search!Summarize(x.uuid, s) /\ y = Search!Summarize(y.uuid, s)
        /\ x.uuid \in DOMAIN s.games /\ y.uuid \in DOMAIN s.games
    BY <1>1, <1>2
  <2> QED
    BY <2>1, BeforeIs
<1>7. /\ \A u, v \in S : u # v => Goes(all, q, u, v) \/ Goes(all, q, v, u)
      /\ \A u, v \in S : Goes(all, q, u, v) => ~ Goes(all, q, v, u)
      /\ \A u, v, w \in S : Goes(all, q, u, v) /\ Goes(all, q, v, w) => Goes(all, q, u, w)
  <2>1. Known(all, S)
    BY <1>2 DEF Known
  <2> QED
    BY <2>1, GoesInOrder
<1>8. \A x, y \in F : x.uuid = y.uuid => x = y
  BY <1>1
<1> HIDE DEF F, R
<1>9. Orders(R, F)
  <2>1. \A x \in F : x.uuid \in S
    BY <1>1
  <2> QED
    BY <1>5, <1>6, <1>7, <1>8, <2>1 DEF Orders
<1>10. PICK t \in [1 .. Cardinality(F) -> F] : \A i, j \in 1 .. Cardinality(F) : i < j => <<t[i], t[j]>> \in R
  BY <1>4, <1>9, OrderExists
<1>11. t \in SetToSeqs(F) /\ t \in Seq(F) /\ Len(t) = Cardinality(F)
  BY <1>4, <1>9, <1>10, OrderedIs
<1>12. Sort(t)
  <2> SUFFICES ASSUME NEW i \in DOMAIN t, NEW j \in DOMAIN t, i < j PROVE Search!Before(t[i], t[j], q)
    OBVIOUS
  <2>1. t[i] \in F /\ t[j] \in F /\ <<t[i], t[j]>> \in R
    BY <1>10
  <2> QED
    BY <2>1, <1>5
<1>13. L \in SetToSeqs(F) /\ Sort(L)
  <2>1. L = CHOOSE x \in SetToSeqs(F) : Sort(x)
    BY Zenon, SearchSeqsAre DEF Search!Sorted, F
  <2> HIDE DEF Sort
  <2> QED
    BY <2>1, <1>11, <1>12
<1>14. /\ L \in Seq(F) /\ Len(L) = Cardinality(F)
       /\ \A x \in F : \E i \in 1 .. Len(L) : L[i] = x
       /\ \A i, j \in 1 .. Len(L) : i # j => L[i] # L[j]
  BY <1>4, <1>13, SeqsCover
<1>15. \A i \in 1 .. Len(L) : L[i] \in F /\ L[i].uuid \in S /\ L[i] = Search!Summarize(L[i].uuid, s)
  BY <1>1, <1>14
<1>16. \A i, j \in 1 .. Len(L) : i < j => Goes(all, q, L[i].uuid, L[j].uuid)
  <2> SUFFICES ASSUME NEW i \in 1 .. Len(L), NEW j \in 1 .. Len(L), i < j PROVE Goes(all, q, L[i].uuid, L[j].uuid)
    OBVIOUS
  <2>1. i \in DOMAIN L /\ j \in DOMAIN L
    BY <1>14
  <2>2. Search!Before(L[i], L[j], q)
    BY <2>1, <1>13
  <2> QED
    BY <2>2, <1>6, <1>15
<1> HIDE DEF Sort
<1>17. ASSUME NEW i \in 1 .. Len(L) PROVE Rank(all, q, S, L[i].uuid) = i
  <2> DEFINE D == UpTo(all, q, S, L[i].uuid)
             f == [j \in 1 .. i |-> L[j].uuid]
  <2>1. Len(L) \in Nat /\ i \in Nat /\ 1 .. i \subseteq 1 .. Len(L)
    BY <1>14
  <2>2. \A j \in 1 .. i : L[j].uuid \in D
    <3> TAKE j \in 1 .. i
    <3>1. j = i \/ j < i
      BY <2>1
    <3> QED
      BY <3>1, <2>1, <1>15, <1>16 DEF UpTo
  <2>3. f \in [1 .. i -> D]
    BY <2>2
  <2>4. ASSUME NEW j \in 1 .. i, NEW k \in 1 .. i, f[j] = f[k] PROVE j = k
    <3>1. L[j].uuid = L[k].uuid
      BY <2>4
    <3>2. L[j] = L[k]
      BY <3>1, <2>1, <1>8, <1>15
    <3> QED
      BY <3>2, <2>1, <1>14
  <2>5. ASSUME NEW v \in D PROVE \E j \in 1 .. i : f[j] = v
    <3>1. v \in S /\ (v = L[i].uuid \/ Goes(all, q, v, L[i].uuid))
      BY DEF UpTo
    <3>2. PICK j \in 1 .. Len(L) : L[j] = Search!Summarize(v, s)
      BY <3>1, <1>1, <1>14
    <3>3. L[j].uuid = v
      BY <3>2, UuidIs
    <3>4. ~ (i < j)
      <4>1. SUFFICES ASSUME i < j PROVE FALSE
        OBVIOUS
      <4>2. Goes(all, q, L[i].uuid, v) /\ L[i].uuid \in S
        BY <3>3, <4>1, <1>15, <1>16
      <4> QED
        BY <3>1, <4>2, <1>7
    <3>5. j \in 1 .. i
      BY <3>4, <2>1
    <3> QED
      BY <3>3, <3>5
  <2>6. IsFiniteSet(1 .. i) /\ Cardinality(1 .. i) = i
    BY <2>1, FS_Interval
  <2> HIDE DEF f, D
  <2>7. Cardinality(D) = i
    BY <2>3, <2>4, <2>5, <2>6, SameCount
  <2> QED
    BY <2>7 DEF Rank, D
<1>18. ASSUME NEW u \in S PROVE L[Rank(all, q, S, u)].uuid = u
  <2>1. PICK i \in 1 .. Len(L) : L[i] = Search!Summarize(u, s)
    BY <1>1, <1>14
  <2>2. L[i].uuid = u
    BY <2>1, UuidIs
  <2> QED
    BY <2>2, <1>17
<1> QED
  BY <1>3, <1>4, <1>14, <1>15, <1>17, <1>18 DEF F

\* Of two games the one that goes ahead has the lower rank.
LEMMA RankApart ==
  ASSUME NEW q \in Search!Query, NEW all, NEW S, Known(all, S), IsFiniteSet(S), NEW u \in S, NEW v \in S
  PROVE  /\ Goes(all, q, u, v) => Rank(all, q, S, u) < Rank(all, q, S, v)
         /\ Rank(all, q, S, u) < Rank(all, q, S, v) => Goes(all, q, u, v)
         /\ Rank(all, q, S, u) = Rank(all, q, S, v) => u = v
<1>1. /\ \A x, y \in S : x # y => Goes(all, q, x, y) \/ Goes(all, q, y, x)
      /\ \A x, y \in S : Goes(all, q, x, y) => ~ Goes(all, q, y, x)
      /\ \A x, y, w \in S : Goes(all, q, x, y) /\ Goes(all, q, y, w) => Goes(all, q, x, w)
  BY GoesInOrder
<1>2. ASSUME NEW x \in S, NEW y \in S, Goes(all, q, x, y) PROVE Rank(all, q, S, x) < Rank(all, q, S, y)
  <2> DEFINE D == UpTo(all, q, S, x)
             E == UpTo(all, q, S, y)
  <2>1. D \in SUBSET E /\ E \in SUBSET S /\ y \in E /\ y \notin D
    <3>1. \A w \in S : (w = x \/ Goes(all, q, w, x)) => Goes(all, q, w, y)
      BY <1>1, <1>2
    <3>2. ~ (y = x \/ Goes(all, q, y, x))
      BY <1>1, <1>2
    <3> QED
      BY <3>1, <3>2 DEF UpTo
  <2> HIDE DEF D, E
  <2>2. IsFiniteSet(E)
    BY <2>1, FS_Subset
  <2>3. IsFiniteSet(D) /\ Cardinality(D) <= Cardinality(E) /\ (Cardinality(D) = Cardinality(E) => D = E)
    BY <2>1, <2>2, FS_Subset
  <2>4. Cardinality(D) \in Nat /\ Cardinality(E) \in Nat /\ D # E
    BY <2>1, <2>2, <2>3, FS_CardinalityType
  <2>5. Cardinality(D) < Cardinality(E)
    BY <2>3, <2>4
  <2> QED
    BY <2>5 DEF Rank, D, E
<1>3. \A x \in S : Rank(all, q, S, x) \in Nat
  <2>1. Cardinality(S) \in Nat
    BY FS_CardinalityType
  <2> QED
    BY <2>1, RankIs
<1> QED
  BY <1>1, <1>2, <1>3

LEMMA PartIs ==
  ASSUME NEW T, NEW L \in Seq(T), NEW a \in Nat, NEW b \in 0 .. Len(L), NEW t, t = SubSeq(L, a + 1, b)
  PROVE  /\ t \in Seq(T) /\ Len(t) = IF a < b THEN b - a ELSE 0
         /\ \A k \in 1 .. Len(t) : t[k] = L[a + k] /\ a + k \in 1 .. Len(L)
<1>1. CASE a < b
  <2>1. t \in Seq(T) /\ Len(t) = b - a
    BY <1>1
  <2>2. \A k \in 1 .. Len(t) : t[k] = L[a + k] /\ a + k \in 1 .. Len(L)
    BY <1>1, <2>1
  <2> QED
    BY <1>1, <2>1, <2>2
<1>2. CASE ~ (a < b)
  <2>1. t = << >>
    BY <1>2
  <2> QED
    BY <1>2, <2>1
<1> QED
  BY <1>1, <1>2

\* The last game of a page, were it full.
Upto(q, n) == n * q.pageSize

LEMMA PageCounts ==
  ASSUME NEW q \in Search!Query
  PROVE  /\ Upto(q, q.page) \in Nat /\ Upto(q, q.page - 1) \in Nat
         /\ Upto(q, q.page) = Upto(q, q.page - 1) + q.pageSize
         /\ q.page = 1 => Upto(q, q.page - 1) = 0
<1>1. q.page \in Nat \ {0} /\ q.pageSize \in Nat
  BY QueryFields
<1>2. ASSUME NEW m \in Nat \ {0}, NEW z \in Nat
      PROVE m * z \in Nat /\ (m - 1) * z \in Nat /\ m * z = (m - 1) * z + z
  <2>1. PICK k \in Nat : m = k + 1
    <3>1. m - 1 \in Nat /\ m = (m - 1) + 1
      OBVIOUS
    <3> QED
      BY <3>1
  <2>2. (k + 1) * z = k * z + z /\ k * z \in Nat
    OBVIOUS
  <2>3. m - 1 = k
    BY <2>1
  <2> QED
    BY <2>1, <2>2, <2>3
<1>3. q.page = 1 => (q.page - 1) * q.pageSize = 0
  BY <1>1
<1> QED
  BY <1>1, <1>2, <1>3 DEF Upto

\* The games of a page: those whose rank falls on it.
LEMMA PageIs ==
  ASSUME NEW q \in Search!Query, NEW s, NEW all, Reads(s, all), Known(all, DOMAIN s.games), IsFiniteSet(DOMAIN s.games),
         NEW S, S = Hits(s, q), NEW items, items = Search!Page(Search!Sorted(Search!Found(s, q), q), q)
  PROVE  /\ IsFiniteSet(S) /\ Search!Cardinality(Search!Found(s, q)) = Cardinality(S) /\ Cardinality(S) \in Nat
         /\ items \in Seq(Search!Found(s, q)) /\ Len(items) <= Cardinality(S)
         /\ Len(items) = IF Cardinality(S) <= Upto(q, q.page - 1) THEN 0
                         ELSE IF Upto(q, q.page) < Cardinality(S) THEN q.pageSize
                         ELSE Cardinality(S) - Upto(q, q.page - 1)
         /\ \A k \in 1 .. Len(items) :
              /\ items[k].uuid \in S /\ items[k] = Search!Summarize(items[k].uuid, s)
              /\ Rank(all, q, S, items[k].uuid) = Upto(q, q.page - 1) + k
         /\ \A u \in S : Upto(q, q.page - 1) < Rank(all, q, S, u) /\ Rank(all, q, S, u) <= Upto(q, q.page) =>
              \E k \in 1 .. Len(items) : items[k].uuid = u
<1> DEFINE F == Search!Found(s, q)
           L == Search!Sorted(F, q)
           a == Upto(q, q.page - 1)
           z == q.pageSize
           b == IF a + z < Len(L) THEN a + z ELSE Len(L)
<1>1. /\ IsFiniteSet(S) /\ IsFiniteSet(F) /\ Cardinality(F) = Cardinality(S)
      /\ L \in Seq(F) /\ Len(L) = Cardinality(S)
      /\ \A i \in 1 .. Len(L) :
           /\ L[i].uuid \in S /\ L[i] = Search!Summarize(L[i].uuid, s)
           /\ Rank(all, q, S, L[i].uuid) = i
      /\ \A u \in S : L[Rank(all, q, S, u)].uuid = u
  BY SortedIs
<1>2. a \in Nat /\ z \in Nat /\ Upto(q, q.page) = a + z
  BY PageCounts, QueryFields
<1>3. items = SubSeq(L, a + 1, b)
  BY DEF Search!Page, Upto
<1>4. Cardinality(S) \in Nat
  BY <1>1, FS_CardinalityType
<1>5. Search!Cardinality(F) = Cardinality(S)
  BY <1>1, SearchSizeIs
<1>6. \A u \in S : Rank(all, q, S, u) \in 1 .. Len(L)
  BY <1>1, RankIs
<1> HIDE DEF F, L, a, z
<1>7. b \in 0 .. Len(L)
  BY <1>1, <1>2, <1>4
<1>8. b = IF a + z < Len(L) THEN a + z ELSE Len(L)
  OBVIOUS
<1> HIDE DEF b
<1>9. /\ items \in Seq(F) /\ Len(items) = IF a < b THEN b - a ELSE 0
      /\ \A k \in 1 .. Len(items) : items[k] = L[a + k] /\ a + k \in 1 .. Len(L)
  BY <1>1, <1>2, <1>3, <1>7, PartIs
<1>10. Len(items) = IF Cardinality(S) <= a THEN 0 ELSE IF a + z < Cardinality(S) THEN z ELSE Cardinality(S) - a
  BY <1>1, <1>2, <1>4, <1>8, <1>9
<1>11. Len(items) <= Cardinality(S)
  BY <1>2, <1>4, <1>10
<1>12. \A k \in 1 .. Len(items) :
         /\ items[k].uuid \in S /\ items[k] = Search!Summarize(items[k].uuid, s)
         /\ Rank(all, q, S, items[k].uuid) = a + k
  BY <1>1, <1>9
<1>13. ASSUME NEW u \in S, a < Rank(all, q, S, u), Rank(all, q, S, u) <= a + z
       PROVE  \E k \in 1 .. Len(items) : items[k].uuid = u
  <2> DEFINE r == Rank(all, q, S, u)
  <2>1. r \in 1 .. Len(L) /\ L[r].uuid = u
    BY <1>1, <1>6
  <2>2. a < r /\ r <= a + z
    BY <1>13
  <2> HIDE DEF r
  <2>3. r - a \in 1 .. Len(items) /\ a + (r - a) = r
    BY <2>1, <2>2, <1>1, <1>2, <1>4, <1>10
  <2>4. items[r - a] = L[r]
    BY <2>3, <1>9
  <2> QED
    BY <2>1, <2>3, <2>4
<1> QED
  BY <1>1, <1>2, <1>4, <1>5, <1>9, <1>10, <1>11, <1>12, <1>13 DEF F, L, a, z

\* Two of the three filters are one too many.
LEMMA OneFilterIs ==
  ASSUME NEW q, Search!OneFilter(q)
  PROVE  /\ q.opening # None => q.analysis = None /\ q.preferred = None
         /\ q.analysis # None => q.preferred = None
<1> DEFINE filters == {f \in {"opening", "analysis", "preferred"} : q[f] # None}
<1>1. IsFiniteSet({"opening", "analysis", "preferred"})
  <2>1. IsFiniteSet({"opening"})
    BY FS_Singleton
  <2>2. IsFiniteSet({"opening"} \cup {"analysis"})
    BY <2>1, FS_AddElement
  <2>3. IsFiniteSet(({"opening"} \cup {"analysis"}) \cup {"preferred"})
    BY <2>2, FS_AddElement
  <2>4. ({"opening"} \cup {"analysis"}) \cup {"preferred"} = {"opening", "analysis", "preferred"}
    OBVIOUS
  <2> QED
    BY <2>3, <2>4
<1>2. IsFiniteSet(filters) /\ Cardinality(filters) \in Nat
  <2>1. filters \in SUBSET {"opening", "analysis", "preferred"}
    OBVIOUS
  <2> HIDE DEF filters
  <2> QED
    BY <1>1, <2>1, FS_Subset, FS_CardinalityType
<1>3. Cardinality(filters) <= 1
  BY SearchSizeIs DEF Search!OneFilter
<1>4. ASSUME NEW f \in filters, NEW g \in filters PROVE f = g
  <2>1. {f, g} \in SUBSET filters
    OBVIOUS
  <2> HIDE DEF filters
  <2>2. Cardinality({f, g}) <= 1 /\ (f # g => Cardinality({f, g}) = 2)
    <3>1. IsFiniteSet({f, g}) /\ Cardinality({f, g}) <= Cardinality(filters)
      BY <2>1, <1>2, FS_Subset
    <3>2. Cardinality({f}) = 1 /\ IsFiniteSet({f})
      BY FS_Singleton
    <3>3. f # g => Cardinality({f} \cup {g}) = Cardinality({f}) + 1
      BY <3>2, FS_AddElement
    <3>4. {f} \cup {g} = {f, g}
      OBVIOUS
    <3>5. Cardinality({f, g}) \in Nat
      BY <3>1, FS_CardinalityType
    <3>6. Cardinality({f, g}) <= 1
      BY <3>1, <3>5, <1>2, <1>3
    <3> QED
      BY <3>2, <3>3, <3>4, <3>6
  <2> QED
    BY <2>2
<1>5. /\ q.opening # None => "opening" \in filters
      /\ q.analysis # None => "analysis" \in filters
      /\ q.preferred # None => "preferred" \in filters
  OBVIOUS
<1> HIDE DEF filters
<1> QED
  BY <1>4, <1>5

-----------------------------------------------------------------------------
(* What a search has in sight. *)

\* The tables as a search will have read them, if nothing more is written.
View(s, g, r, a, p) ==
  LET all == IF s.next = "games" THEN g ELSE s.games
  IN [games    |-> all,
      lines    |-> IF s.next \in {"games", "occurrences"} THEN [u \in DOMAIN all |-> g[u].line] ELSE s.lines,
      openings |-> IF s.next \in {"games", "occurrences", "openings"}
                     THEN [u \in DOMAIN all |-> Search!OpeningMatches(g[u].line, r)] ELSE s.openings,
      analysed |-> IF s.next = "preferred" THEN s.analysed ELSE a,
      preferred |-> p]

Sight == View(search, games, routes, covered, preferred)
Now == Hits(Snap(games, routes, covered, preferred), query)
Then == Hits(Snap(start.games, start.routes, start.results, start.preferred), query)

Busy == search.next # "idle"
Done == reply.status = "ok"

\* The first n of the games that match, in their order.
Listed(all, q, S, list, n) ==
  /\ Len(list) = n /\ n <= Cardinality(S)
  /\ \A i \in 1 .. n : list[i] \in S /\ Rank(all, q, S, list[i]) = i

\* Of the games that matched all are among those that do, and those not listed come after n of them.
Coming(all, q, first, S, list, n) ==
  \A u \in first : u \in S /\ (u \in Search!ToSet(list) \/ Rank(all, q, S, u) > n)

SearchTyped ==
  /\ Search!TypeOK /\ IsFiniteSet(DOMAIN games) /\ seen \in Seq(Nat)
  /\ search = [next |-> search.next, games |-> search.games, lines |-> search.lines, openings |-> search.openings,
               analysed |-> search.analysed, preferred |-> search.preferred]
  /\ search.next \in {"openings", "analysed", "preferred"} => DOMAIN search.lines = DOMAIN search.games

WalkAsked ==
  /\ Busy => Asked(query) /\ reply.status = None /\ ~ reply.hasNext
  /\ Done => Asked(query) /\ reply.hasNext = (Upto(query, query.page) < reply.total)
  /\ reply.hasNext => Done

WalkBegan ==
  /\ Stocked(start.games, start.routes)
  /\ start.results \subseteq covered /\ start.writes \in Nat /\ start.writes <= writes
  /\ start.writes = writes => start = Search!Database

\* A game in sight is there; while no game is corrected it is what it was.
SightHolds ==
  Busy =>
    /\ DOMAIN Sight.games \subseteq DOMAIN games
    /\ \A u \in DOMAIN Sight.games :
         Content(Sight.games[u]) /\ Sight.lines[u] \in Seq(Places) /\ Sight.lines[u] # << >>
    /\ start.results \subseteq Sight.analysed /\ Sight.analysed \subseteq covered
    /\ ~ moved => \A u \in DOMAIN Sight.games : Sight.games[u] = games[u] /\ Sight.lines[u] = games[u].line

\* Nothing was written since the walk began.
WalkUndisturbed ==
  start.writes = writes =>
    /\ Busy => /\ Sight = Snap(games, routes, covered, preferred)
               /\ Listed(games, query, Now, seen, Upto(query, query.page - 1))
    /\ Done => LET n == Cardinality(Now) IN
               /\ reply.total = n
               /\ Listed(games, query, Now, seen, IF Upto(query, query.page) < n THEN Upto(query, query.page) ELSE n)

\* Games were added only.
WalkGrown ==
  (Busy \/ Done) /\ ~ moved /\ Search!OneFilter(query) =>
    /\ Busy => /\ Hits(Sight, query) \subseteq Now
               /\ Coming(games, query, Then, Hits(Sight, query), seen, Upto(query, query.page - 1))
    /\ Done => \E S \in SUBSET Now :
                 /\ reply.total = Cardinality(S)
                 /\ Coming(games, query, Then, S, seen, Upto(query, query.page))

SearchInv ==
  /\ SearchTyped
  /\ WalkAsked
  /\ WalkBegan
  /\ SightHolds
  /\ WalkUndisturbed
  /\ WalkGrown
  /\ Search!CoverageWasTrue
  /\ Search!DetailIsOneImport

LEMMA StockIs ==
  ASSUME Search!TypeOK
  PROVE  Stocked(games, routes) /\ Known(games, DOMAIN games) /\ DOMAIN games \subseteq Nat
<1>1. \A u \in DOMAIN games : u \in DOMAIN Versions /\ games[u] \in Versions[u]
  BY DEF Search!TypeOK, Search!Uuids
<1>2. routes \in RouteTables
  BY DEF Search!TypeOK
<1> QED
  BY <1>1, <1>2, SearchConstants DEF Stocked, Known, Content

LEMMA NowIs ==
  ASSUME SearchTyped
  PROVE  /\ Now \in SUBSET DOMAIN games /\ IsFiniteSet(Now) /\ Cardinality(Now) \in Nat /\ Known(games, Now)
<1>1. Now \in SUBSET DOMAIN games
  BY DEF Now, Hits, Snap
<1>2. IsFiniteSet(Now)
  BY <1>1, FS_Subset DEF SearchTyped
<1>3. Known(games, DOMAIN games)
  BY StockIs DEF SearchTyped
<1> QED
  BY <1>1, <1>2, <1>3, FS_CardinalityType DEF Known

\* Before any write the walk has begun in the database there is.
LEMMA ThenIs ==
  ASSUME WalkBegan, Asked(query)
  PROVE  Then = Search!Matching(start)
BY MatchingIs DEF WalkBegan, Then

LEMMA SearchInvIsHonest ==
  ASSUME SearchInv
  PROVE  Search!Honest
<1>1. Search!TypeOK /\ Search!CoverageWasTrue /\ Search!DetailIsOneImport
  BY DEF SearchInv, SearchTyped
<1>2. Search!NoGameSkipped
  <2> SUFFICES ASSUME Done, ~ reply.hasNext, ~ moved, Search!OneFilter(query)
               PROVE  Search!Matching(start) \subseteq Search!ToSet(seen)
    BY DEF Search!NoGameSkipped, Search!WalkEnded, Done
  <2>1. Asked(query) /\ reply.hasNext = (Upto(query, query.page) < reply.total)
    BY DEF SearchInv, WalkAsked
  <2>2. PICK S \in SUBSET Now : /\ reply.total = Cardinality(S)
                                /\ Coming(games, query, Then, S, seen, Upto(query, query.page))
    BY DEF SearchInv, WalkGrown
  <2>3. IsFiniteSet(S) /\ Cardinality(S) \in Nat
    BY <2>2, NowIs, FS_Subset, FS_CardinalityType DEF SearchInv
  <2>4. Upto(query, query.page) \in Nat
    BY <2>1, PageCounts DEF Asked
  <2>5. ASSUME NEW u \in Then PROVE u \in Search!ToSet(seen)
    <3>1. u \in S /\ (u \in Search!ToSet(seen) \/ Rank(games, query, S, u) > Upto(query, query.page))
      BY <2>2 DEF Coming
    <3>2. Rank(games, query, S, u) \in 1 .. Cardinality(S)
      BY <2>3, <3>1, RankIs
    <3>3. ~ (Upto(query, query.page) < reply.total)
      BY Zenon, <2>1
    <3>4. ~ (Rank(games, query, S, u) > Upto(query, query.page))
      BY <2>2, <2>3, <2>4, <3>2, <3>3
    <3> QED
      BY <3>1, <3>4
  <2>6. Then = Search!Matching(start)
    BY <2>1, ThenIs DEF SearchInv
  <2> QED
    BY <2>5, <2>6
<1>3. ASSUME Done, Search!Database = start
      PROVE  /\ Asked(query) /\ start.games = games /\ Now = Search!Matching(start)
             /\ reply.total = Cardinality(Now)
             /\ Listed(games, query, Now, seen,
                       IF Upto(query, query.page) < Cardinality(Now) THEN Upto(query, query.page) ELSE Cardinality(Now))
  <2>1. Asked(query)
    BY <1>3 DEF SearchInv, WalkAsked
  <2>2. start.games = games /\ start.routes = routes /\ start.results = covered /\ start.preferred = preferred
        /\ start.writes = writes
    BY <1>3 DEF Search!Database
  <2>3. Now = Then
    BY <2>2 DEF Now, Then
  <2> QED
    BY <1>3, <2>1, <2>2, <2>3, ThenIs DEF SearchInv, WalkUndisturbed
<1>4. DOMAIN seen = 1 .. Len(seen)
  BY DEF SearchInv, SearchTyped
<1>5. Search!PagesPartition
  <2> SUFFICES ASSUME Done, ~ reply.hasNext, Search!Database = start
               PROVE  Search!IsInjective(seen) /\ Search!ToSet(seen) = Search!Matching(start) /\ reply.total = Len(seen)
    BY DEF Search!PagesPartition, Search!WalkEnded, Done
  <2> DEFINE n == Cardinality(Now)
             m == Upto(query, query.page)
  <2>1. n \in Nat /\ IsFiniteSet(Now) /\ Known(games, Now)
    BY NowIs DEF SearchInv
  <2>2. m \in Nat /\ reply.hasNext = (m < reply.total) /\ query \in Search!Query
    BY <1>3, PageCounts DEF SearchInv, WalkAsked, Asked
  <2>3. reply.total = n /\ Listed(games, query, Now, seen, IF m < n THEN m ELSE n)
    BY <1>3
  <2>4. \A u \in Now : Rank(games, query, Now, u) \in 1 .. n
    BY <2>1, RankIs
  <2>5. \A u, v \in Now : Rank(games, query, Now, u) = Rank(games, query, Now, v) => u = v
    BY <2>1, <2>2, RankApart
  <2> HIDE DEF n, m
  <2>6. Listed(games, query, Now, seen, n)
    BY <2>1, <2>2, <2>3
  <2>7. Len(seen) = n /\ \A i \in 1 .. n : seen[i] \in Now /\ Rank(games, query, Now, seen[i]) = i
    BY <2>6 DEF Listed
  <2>8. \A u \in Now : \E i \in 1 .. n : seen[i] = u
    BY <2>4, <2>5, <2>7
  <2>9. Search!ToSet(seen) = Now
    BY <1>4, <2>7, <2>8 DEF Search!ToSet
  <2>10. Search!IsInjective(seen)
    BY <1>4, <2>7 DEF Search!IsInjective
  <2> QED
    BY <1>3, <2>3, <2>7, <2>9, <2>10
<1>6. Search!PagesInOrder
  <2> SUFFICES ASSUME Done, Search!Database = start, NEW i \in DOMAIN seen, NEW j \in DOMAIN seen, i < j
               PROVE  LET g == start.games[seen[i]]
                          h == start.games[seen[j]]
                          inOrder(a, b) == \/ a = b /\ seen[i] < seen[j]
                                           \/ b = None /\ a # None
                                           \/ a # None /\ b # None /\ IF query.descending THEN a > b ELSE a < b
                      IN CASE query.sort = "started_at" -> inOrder(g.started, h.started)
                           [] query.sort = "rating"     -> inOrder(g.rating, h.rating)
                           [] query.sort = "length"     -> inOrder(Len(g.line), Len(h.line))
                           [] OTHER -> IF query.descending THEN seen[i] > seen[j] ELSE seen[i] < seen[j]
    BY DEF Search!PagesInOrder, Done
  <2>1. query \in Search!Query /\ start.games = games
    BY <1>3 DEF Asked
  <2>2. IsFiniteSet(Now) /\ Known(games, Now)
    BY NowIs DEF SearchInv
  <2>3. /\ seen[i] \in Now /\ Rank(games, query, Now, seen[i]) = i
        /\ seen[j] \in Now /\ Rank(games, query, Now, seen[j]) = j
    BY <1>3, <1>4 DEF Listed
  <2>4. Goes(games, query, seen[i], seen[j])
    BY <2>1, <2>2, <2>3, RankApart
  <2>5. seen[i] \in Nat /\ seen[j] \in Nat /\ Content(games[seen[i]]) /\ Content(games[seen[j]])
    BY <2>2, <2>3 DEF Known
  <2>6. query.sort \in {"started_at", "length", "rating", "game_uuid"} /\ None \notin Nat
    BY <2>1, QueryFields, SearchConstants
  <2>7. CASE query.sort = "started_at"
    BY <2>1, <2>4, <2>7 DEF Goes, Key, Search!Precedes
  <2>8. CASE query.sort = "rating"
    BY <2>1, <2>4, <2>8 DEF Goes, Key, Search!Precedes
  <2>9. CASE query.sort = "length"
    <3> DEFINE a == Len(games[seen[i]].line)
               b == Len(games[seen[j]].line)
    <3>1. a \in Nat \ {0} /\ b \in Nat \ {0}
      BY <2>5 DEF Content
    <3>2. Key(games, query, seen[i]) = a - 1 /\ Key(games, query, seen[j]) = b - 1
      BY <2>9 DEF Key
    <3> HIDE DEF a, b
    <3>3. a - 1 # None /\ b - 1 # None /\ a # None /\ b # None
      BY <2>6, <3>1
    <3>4. \/ IF query.descending THEN a - 1 > b - 1 ELSE a - 1 < b - 1
          \/ a - 1 = b - 1 /\ seen[i] < seen[j]
      BY <2>4, <3>2, <3>3 DEF Goes, Search!Precedes
    <3>5. \/ IF query.descending THEN a > b ELSE a < b
          \/ a = b /\ seen[i] < seen[j]
      BY <3>1, <3>4
    <3> QED
      BY <2>1, <2>9, <3>3, <3>5 DEF a, b
  <2>10. CASE query.sort = "game_uuid"
    BY <2>1, <2>4, <2>5, <2>6, <2>10 DEF Goes, Key, Search!Precedes
  <2> QED
    BY <2>6, <2>7, <2>8, <2>9, <2>10
<1> QED
  BY <1>1, <1>2, <1>5, <1>6 DEF Search!Honest

LEMMA SearchBegins == Search!Init => SearchInv
<1> SUFFICES ASSUME Search!Init PROVE SearchInv
  OBVIOUS
<1>1. PICK b \in Begins : /\ games = [u \in b.known |-> CHOOSE v \in Versions[u] : TRUE]
                          /\ covered = b.results /\ preferred = b.preferred
  BY DEF Search!Init
<1>2. b.known \subseteq DOMAIN Versions /\ IsFiniteSet(b.known) /\ b.results \subseteq Places /\ b.preferred \subseteq Places
      /\ \A u \in DOMAIN Versions : Versions[u] # {}
  <2>1. \A c \in Begins : c.known \subseteq DOMAIN Versions /\ IsFiniteSet(c.known)
                          /\ c.results \subseteq Places /\ c.preferred \subseteq Places
    BY SearchHolds, SearchFiniteIs DEF Search!GameSearchAssumption, Search!Uuids
  <2>2. \A u \in DOMAIN Versions : Versions[u] # {}
    BY SearchConstants
  <2> QED
    BY <2>1, <2>2
<1>3. /\ routes \in RouteTables
      /\ search = [next |-> "idle", games |-> << >>, lines |-> << >>, openings |-> << >>, analysed |-> {}, preferred |-> {}]
      /\ reply = [status |-> None, items |-> << >>, total |-> 0, hasNext |-> FALSE] /\ detail = None
      /\ query = None /\ seen = << >> /\ writes = 0 /\ start = Search!Database /\ moved = FALSE
  BY DEF Search!Init, Search!Nothing, Search!NoReply
<1>4. DOMAIN games = b.known /\ \A u \in DOMAIN games : games[u] \in Versions[u]
  BY <1>1, <1>2
<1>5. Search!TypeOK
  <2>1. Search!ToSet(seen) = {} /\ Len(reply.items) = 0 /\ DOMAIN search.lines = {} /\ DOMAIN search.games = {}
    BY <1>3 DEF Search!ToSet
  <2>2. writes \in 0 .. MaxWrites
    BY <1>3, SearchConstants
  <2>3. /\ search.next = "idle" /\ search.games = << >> /\ search.lines = << >>
        /\ reply.status = None /\ reply.total = 0
    BY <1>3
  <2>4. covered \subseteq Places /\ preferred \subseteq Places /\ moved \in BOOLEAN
    BY <1>1, <1>2, <1>3
  <2>5. Len(reply.items) =< reply.total
    BY <2>1, <2>3
  <2> QED
    BY <1>2, <1>3, <1>4, <2>1, <2>2, <2>3, <2>4, <2>5 DEF Search!TypeOK, Search!Uuids
<1>6. SearchTyped
  BY <1>2, <1>3, <1>4, <1>5 DEF SearchTyped
<1>7. ~ Busy /\ ~ Done /\ reply.status # "ok" /\ ~ reply.hasNext
  BY <1>3, SearchConstants DEF Busy, Done
<1>8. WalkAsked /\ SightHolds /\ WalkUndisturbed /\ WalkGrown /\ Search!CoverageWasTrue /\ Search!DetailIsOneImport
  BY <1>3, <1>7 DEF WalkAsked, SightHolds, WalkUndisturbed, WalkGrown, Search!CoverageWasTrue, Search!DetailIsOneImport
<1>9. WalkBegan
  <2>1. start.games = games /\ start.routes = routes /\ start.results = covered /\ start.writes = writes
    BY <1>3 DEF Search!Database
  <2> QED
    BY <1>3, <1>5, <2>1, StockIs DEF WalkBegan
<1> QED
  BY <1>6, <1>8, <1>9 DEF SearchInv

-----------------------------------------------------------------------------
(* The writers. *)

LEMMA ViewIs ==
  ASSUME NEW s, NEW g, NEW r, NEW a, NEW p, NEW v, v = View(s, g, r, a, p)
  PROVE  /\ s.next = "games" => v = Snap(g, r, a, p)
         /\ s.next = "games" => v.games = g
         /\ s.next # "games" => v.games = s.games
         /\ s.next \in {"games", "occurrences"} => \A u \in DOMAIN v.games : v.lines[u] = g[u].line
         /\ s.next \notin {"games", "occurrences"} => v.lines = s.lines
         /\ s.next \in {"games", "occurrences", "openings"} =>
              \A u \in DOMAIN v.games : v.openings[u] = Search!OpeningMatches(g[u].line, r)
         /\ s.next \notin {"games", "occurrences", "openings"} => v.openings = s.openings
         /\ s.next = "preferred" => v.analysed = s.analysed
         /\ s.next # "preferred" => v.analysed = a
         /\ v.preferred = p
<1>1. s.next = "games" => v = Snap(g, r, a, p)
  BY DEF View, Snap
<1>2. /\ v.games = IF s.next = "games" THEN g ELSE s.games
      /\ v.lines = IF s.next \in {"games", "occurrences"} THEN [u \in DOMAIN v.games |-> g[u].line] ELSE s.lines
      /\ v.openings = IF s.next \in {"games", "occurrences", "openings"}
                        THEN [u \in DOMAIN v.games |-> Search!OpeningMatches(g[u].line, r)] ELSE s.openings
      /\ v.analysed = IF s.next = "preferred" THEN s.analysed ELSE a
      /\ v.preferred = p
  BY DEF View
<1> QED
  BY <1>1, <1>2

\* The table that the query filters by has been read.
FilterRead(s, q) ==
  \/ q.opening # None /\ s.next \in {"analysed", "preferred"}
  \/ q.analysis # None /\ s.next = "preferred"

\* If it has, no write changes what matches.
LEMMA SightKept ==
  ASSUME NEW s, NEW q, Search!OneFilter(q), FilterRead(s, q),
         NEW g, NEW r, NEW a, NEW p, NEW h, NEW x, NEW b, NEW o
  PROVE  Hits(View(s, g, r, a, p), q) = Hits(View(s, h, x, b, o), q)
<1> DEFINE v == View(s, g, r, a, p)
           w == View(s, h, x, b, o)
<1>1. s.next \in {"analysed", "preferred"}
  BY DEF FilterRead
<1>2. v.games = s.games /\ v.lines = s.lines /\ v.openings = s.openings
      /\ (s.next = "preferred" => v.analysed = s.analysed)
  BY <1>1, ViewIs
<1>3. w.games = s.games /\ w.lines = s.lines /\ w.openings = s.openings
      /\ (s.next = "preferred" => w.analysed = s.analysed)
  BY <1>1, ViewIs
<1>4. (q.analysis # None => s.next = "preferred") /\ q.preferred = None
  BY OneFilterIs DEF FilterRead
<1> HIDE DEF v, w
<1>5. \A u : Search!Matches(Search!Summarize(u, v), q) <=> Search!Matches(Search!Summarize(u, w), q)
  BY <1>2, <1>3, <1>4, MatchAgrees
<1>6. Hits(v, q) = Hits(w, q)
  BY <1>2, <1>3, <1>5 DEF Hits
<1> QED
  BY <1>6 DEF v, w

\* If not, what matches in sight is what matches now.
LEMMA SightMatches ==
  ASSUME NEW s, NEW q, Search!OneFilter(q), ~ FilterRead(s, q),
         NEW g, NEW r, NEW a, NEW p, NEW v, v = View(s, g, r, a, p),
         NEW u \in DOMAIN v.games, u \in DOMAIN g, v.games[u] = g[u], v.lines[u] = g[u].line,
         s.next \in {"games", "occurrences", "openings", "analysed", "preferred"}
  PROVE  u \in Hits(v, q) <=> u \in Hits(Snap(g, r, a, p), q)
<1> DEFINE t == Snap(g, r, a, p)
<1>1. /\ t.games = g /\ t.lines[u] = g[u].line /\ t.openings[u] = Search!OpeningMatches(g[u].line, r)
      /\ t.analysed = a /\ t.preferred = p
  BY DEF Snap
<1>2. q.opening # None => v.openings[u] = t.openings[u]
  BY <1>1, ViewIs DEF FilterRead
<1>3. q.analysis # None => v.analysed = t.analysed
  BY <1>1, ViewIs DEF FilterRead
<1>4. v.preferred = t.preferred
  BY <1>1, ViewIs
<1> HIDE DEF t
<1>5. Search!Matches(Search!Summarize(u, v), q) <=> Search!Matches(Search!Summarize(u, t), q)
  BY <1>1, <1>2, <1>3, <1>4, MatchAgrees
<1>6. u \in Hits(v, q) <=> u \in Hits(t, q)
  BY <1>1, <1>5 DEF Hits
<1> QED
  BY <1>6 DEF t

\* More games that match come in between only.
LEMMA ComingGrows ==
  ASSUME NEW all, NEW other, NEW q, NEW first, NEW T, IsFiniteSet(T), NEW S \in SUBSET T, NEW list, NEW n \in Nat,
         \A v \in S : other[v] = all[v], Coming(all, q, first, S, list, n)
  PROVE  Coming(other, q, first, T, list, n)
<1> SUFFICES ASSUME NEW u \in first
             PROVE  u \in T /\ (u \in Search!ToSet(list) \/ Rank(other, q, T, u) > n)
  BY DEF Coming
<1>1. u \in S /\ (u \in Search!ToSet(list) \/ Rank(all, q, S, u) > n)
  BY DEF Coming
<1>2. Rank(other, q, S, u) = Rank(all, q, S, u)
  BY <1>1, RankStays
<1>3. Rank(other, q, S, u) \in Nat /\ Rank(other, q, T, u) \in Nat /\ Rank(other, q, S, u) <= Rank(other, q, T, u)
  BY RankGrows
<1> QED
  BY <1>1, <1>2, <1>3

\* What a transaction does to the tables.
TablesGrow ==
  /\ DOMAIN games \subseteq DOMAIN games' /\ IsFiniteSet(DOMAIN games') /\ DOMAIN games' \subseteq DOMAIN Versions
  /\ \A u \in DOMAIN games' : games'[u] \in Versions[u]
  /\ routes' \in RouteTables /\ covered \subseteq covered' /\ covered' \subseteq Places /\ preferred' \subseteq Places

LEMMA WritersGrow ==
  ASSUME SearchTyped, Search!Write
  PROVE  TablesGrow /\ Search!Commit
<1>1. /\ DOMAIN games \subseteq DOMAIN Versions /\ \A u \in DOMAIN games : games[u] \in Versions[u]
      /\ routes \in RouteTables /\ covered \subseteq Places /\ preferred \subseteq Places /\ IsFiniteSet(DOMAIN games)
  BY DEF SearchTyped, Search!TypeOK, Search!Uuids
<1>2. ASSUME NEW u \in Search!Uuids, NEW v \in Versions[u], Search!Import(u, v) PROVE TablesGrow /\ Search!Commit
  <2>1. /\ games' = [x \in DOMAIN games \cup {u} |-> IF x = u THEN v ELSE games[x]]
        /\ routes' = routes /\ covered' = covered /\ preferred' = preferred /\ Search!Commit
    BY <1>2 DEF Search!Import
  <2>2. DOMAIN games' = DOMAIN games \cup {u} /\ u \in DOMAIN Versions
    BY <2>1 DEF Search!Uuids
  <2>3. IsFiniteSet(DOMAIN games \cup {u})
    BY <1>1, FS_AddElement
  <2>4. \A x \in DOMAIN games' : games'[x] \in Versions[x]
    BY <1>1, <2>1
  <2> QED
    BY <1>1, <2>1, <2>2, <2>3, <2>4 DEF TablesGrow
<1>3. ASSUME NEW table \in RouteTables, Search!Publish(table) PROVE TablesGrow /\ Search!Commit
  BY <1>1, <1>3 DEF Search!Publish, TablesGrow
<1>4. ASSUME NEW p \in Places, Search!StoreResult(p) PROVE TablesGrow /\ Search!Commit
  BY <1>1, <1>4 DEF Search!StoreResult, TablesGrow
<1>5. ASSUME NEW p \in Places, Search!EditPreferred(p) PROVE TablesGrow /\ Search!Commit
  BY <1>1, <1>5 DEF Search!EditPreferred, TablesGrow
<1> QED
  BY <1>2, <1>3, <1>4, <1>5 DEF Search!Write

LEMMA CommitIs ==
  ASSUME Search!Commit, moved \in BOOLEAN
  PROVE  /\ writes < MaxWrites /\ writes' = writes + 1 /\ moved' \in BOOLEAN
         /\ UNCHANGED <<search, reply, detail, query, seen, start>>
         /\ ~ moved' => ~ moved
         /\ ~ moved' /\ query # None => (\A u \in DOMAIN games : games'[u] = games[u]) /\ Now \subseteq Now'
<1> DEFINE db == [games |-> games', routes |-> routes', results |-> covered', preferred |-> preferred']
           gone == ~ {g.uuid : g \in Search!Found(Search!Snapshot(Search!Database), query)}
                       \subseteq {g.uuid : g \in Search!Found(Search!Snapshot(db), query)}
           edited == \E u \in DOMAIN games : games'[u] # games[u]
<1>1. /\ writes < MaxWrites /\ writes' = writes + 1 /\ UNCHANGED <<search, reply, detail, query, seen, start>>
      /\ moved' = (moved \/ (query # None /\ (edited \/ gone)))
  BY DEF Search!Commit, Search!Walking
<1>2. Search!Snapshot(Search!Database) = Snap(games, routes, covered, preferred)
  <2>1. LET d == Search!Database IN d.games = games /\ d.routes = routes /\ d.results = covered /\ d.preferred = preferred
    BY DEF Search!Database
  <2> QED
    BY <2>1, SnapshotIs
<1>3. Search!Snapshot(db) = Snap(games', routes', covered', preferred')
  <2>1. db.games = games' /\ db.routes = routes' /\ db.results = covered' /\ db.preferred = preferred'
    OBVIOUS
  <2> HIDE DEF db
  <2> QED
    BY <2>1, SnapshotIs
<1> HIDE DEF db
<1>4. {g.uuid : g \in Search!Found(Search!Snapshot(Search!Database), query)} = Now
  BY <1>2, FoundAre DEF Now
<1>5. {g.uuid : g \in Search!Found(Search!Snapshot(db), query)} = Now'
  BY <1>1, <1>3, FoundAre DEF Now
<1>6. gone <=> ~ (Now \subseteq Now')
  BY <1>4, <1>5
<1>7. edited \in BOOLEAN /\ gone \in BOOLEAN
  OBVIOUS
<1>8. ~ edited => \A u \in DOMAIN games : games'[u] = games[u]
  OBVIOUS
<1> HIDE DEF edited, gone
<1>9. moved' \in BOOLEAN /\ (~ moved' => ~ moved) /\ (~ moved' /\ query # None => ~ edited /\ ~ gone)
  BY Zenon, <1>1, <1>7
<1> QED
  BY <1>1, <1>6, <1>8, <1>9

LEMMA SearchCommitKeeps ==
  ASSUME SearchInv, TablesGrow, Search!Commit
  PROVE  SearchInv'
<1>1. /\ writes < MaxWrites /\ writes' = writes + 1 /\ moved' \in BOOLEAN
      /\ search' = search /\ reply' = reply /\ detail' = detail /\ query' = query /\ seen' = seen /\ start' = start
      /\ ~ moved' => ~ moved
      /\ ~ moved' /\ query # None => (\A u \in DOMAIN games : games'[u] = games[u]) /\ Now \subseteq Now'
  <2>1. moved \in BOOLEAN
    BY DEF SearchInv, SearchTyped, Search!TypeOK
  <2> QED
    BY <2>1, CommitIs
<1>2. /\ DOMAIN games \subseteq DOMAIN games' /\ IsFiniteSet(DOMAIN games') /\ DOMAIN games' \subseteq DOMAIN Versions
      /\ \A u \in DOMAIN games' : games'[u] \in Versions[u]
      /\ routes' \in RouteTables /\ covered \subseteq covered' /\ covered' \subseteq Places /\ preferred' \subseteq Places
  BY DEF TablesGrow
<1>3. writes \in 0 .. MaxWrites /\ writes \in Nat /\ writes' \in 0 .. MaxWrites
  BY <1>1, SearchConstants DEF SearchInv, SearchTyped, Search!TypeOK
<1>4. /\ search.next \in {"idle", "games", "occurrences", "openings", "analysed", "preferred"}
      /\ DOMAIN search.games \subseteq DOMAIN games
  BY DEF SearchInv, SearchTyped, Search!TypeOK
<1>5. Busy' = Busy /\ Done' = Done
  BY <1>1 DEF Busy, Done
<1>6. SearchTyped'
  <2>1. Search!TypeOK'
    <3>1. /\ search.next \in {"idle", "games", "occurrences", "openings", "analysed", "preferred"}
          /\ DOMAIN search.lines \subseteq DOMAIN search.games /\ DOMAIN search.games \subseteq DOMAIN games
          /\ reply.status \in {None, "ok", "invalid", "unavailable", "outage"} /\ Len(reply.items) =< reply.total
          /\ Search!ToSet(seen) \subseteq DOMAIN games
      BY DEF SearchInv, SearchTyped, Search!TypeOK
    <3>2. Search!ToSet(seen)' = Search!ToSet(seen)
      BY <1>1 DEF Search!ToSet
    <3> QED
      BY <1>1, <1>2, <1>3, <3>1, <3>2 DEF Search!TypeOK, Search!Uuids
  <2> QED
    BY <1>1, <1>2, <2>1 DEF SearchInv, SearchTyped
<1>7. WalkAsked'
  BY <1>1, <1>5 DEF SearchInv, WalkAsked
<1>8. WalkBegan'
  <2>1. start.writes \in Nat /\ start.writes <= writes /\ start.results \subseteq covered /\ Stocked(start.games, start.routes)
    BY DEF SearchInv, WalkBegan
  <2>2. start.writes <= writes' /\ start.writes # writes'
    BY <1>1, <1>3, <2>1
  <2> QED
    BY <1>1, <1>2, <2>1, <2>2 DEF WalkBegan
<1>9. WalkUndisturbed'
  <2>1. start'.writes # writes'
    BY <1>1, <1>3 DEF SearchInv, WalkBegan
  <2> QED
    BY <2>1 DEF WalkUndisturbed
<1>10. Search!CoverageWasTrue'
  <2>1. reply' = reply /\ start' = start /\ covered \subseteq covered' /\ Search!CoverageWasTrue
    BY <1>1, <1>2 DEF SearchInv
  <2> QED
    BY <2>1 DEF Search!CoverageWasTrue, Search!ToSet
<1>11. Search!DetailIsOneImport'
  BY <1>1 DEF SearchInv, Search!DetailIsOneImport
<1> DEFINE v == Sight
           w == Sight'
<1>12. v = View(search, games, routes, covered, preferred) /\ w = View(search, games', routes', covered', preferred')
  BY <1>1 DEF Sight
<1>13. /\ \A u \in DOMAIN games : Content(games[u])
       /\ \A u \in DOMAIN games' : Content(games'[u])
  <2>1. \A u \in DOMAIN games : games[u] \in Versions[u] /\ u \in DOMAIN Versions
    BY DEF SearchInv, SearchTyped, Search!TypeOK, Search!Uuids
  <2> QED
    BY <1>2, <2>1, SearchConstants DEF Content
<1>14. /\ search.next = "games" => v.games = games /\ w.games = games'
       /\ search.next # "games" => v.games = search.games /\ w.games = search.games
       /\ search.next \in {"games", "occurrences"} =>
            (\A u \in DOMAIN v.games : v.lines[u] = games[u].line) /\ (\A u \in DOMAIN w.games : w.lines[u] = games'[u].line)
       /\ search.next \notin {"games", "occurrences"} => v.lines = search.lines /\ w.lines = search.lines
       /\ search.next = "preferred" => v.analysed = search.analysed /\ w.analysed = search.analysed
       /\ search.next # "preferred" => v.analysed = covered /\ w.analysed = covered'
  BY <1>12, ViewIs
<1>15. Busy => /\ DOMAIN v.games \subseteq DOMAIN games
               /\ \A u \in DOMAIN v.games : Content(v.games[u]) /\ v.lines[u] \in Seq(Places) /\ v.lines[u] # << >>
               /\ start.results \subseteq v.analysed /\ v.analysed \subseteq covered
               /\ ~ moved => \A u \in DOMAIN v.games : v.games[u] = games[u] /\ v.lines[u] = games[u].line
  BY DEF SearchInv, SightHolds
<1>16. Busy \/ Done => query # None
  BY SearchConstants DEF SearchInv, WalkAsked, Asked
<1> HIDE DEF v, w
<1>17. Busy => /\ DOMAIN w.games \subseteq DOMAIN games'
               /\ \A u \in DOMAIN w.games : Content(w.games[u]) /\ w.lines[u] \in Seq(Places) /\ w.lines[u] # << >>
               /\ start.results \subseteq w.analysed /\ w.analysed \subseteq covered'
               /\ ~ moved' => \A u \in DOMAIN w.games : w.games[u] = games'[u] /\ w.lines[u] = games'[u].line
  <2> SUFFICES ASSUME Busy
        PROVE  /\ DOMAIN w.games \subseteq DOMAIN games'
               /\ \A u \in DOMAIN w.games : Content(w.games[u]) /\ w.lines[u] \in Seq(Places) /\ w.lines[u] # << >>
               /\ start.results \subseteq w.analysed /\ w.analysed \subseteq covered'
               /\ ~ moved' => \A u \in DOMAIN w.games : w.games[u] = games'[u] /\ w.lines[u] = games'[u].line
    OBVIOUS
  <2>1. start.results \subseteq covered
    BY DEF SearchInv, WalkBegan
  <2>2. start.results \subseteq w.analysed /\ w.analysed \subseteq covered'
    BY <1>2, <1>14, <1>15, <2>1
  <2>3. DOMAIN w.games \subseteq DOMAIN games'
    BY <1>2, <1>4, <1>14
  <2>4. ASSUME NEW u \in DOMAIN w.games
        PROVE  Content(w.games[u]) /\ w.lines[u] \in Seq(Places) /\ w.lines[u] # << >>
    <3>1. CASE search.next = "games"
      BY <1>13, <1>14, <3>1 DEF Content
    <3>2. CASE search.next = "occurrences"
      <4>1. Content(w.games[u]) /\ u \in DOMAIN games' /\ w.lines[u] = games'[u].line
        BY <1>14, <1>15, <2>3, <3>2
      <4> QED
        BY <4>1, <1>13 DEF Content
    <3>3. CASE search.next \notin {"games", "occurrences"}
      BY <1>14, <1>15, <3>3
    <3> QED
      BY <3>1, <3>2, <3>3
  <2>5. ASSUME ~ moved', NEW u \in DOMAIN w.games
        PROVE  w.games[u] = games'[u] /\ w.lines[u] = games'[u].line
    <3>1. ~ moved /\ \A x \in DOMAIN games : games'[x] = games[x]
      BY <1>1, <1>16, <2>5
    <3>2. CASE search.next = "games"
      BY <1>14, <3>2
    <3>3. CASE search.next # "games"
      <4>1. u \in DOMAIN v.games /\ w.games[u] = v.games[u] /\ v.games[u] = games[u] /\ v.lines[u] = games[u].line
            /\ games'[u] = games[u]
        BY <1>14, <1>15, <2>5, <3>1, <3>3
      <4>2. w.lines[u] = games'[u].line
        BY <4>1, <1>14
      <4> QED
        BY <4>1, <4>2
    <3> QED
      BY <3>2, <3>3
  <2> QED
    BY <2>2, <2>3, <2>4, <2>5
<1>18. SightHolds'
  BY <1>1, <1>5, <1>17 DEF SightHolds, w
<1>19. WalkGrown'
  <2> SUFFICES ASSUME (Busy \/ Done), ~ moved', Search!OneFilter(query)
               PROVE  /\ Busy => /\ Hits(w, query) \subseteq Now'
                                 /\ Coming(games', query, Then, Hits(w, query), seen, Upto(query, query.page - 1))
                      /\ Done => \E S \in SUBSET Now' :
                                   /\ reply.total = Cardinality(S)
                                   /\ Coming(games', query, Then, S, seen, Upto(query, query.page))
    <3>1. Then' = Then
      BY <1>1 DEF Then
    <3>2. Search!OneFilter(query)' <=> Search!OneFilter(query)
      BY <1>1
    <3> QED
      BY <1>1, <1>5, <3>1, <3>2 DEF WalkGrown, w
  <2>1. ~ moved /\ (\A u \in DOMAIN games : games'[u] = games[u]) /\ Now \subseteq Now'
    BY <1>1, <1>16
  <2>2. /\ Busy => /\ Hits(v, query) \subseteq Now
                   /\ Coming(games, query, Then, Hits(v, query), seen, Upto(query, query.page - 1))
        /\ Done => \E S \in SUBSET Now : /\ reply.total = Cardinality(S)
                                         /\ Coming(games, query, Then, S, seen, Upto(query, query.page))
    BY <2>1 DEF SearchInv, WalkGrown, v
  <2>3. Now \in SUBSET DOMAIN games /\ IsFiniteSet(Now)
    BY NowIs DEF SearchInv
  <2>4. query \in Search!Query /\ Upto(query, query.page) \in Nat /\ Upto(query, query.page - 1) \in Nat
    BY PageCounts DEF SearchInv, WalkAsked, Asked
  <2>5. ASSUME Done
        PROVE  \E S \in SUBSET Now' : reply.total = Cardinality(S) /\ Coming(games', query, Then, S, seen, Upto(query, query.page))
    <3>1. PICK S \in SUBSET Now : reply.total = Cardinality(S) /\ Coming(games, query, Then, S, seen, Upto(query, query.page))
      BY <2>2, <2>5
    <3>2. IsFiniteSet(S) /\ S \in SUBSET S /\ \A u \in S : games'[u] = games[u]
      BY <2>1, <2>3, <3>1, FS_Subset
    <3>3. Coming(games', query, Then, S, seen, Upto(query, query.page))
      BY <2>4, <3>1, <3>2, ComingGrows
    <3> QED
      BY <2>1, <3>1, <3>3
  <2>6. ASSUME Busy
        PROVE  /\ Hits(w, query) \subseteq Now'
               /\ Coming(games', query, Then, Hits(w, query), seen, Upto(query, query.page - 1))
    <3>1. search.next \in {"games", "occurrences", "openings", "analysed", "preferred"}
      BY <1>4, <2>6 DEF Busy
    <3>2. Hits(w, query) \subseteq Now' /\ Hits(v, query) \subseteq Hits(w, query)
      <4>1. CASE FilterRead(search, query)
        BY <1>12, <2>1, <2>2, <2>6, <4>1, SightKept
      <4>2. CASE ~ FilterRead(search, query)
        <5>1. \A u \in DOMAIN v.games : u \in Hits(v, query) <=> u \in Now
          BY <1>12, <1>15, <2>1, <2>6, <3>1, <4>2, SightMatches DEF Now
        <5>2. \A u \in DOMAIN w.games : u \in Hits(w, query) <=> u \in Now'
          <6>1. Now' = Hits(Snap(games', routes', covered', preferred'), query)
            BY <1>1 DEF Now
          <6>2. ASSUME NEW u \in DOMAIN w.games PROVE u \in Hits(w, query) <=> u \in Now'
            <7>1. u \in DOMAIN games' /\ w.games[u] = games'[u] /\ w.lines[u] = games'[u].line
              BY <1>17, <2>6
            <7> QED
              BY <1>12, <3>1, <4>2, <6>1, <7>1, SightMatches
          <6> QED
            BY <6>2
        <5>3. Hits(v, query) \subseteq DOMAIN v.games /\ Hits(w, query) \subseteq DOMAIN w.games
          BY DEF Hits
        <5>4. DOMAIN v.games \subseteq DOMAIN w.games
          BY <1>2, <1>14
        <5> QED
          BY <2>1, <5>1, <5>2, <5>3, <5>4
      <4> QED
        BY <4>1, <4>2
    <3>3. IsFiniteSet(Hits(w, query))
      <4>1. Hits(w, query) \in SUBSET DOMAIN games'
        BY <1>17, <2>6 DEF Hits
      <4> QED
        BY <4>1, <1>2, FS_Subset
    <3>4. \A u \in Hits(v, query) : games'[u] = games[u]
      BY <2>1, <2>2, <2>3, <2>6
    <3>5. Coming(games', query, Then, Hits(w, query), seen, Upto(query, query.page - 1))
      BY <2>2, <2>4, <2>6, <3>2, <3>3, <3>4, ComingGrows
    <3> QED
      BY <3>2, <3>5
  <2> QED
    BY <2>5, <2>6
<1> QED
  BY <1>6, <1>7, <1>8, <1>9, <1>10, <1>11, <1>18, <1>19 DEF SearchInv

LEMMA SearchWritersKeep ==
  ASSUME SearchInv, Search!Write
  PROVE  SearchInv'
BY WritersGrow, SearchCommitKeeps DEF SearchInv

-----------------------------------------------------------------------------
(* The searches. *)

LEMMA PageBegins ==
  ASSUME SearchInv, search' = [Search!Nothing EXCEPT !.next = "games"], reply' = Search!NoReply,
         UNCHANGED <<games, routes, covered, preferred, detail, writes>>,
         Asked(query'), WalkBegan', seen' \in Seq(Nat), Search!ToSet(seen') \subseteq DOMAIN games, moved' \in BOOLEAN
  PROVE  /\ SearchTyped' /\ WalkAsked' /\ SightHolds' /\ Search!CoverageWasTrue' /\ Search!DetailIsOneImport'
         /\ Busy' /\ ~ Done' /\ Sight' = Snap(games, routes, covered, preferred)
<1>1. search' = [next |-> "games", games |-> << >>, lines |-> << >>, openings |-> << >>, analysed |-> {}, preferred |-> {}]
  BY DEF Search!Nothing
<1>2. reply' = [status |-> None, items |-> << >>, total |-> 0, hasNext |-> FALSE]
  BY DEF Search!NoReply
<1>3. search'.next = "games" /\ search'.games = << >> /\ search'.lines = << >>
  BY <1>1
<1>4. reply'.status = None /\ reply'.items = << >> /\ reply'.total = 0 /\ ~ reply'.hasNext /\ None # "ok"
  BY <1>2, SearchConstants
<1>5. /\ DOMAIN games \subseteq Search!Uuids /\ \A u \in DOMAIN games : games[u] \in Versions[u]
      /\ routes \in RouteTables /\ covered \subseteq Places /\ preferred \subseteq Places /\ writes \in 0 .. MaxWrites
      /\ IsFiniteSet(DOMAIN games)
  BY DEF SearchInv, SearchTyped, Search!TypeOK
<1>6. Search!TypeOK'
  <2>1. Search!ToSet(seen)' = Search!ToSet(seen')
    BY DEF Search!ToSet
  <2>2. DOMAIN search'.lines = {} /\ DOMAIN search'.games = {} /\ Len(reply'.items) =< reply'.total
    BY <1>3, <1>4
  <2> QED
    BY <1>3, <1>4, <1>5, <2>1, <2>2 DEF Search!TypeOK, Search!Uuids
<1>7. SearchTyped'
  BY <1>1, <1>3, <1>5, <1>6 DEF SearchTyped
<1>8. Busy' /\ ~ Done'
  BY <1>3, <1>4 DEF Busy, Done
<1>9. WalkAsked'
  BY <1>4, <1>8 DEF WalkAsked
<1>10. Sight' = Snap(games, routes, covered, preferred)
  <2>1. Sight' = View(search', games, routes, covered, preferred)
    BY DEF Sight
  <2>2. View(search', games, routes, covered, preferred) = Snap(games, routes, covered, preferred)
    BY <1>3 DEF View, Snap
  <2> QED
    BY <2>1, <2>2
<1>11. SightHolds'
  <2>1. \A u \in DOMAIN games : Content(games[u])
    BY StockIs DEF SearchInv, SearchTyped, Stocked
  <2>2. /\ Sight'.games = games /\ \A u \in DOMAIN games : Sight'.lines[u] = games[u].line
        /\ Sight'.analysed = covered
    BY <1>10 DEF Snap
  <2>3. start'.results \subseteq covered
    BY DEF WalkBegan
  <2> HIDE DEF Sight
  <2> QED
    BY <2>1, <2>2, <2>3 DEF SightHolds, Content
<1>12. Search!CoverageWasTrue' /\ Search!DetailIsOneImport'
  BY <1>4 DEF SearchInv, Search!CoverageWasTrue, Search!DetailIsOneImport
<1> QED
  BY <1>7, <1>8, <1>9, <1>10, <1>11, <1>12

LEMMA SearchFails ==
  ASSUME SearchInv, NEW status \in {"invalid", "unavailable", "outage"}, Search!Respond(status),
         UNCHANGED <<games, routes, covered, preferred, detail, writes>>,
         WalkBegan', seen' \in Seq(Nat), Search!ToSet(seen') \subseteq DOMAIN games, moved' \in BOOLEAN
  PROVE  SearchInv'
<1>1. search' = [next |-> "idle", games |-> << >>, lines |-> << >>, openings |-> << >>, analysed |-> {}, preferred |-> {}]
  BY DEF Search!Respond, Search!Nothing
<1>2. reply' = [status |-> status, items |-> << >>, total |-> 0, hasNext |-> FALSE]
  BY DEF Search!Respond, Search!NoReply
<1>3. search'.next = "idle" /\ search'.games = << >> /\ search'.lines = << >>
  BY <1>1
<1>4. reply'.status = status /\ reply'.items = << >> /\ reply'.total = 0 /\ ~ reply'.hasNext /\ reply'.status # "ok"
  BY <1>2
<1>5. /\ DOMAIN games \subseteq Search!Uuids /\ \A u \in DOMAIN games : games[u] \in Versions[u]
      /\ routes \in RouteTables /\ covered \subseteq Places /\ preferred \subseteq Places /\ writes \in 0 .. MaxWrites
      /\ IsFiniteSet(DOMAIN games)
  BY DEF SearchInv, SearchTyped, Search!TypeOK
<1>6. Search!TypeOK'
  <2>1. Search!ToSet(seen)' = Search!ToSet(seen')
    BY DEF Search!ToSet
  <2>2. DOMAIN search'.lines = {} /\ DOMAIN search'.games = {} /\ Len(reply'.items) =< reply'.total
    BY <1>3, <1>4
  <2> QED
    BY <1>3, <1>4, <1>5, <2>1, <2>2 DEF Search!TypeOK, Search!Uuids
<1>7. SearchTyped'
  BY <1>1, <1>3, <1>5, <1>6 DEF SearchTyped
<1>8. ~ Busy' /\ ~ Done'
  BY <1>3, <1>4 DEF Busy, Done
<1>9. WalkAsked' /\ SightHolds' /\ WalkUndisturbed' /\ WalkGrown'
  BY <1>4, <1>8 DEF WalkAsked, SightHolds, WalkUndisturbed, WalkGrown
<1>10. Search!CoverageWasTrue' /\ Search!DetailIsOneImport'
  BY <1>4 DEF SearchInv, Search!CoverageWasTrue, Search!DetailIsOneImport
<1> QED
  BY <1>7, <1>9, <1>10 DEF SearchInv

\* A read changes nothing of what is in sight.
LEMMA SightStays ==
  ASSUME SearchInv, Busy, Busy', SearchTyped', Sight' = Sight,
         UNCHANGED <<games, routes, covered, preferred, reply, detail, query, seen, start, moved, writes>>
  PROVE  SearchInv'
<1>1. /\ games' = games /\ routes' = routes /\ covered' = covered /\ preferred' = preferred /\ reply' = reply
      /\ detail' = detail /\ query' = query /\ seen' = seen /\ start' = start /\ moved' = moved /\ writes' = writes
      /\ Done' = Done
  BY DEF Done
<1>2. Now' = Now /\ Then' = Then
  BY <1>1 DEF Now, Then
<1>3. WalkAsked'
  BY <1>1 DEF SearchInv, WalkAsked
<1>4. WalkBegan'
  BY <1>1 DEF SearchInv, WalkBegan, Search!Database
<1>5. SightHolds'
  BY <1>1 DEF SearchInv, SightHolds
<1>6. WalkUndisturbed'
  BY <1>1, <1>2 DEF SearchInv, WalkUndisturbed
<1>7. WalkGrown'
  <2>1. Search!OneFilter(query)' <=> Search!OneFilter(query)
    BY <1>1
  <2> QED
    BY <1>1, <1>2, <2>1 DEF SearchInv, WalkGrown
<1>8. Search!CoverageWasTrue' /\ Search!DetailIsOneImport'
  BY <1>1 DEF SearchInv, Search!CoverageWasTrue, Search!DetailIsOneImport, Search!ToSet
<1> QED
  BY <1>3, <1>4, <1>5, <1>6, <1>7, <1>8 DEF SearchInv

LEMMA AskKeeps ==
  ASSUME SearchInv, NEW q \in Queries, Search!Ask(q)
  PROVE  SearchInv'
<1>1. /\ query' = q /\ seen' = << >> /\ start' = Search!Database /\ moved' = FALSE
      /\ UNCHANGED <<games, routes, covered, preferred, detail, writes>>
      /\ IF Search!Valid(q) THEN search' = [Search!Nothing EXCEPT !.next = "games"] /\ reply' = Search!NoReply
                            ELSE Search!Respond("invalid")
  BY DEF Search!Ask, Search!database
<1>2. q \in Search!Query /\ q.page = 1
  BY SearchConstants
<1>3. writes \in Nat
  BY SearchConstants DEF SearchInv, SearchTyped, Search!TypeOK
<1>4. WalkBegan'
  <2>1. /\ start'.games = games /\ start'.routes = routes /\ start'.results = covered /\ start'.preferred = preferred
        /\ start'.writes = writes /\ start' = Search!Database'
    BY <1>1 DEF Search!Database
  <2>2. Stocked(games, routes)
    BY StockIs DEF SearchInv, SearchTyped
  <2> QED
    BY <1>1, <1>3, <2>1, <2>2 DEF WalkBegan
<1>5. seen' \in Seq(Nat) /\ Search!ToSet(seen') \subseteq DOMAIN games /\ moved' \in BOOLEAN
  <2>1. seen' = << >> /\ moved' = FALSE
    BY <1>1
  <2>3. seen' \in Seq(Nat)
    BY <2>1
  <2>4. DOMAIN seen' = {}
    BY <2>1
  <2>2. Search!ToSet(seen') = {}
    BY <2>4 DEF Search!ToSet
  <2> QED
    BY <2>1, <2>2, <2>3
<1>6. CASE ~ Search!Valid(q)
  BY <1>1, <1>4, <1>5, <1>6, SearchFails
<1>7. CASE Search!Valid(q)
  <2>1. Asked(query')
    BY <1>1, <1>2, <1>7 DEF Asked
  <2>2. /\ SearchTyped' /\ WalkAsked' /\ SightHolds' /\ Search!CoverageWasTrue' /\ Search!DetailIsOneImport'
        /\ Busy' /\ ~ Done' /\ Sight' = Snap(games, routes, covered, preferred)
    BY <1>1, <1>4, <1>5, <1>7, <2>1, PageBegins
  <2>3. Now' = Hits(Snap(games, routes, covered, preferred), q) /\ Then' = Now'
    BY <1>1 DEF Now, Then, Search!Database
  <2>4. Upto(query', query'.page - 1) = 0
    BY <1>1, <1>2, PageCounts
  <2>5. Cardinality(Now') \in Nat /\ IsFiniteSet(Now')
    <3>1. Now' \in SUBSET DOMAIN games
      BY <2>3 DEF Hits, Snap
    <3> QED
      BY <3>1, FS_Subset, FS_CardinalityType DEF SearchInv, SearchTyped
  <2>6. WalkUndisturbed'
    <3>1. Listed(games', query', Now', seen', 0)
      BY <1>1, <2>5 DEF Listed
    <3> QED
      BY <1>1, <2>2, <2>4, <3>1 DEF WalkUndisturbed
  <2>7. WalkGrown'
    <3>1. Hits(Sight', query') = Now'
      BY <1>1, <2>2, <2>3
    <3>2. Coming(games', query', Then', Now', seen', 0)
      <4>1. \A u \in Now' : Rank(games', query', Now', u) > 0
        <5>1. \A u \in Now' : Rank(games', query', Now', u) \in 1 .. Cardinality(Now')
          BY <2>5, RankIs
        <5> QED
          BY <2>5, <5>1
      <4> QED
        BY <2>3, <4>1 DEF Coming
    <3> QED
      BY <2>2, <2>4, <3>1, <3>2 DEF WalkGrown
  <2> QED
    BY <1>4, <2>2, <2>6, <2>7 DEF SearchInv
<1> QED
  BY <1>6, <1>7

LEMMA NextPageIs ==
  ASSUME NEW q, Asked(q), NEW r, r = [q EXCEPT !.page = @ + 1]
  PROVE  /\ Asked(r) /\ r.page = q.page + 1
         /\ Upto(r, r.page - 1) = Upto(q, q.page) /\ Upto(q, q.page) \in Nat
         /\ \A s : Hits(s, r) = Hits(s, q)
         /\ \A all, S, u : Rank(all, r, S, u) = Rank(all, q, S, u)
         /\ Search!OneFilter(r) <=> Search!OneFilter(q)
<1>1. q \in Search!Query /\ Search!Valid(q) /\ q.page \in Nat \ {0}
  BY QueryFields DEF Asked
<1>2. q.page + 1 \in Nat \ {0}
  BY <1>1
<1>3. r \in Search!Query /\ r = [q EXCEPT !.page = q.page + 1]
  BY <1>1, <1>2 DEF Search!Query
<1>4. /\ r.page = q.page + 1 /\ r.pageSize = q.pageSize
      /\ r.from = q.from /\ r.to = q.to /\ r.min = q.min /\ r.max = q.max
      /\ r.opening = q.opening /\ r.match = q.match /\ r.movePosition = q.movePosition /\ r.move = q.move
      /\ r.shortest = q.shortest /\ r.longest = q.longest /\ r.analysis = q.analysis /\ r.preferred = q.preferred
  BY <1>1 DEF Search!Query
<1>5. Asked(r)
  <2>1. r.page >= 1
    BY <1>2, <1>4
  <2> QED
    BY <1>1, <1>3, <1>4, <2>1 DEF Asked, Search!Valid
<1>6. r.page - 1 = q.page
  BY <1>1, <1>4
<1>7. Upto(r, r.page - 1) = Upto(q, q.page)
  BY <1>4, <1>6 DEF Upto
<1>8. (\A s : Hits(s, r) = Hits(s, q)) /\ \A all, S, u : Rank(all, r, S, u) = Rank(all, q, S, u)
  BY <1>1, <1>3, PageApart, RankOfPage
<1>9. Search!OneFilter(r) <=> Search!OneFilter(q)
  <2>1. \A f \in {"opening", "analysis", "preferred"} : r[f] = q[f]
    BY <1>4
  <2>2. {f \in {"opening", "analysis", "preferred"} : r[f] # None} = {f \in {"opening", "analysis", "preferred"} : q[f] # None}
    BY <2>1
  <2> QED
    BY <2>2 DEF Search!OneFilter
<1> QED
  BY <1>1, <1>4, <1>5, <1>7, <1>8, <1>9, PageCounts

LEMMA AskNextKeeps ==
  ASSUME SearchInv, Search!AskNext
  PROVE  SearchInv'
<1>1. /\ search.next = "idle" /\ reply.hasNext /\ query' = [query EXCEPT !.page = @ + 1]
      /\ search' = [Search!Nothing EXCEPT !.next = "games"] /\ reply' = Search!NoReply
      /\ games' = games /\ routes' = routes /\ covered' = covered /\ preferred' = preferred /\ detail' = detail
      /\ writes' = writes /\ seen' = seen /\ start' = start /\ moved' = moved
  BY DEF Search!AskNext, Search!database
<1>2. Done /\ Asked(query) /\ reply.hasNext = (Upto(query, query.page) < reply.total)
  BY <1>1 DEF SearchInv, WalkAsked
<1>3. /\ Asked(query') /\ Upto(query', query'.page - 1) = Upto(query, query.page) /\ Upto(query, query.page) \in Nat
      /\ \A s : Hits(s, query') = Hits(s, query)
      /\ \A all, S, u : Rank(all, query', S, u) = Rank(all, query, S, u)
      /\ Search!OneFilter(query') <=> Search!OneFilter(query)
  BY <1>1, <1>2, NextPageIs
<1>4. WalkBegan'
  BY <1>1 DEF SearchInv, WalkBegan, Search!Database
<1>5. seen' \in Seq(Nat) /\ Search!ToSet(seen') \subseteq DOMAIN games /\ moved' \in BOOLEAN
  BY <1>1 DEF SearchInv, SearchTyped, Search!TypeOK
<1>6. /\ SearchTyped' /\ WalkAsked' /\ SightHolds' /\ Search!CoverageWasTrue' /\ Search!DetailIsOneImport'
      /\ Busy' /\ ~ Done' /\ Sight' = Snap(games, routes, covered, preferred)
  BY <1>1, <1>3, <1>4, <1>5, PageBegins
<1>7. Now' = Now /\ Then' = Then /\ Hits(Sight', query') = Now'
  BY <1>1, <1>3, <1>6 DEF Now, Then
<1>8. Now \in SUBSET DOMAIN games /\ IsFiniteSet(Now) /\ Cardinality(Now) \in Nat
  BY NowIs DEF SearchInv
<1>9. WalkUndisturbed'
  <2> SUFFICES ASSUME start.writes = writes
               PROVE  /\ Sight' = Snap(games, routes, covered, preferred)
                      /\ Listed(games, query', Now, seen, Upto(query, query.page))
    BY <1>1, <1>3, <1>6, <1>7 DEF WalkUndisturbed
  <2>1. /\ reply.total = Cardinality(Now)
        /\ Listed(games, query, Now, seen,
                  IF Upto(query, query.page) < Cardinality(Now) THEN Upto(query, query.page) ELSE Cardinality(Now))
    BY <1>2 DEF SearchInv, WalkUndisturbed
  <2>2. Upto(query, query.page) < reply.total
    BY Zenon, <1>1, <1>2
  <2>3. Listed(games, query, Now, seen, Upto(query, query.page))
    BY <2>1, <2>2
  <2>4. Listed(games, query', Now, seen, Upto(query, query.page))
    BY <2>3, <1>3 DEF Listed
  <2> QED
    BY <1>6, <2>4
<1>10. WalkGrown'
  <2> SUFFICES ASSUME ~ moved, Search!OneFilter(query)
               PROVE  Coming(games, query', Then, Now, seen, Upto(query, query.page))
    BY <1>1, <1>3, <1>6, <1>7 DEF WalkGrown
  <2>1. PICK S \in SUBSET Now : Coming(games, query, Then, S, seen, Upto(query, query.page))
    BY <1>2 DEF SearchInv, WalkGrown
  <2>2. Coming(games, query, Then, Now, seen, Upto(query, query.page))
    BY <1>3, <1>8, <2>1, ComingGrows
  <2> QED
    BY <2>2, <1>3 DEF Coming
<1> QED
  BY <1>4, <1>6, <1>9, <1>10 DEF SearchInv

LEMMA TypesStay ==
  ASSUME SearchTyped, UNCHANGED <<games, routes, covered, preferred, reply, seen, moved, writes>>,
         NEW n \in {"occurrences", "openings", "analysed", "preferred"}, NEW g, NEW l, NEW o, NEW a, NEW p,
         search' = [next |-> n, games |-> g, lines |-> l, openings |-> o, analysed |-> a, preferred |-> p],
         DOMAIN l \subseteq DOMAIN g, DOMAIN g \subseteq DOMAIN games, n # "occurrences" => DOMAIN l = DOMAIN g
  PROVE  SearchTyped'
<1>1. search'.next = n /\ search'.games = g /\ search'.lines = l /\ search'.openings = o /\ search'.analysed = a
      /\ search'.preferred = p
  OBVIOUS
<1>2. Search!ToSet(seen)' = Search!ToSet(seen)
  BY DEF Search!ToSet
<1>3. Search!TypeOK'
  <2>1. /\ DOMAIN games \subseteq Search!Uuids /\ \A u \in DOMAIN games : games[u] \in Versions[u]
        /\ routes \in RouteTables /\ covered \subseteq Places /\ preferred \subseteq Places
        /\ reply.status \in {None, "ok", "invalid", "unavailable", "outage"} /\ Len(reply.items) =< reply.total
        /\ Search!ToSet(seen) \subseteq DOMAIN games /\ moved \in BOOLEAN /\ writes \in 0 .. MaxWrites
    BY DEF SearchTyped, Search!TypeOK
  <2>2. search'.next \in {"idle", "games", "occurrences", "openings", "analysed", "preferred"}
    BY <1>1
  <2>3. DOMAIN search'.lines \subseteq DOMAIN search'.games /\ DOMAIN search'.games \subseteq DOMAIN games
    BY <1>1
  <2> QED
    BY <1>2, <2>1, <2>2, <2>3 DEF Search!TypeOK, Search!Uuids
<1>4. search' = [next |-> search'.next, games |-> search'.games, lines |-> search'.lines, openings |-> search'.openings,
                 analysed |-> search'.analysed, preferred |-> search'.preferred]
  BY <1>1
<1> QED
  BY <1>1, <1>3, <1>4 DEF SearchTyped

LEMMA LoadGamesKeeps ==
  ASSUME SearchInv, Search!LoadGames
  PROVE  SearchInv'
<1>1. /\ search.next = "games" /\ search' = [search EXCEPT !.next = "occurrences", !.games = games]
      /\ UNCHANGED <<games, routes, covered, preferred, reply, detail, query, seen, start, moved, writes>>
  BY DEF Search!LoadGames, Search!Reading, Search!database
<1>2. search' = [next |-> "occurrences", games |-> games, lines |-> search.lines, openings |-> search.openings,
                 analysed |-> search.analysed, preferred |-> search.preferred]
  BY <1>1 DEF SearchInv, SearchTyped
<1>3. search'.next = "occurrences" /\ search'.games = games /\ search'.lines = search.lines
  BY <1>2
<1>4. Busy /\ Busy'
  BY <1>1, <1>3 DEF Busy
<1>5. View(search', games, routes, covered, preferred) = View(search, games, routes, covered, preferred)
  BY <1>1, <1>3 DEF View
<1>6. SearchTyped'
  <2>1. SearchTyped /\ DOMAIN search.lines \subseteq DOMAIN search.games /\ DOMAIN search.games \subseteq DOMAIN games
    BY DEF SearchInv, SearchTyped, Search!TypeOK
  <2> QED
    BY <1>1, <1>2, <2>1, TypesStay
<1>7. Sight' = Sight
  BY <1>1, <1>5 DEF Sight
<1> QED
  BY <1>1, <1>4, <1>6, <1>7, SightStays

LEMMA LoadOccurrencesKeeps ==
  ASSUME SearchInv, Search!LoadOccurrences
  PROVE  SearchInv'
<1> DEFINE read == [u \in DOMAIN search.games |-> games[u].line]
<1>1. /\ search.next = "occurrences" /\ seen' = seen
      /\ UNCHANGED <<games, routes, covered, preferred, detail, query, start, moved, writes>>
  BY DEF Search!LoadOccurrences, Search!Reading, Search!database
<1>2. \/ /\ search' = [search EXCEPT !.next = "openings", !.lines = read]
         /\ reply' = reply
      \/ Search!Respond("unavailable")
  BY DEF Search!LoadOccurrences
<1>3. CASE Search!Respond("unavailable")
  <2>1. WalkBegan' /\ seen' \in Seq(Nat) /\ Search!ToSet(seen') \subseteq DOMAIN games /\ moved' \in BOOLEAN
    BY <1>1 DEF SearchInv, WalkBegan, Search!Database, SearchTyped, Search!TypeOK
  <2> QED
    BY <1>1, <1>3, <2>1, SearchFails
<1>4. CASE /\ search' = [search EXCEPT !.next = "openings", !.lines = read]
           /\ reply' = reply
  <2>1. search' = [next |-> "openings", games |-> search.games, lines |-> read,
                   openings |-> search.openings, analysed |-> search.analysed, preferred |-> search.preferred]
    BY <1>4 DEF SearchInv, SearchTyped
  <2>2. /\ search'.next = "openings" /\ search'.games = search.games
        /\ search'.lines = read
    BY <2>1
  <2>3. Busy /\ Busy'
    BY <1>1, <2>2 DEF Busy
  <2>4. View(search', games, routes, covered, preferred) = View(search, games, routes, covered, preferred)
    BY <1>1, <2>2 DEF View
  <2>5. SearchTyped'
    <3>1. SearchTyped /\ DOMAIN search.games \subseteq DOMAIN games
      BY DEF SearchInv, SearchTyped, Search!TypeOK
    <3>2. DOMAIN read = DOMAIN search.games
      OBVIOUS
    <3> HIDE DEF read
    <3> QED
      BY <1>1, <1>4, <2>1, <3>1, <3>2, TypesStay
  <2>6. Sight' = Sight
    BY <1>1, <2>4 DEF Sight
  <2> QED
    BY <1>1, <1>4, <2>3, <2>5, <2>6, SightStays
<1> QED
  BY <1>2, <1>3, <1>4

LEMMA LoadOpeningsKeeps ==
  ASSUME SearchInv, Search!LoadOpenings
  PROVE  SearchInv'
<1> DEFINE found == [u \in DOMAIN search.games |-> Search!OpeningMatches(games[u].line, routes)]
<1>1. /\ search.next = "openings" /\ seen' = seen
      /\ UNCHANGED <<games, routes, covered, preferred, detail, query, start, moved, writes>>
  BY DEF Search!LoadOpenings, Search!Reading, Search!database
<1>2. \/ search' = [search EXCEPT !.next = "analysed", !.openings = found] /\ reply' = reply
      \/ Search!Respond("unavailable")
  BY DEF Search!LoadOpenings
<1>3. CASE Search!Respond("unavailable")
  <2>1. WalkBegan' /\ seen' \in Seq(Nat) /\ Search!ToSet(seen') \subseteq DOMAIN games /\ moved' \in BOOLEAN
    BY <1>1 DEF SearchInv, WalkBegan, Search!Database, SearchTyped, Search!TypeOK
  <2> QED
    BY <1>1, <1>3, <2>1, SearchFails
<1>4. CASE search' = [search EXCEPT !.next = "analysed", !.openings = found] /\ reply' = reply
  <2>1. search' = [next |-> "analysed", games |-> search.games, lines |-> search.lines, openings |-> found,
                   analysed |-> search.analysed, preferred |-> search.preferred]
    BY <1>4 DEF SearchInv, SearchTyped
  <2>2. /\ search'.next = "analysed" /\ search'.games = search.games /\ search'.lines = search.lines
        /\ search'.openings = found
    BY <2>1
  <2>3. Busy /\ Busy'
    BY <1>1, <2>2 DEF Busy
  <2>4. View(search', games, routes, covered, preferred) = View(search, games, routes, covered, preferred)
    BY <1>1, <2>2 DEF View
  <2>5. SearchTyped'
    <3>1. SearchTyped /\ DOMAIN search.games \subseteq DOMAIN games /\ DOMAIN search.lines = DOMAIN search.games
      BY <1>1 DEF SearchInv, SearchTyped, Search!TypeOK
    <3> QED
      BY <1>1, <1>4, <2>1, <3>1, TypesStay
  <2>6. Sight' = Sight
    BY <1>1, <2>4 DEF Sight
  <2> QED
    BY <1>1, <1>4, <2>3, <2>5, <2>6, SightStays
<1> QED
  BY <1>2, <1>3, <1>4

LEMMA LoadAnalysedKeeps ==
  ASSUME SearchInv, Search!LoadAnalysed
  PROVE  SearchInv'
<1>1. /\ search.next = "analysed" /\ search' = [search EXCEPT !.next = "preferred", !.analysed = covered]
      /\ UNCHANGED <<games, routes, covered, preferred, reply, detail, query, seen, start, moved, writes>>
  BY DEF Search!LoadAnalysed, Search!Reading, Search!database
<1>2. search' = [next |-> "preferred", games |-> search.games, lines |-> search.lines, openings |-> search.openings,
                 analysed |-> covered, preferred |-> search.preferred]
  BY <1>1 DEF SearchInv, SearchTyped
<1>3. /\ search'.next = "preferred" /\ search'.games = search.games /\ search'.lines = search.lines
      /\ search'.openings = search.openings /\ search'.analysed = covered
  BY <1>2
<1>4. Busy /\ Busy'
  BY <1>1, <1>3 DEF Busy
<1>5. View(search', games, routes, covered, preferred) = View(search, games, routes, covered, preferred)
  BY <1>1, <1>3 DEF View
<1>6. SearchTyped'
  <2>1. SearchTyped /\ DOMAIN search.lines \subseteq DOMAIN search.games /\ DOMAIN search.games \subseteq DOMAIN games
        /\ DOMAIN search.lines = DOMAIN search.games
    BY <1>1 DEF SearchInv, SearchTyped, Search!TypeOK
  <2> QED
    BY <1>1, <1>2, <2>1, TypesStay
<1>7. Sight' = Sight
  BY <1>1, <1>5 DEF Sight
<1> QED
  BY <1>1, <1>4, <1>6, <1>7, SightStays

LEMMA SearchCannotReadKeeps ==
  ASSUME SearchInv, Search!CannotRead
  PROVE  SearchInv'
<1>1. /\ Search!Respond("outage") /\ seen' = seen
      /\ UNCHANGED <<games, routes, covered, preferred, detail, query, start, moved, writes>>
  BY DEF Search!CannotRead, Search!Reading, Search!database
<1>2. WalkBegan' /\ seen' \in Seq(Nat) /\ Search!ToSet(seen') \subseteq DOMAIN games /\ moved' \in BOOLEAN
  BY <1>1 DEF SearchInv, WalkBegan, Search!Database, SearchTyped, Search!TypeOK
<1> QED
  BY <1>1, <1>2, SearchFails

\* Only a listed game is opened, and a listed game is there.
LEMMA GetGameKeeps ==
  ASSUME SearchInv, Search!GetGame
  PROVE  SearchInv'
<1>1. PICK u \in Search!ToSet(seen) : Search!ReadGame(u)
  BY DEF Search!GetGame
<1>2. u \in DOMAIN games /\ games[u] \in Versions[u]
  BY <1>1 DEF SearchInv, SearchTyped, Search!TypeOK
<1>3. /\ games' = games /\ routes' = routes /\ covered' = covered /\ preferred' = preferred /\ search' = search
      /\ reply' = reply /\ query' = query /\ seen' = seen /\ start' = start /\ moved' = moved /\ writes' = writes
      /\ detail' = [status |-> "ok", uuid |-> u, game |-> games[u]]
  BY <1>1, <1>2 DEF Search!ReadGame, Search!database
<1>4. Search!DetailIsOneImport'
  <2>1. detail'.status = "ok" /\ detail'.game \in Versions[detail'.uuid]
    BY <1>2, <1>3
  <2> QED
    BY <2>1 DEF Search!DetailIsOneImport
<1>5. Sight' = Sight /\ Now' = Now /\ Then' = Then /\ Busy' = Busy /\ Done' = Done
  BY <1>3 DEF Sight, Now, Then, Busy, Done
<1>6. SearchTyped'
  BY <1>3 DEF SearchInv, SearchTyped, Search!TypeOK, Search!Uuids, Search!ToSet
<1>7. WalkAsked' /\ WalkBegan' /\ SightHolds' /\ WalkUndisturbed'
  BY <1>3, <1>5 DEF SearchInv, WalkAsked, WalkBegan, Search!Database, SightHolds, WalkUndisturbed
<1>8. WalkGrown'
  <2>1. Search!OneFilter(query)' <=> Search!OneFilter(query)
    BY <1>3
  <2> QED
    BY <1>3, <1>5, <2>1 DEF SearchInv, WalkGrown
<1>9. Search!CoverageWasTrue'
  BY <1>3 DEF SearchInv, Search!CoverageWasTrue, Search!ToSet
<1> QED
  BY <1>4, <1>6, <1>7, <1>8, <1>9 DEF SearchInv

LEMMA AppendedIs ==
  ASSUME NEW T, NEW s \in Seq(T), NEW t \in Seq(T), NEW w, w = s \o t
  PROVE  /\ w \in Seq(T) /\ Len(w) = Len(s) + Len(t)
         /\ \A i \in 1 .. Len(s) : w[i] = s[i]
         /\ \A k \in 1 .. Len(t) : w[Len(s) + k] = t[k]
         /\ \A i \in 1 .. Len(w) : i \in 1 .. Len(s) \/ (i - Len(s) \in 1 .. Len(t) /\ i = Len(s) + (i - Len(s)))
OBVIOUS

\* What a page gives is what was in sight when it was read.
LEMMA LoadPreferredGives ==
  ASSUME SearchInv, Search!LoadPreferred,
         NEW all, \A u \in DOMAIN Sight.games : /\ Sight.games[u].started = all[u].started
                                                /\ Sight.games[u].rating = all[u].rating /\ Sight.lines[u] = all[u].line,
         Known(all, DOMAIN Sight.games),
         NEW S, S = Hits(Sight, query)
  PROVE  LET items == reply'.items
             first == Upto(query, query.page - 1)
             last == Upto(query, query.page)
         IN /\ IsFiniteSet(S) /\ Cardinality(S) \in Nat /\ S \subseteq DOMAIN Sight.games
            /\ reply'.status = "ok" /\ reply'.total = Cardinality(S) /\ reply'.hasNext = (last < reply'.total)
            /\ Len(items) \in Nat /\ DOMAIN items = 1 .. Len(items) /\ Len(items) <= Cardinality(S)
            /\ Len(items) = IF Cardinality(S) <= first THEN 0
                            ELSE IF last < Cardinality(S) THEN query.pageSize ELSE Cardinality(S) - first
            /\ \A k \in 1 .. Len(items) :
                 /\ items[k].uuid \in S /\ Rank(all, query, S, items[k].uuid) = first + k
                 /\ items[k].line = Sight.lines[items[k].uuid]
                 /\ items[k].analysis = Search!Coverage(Sight.lines[items[k].uuid], Sight.analysed)
            /\ \A u \in S : first < Rank(all, query, S, u) /\ Rank(all, query, S, u) <= last =>
                 \E k \in 1 .. Len(items) : items[k].uuid = u
            /\ seen' = seen \o [k \in 1 .. Len(items) |-> items[k].uuid]
            /\ search' = Search!Nothing
<1> DEFINE read == [search EXCEPT !.preferred = preferred]
           found == Search!Found(read, query)
           page == Search!Page(Search!Sorted(found, query), query)
<1>1. search.next = "preferred" /\ Busy
  BY DEF Search!LoadPreferred, Search!Reading, Busy
<1>2. /\ reply' = [status |-> "ok", items |-> page, total |-> Search!Cardinality(found),
                   hasNext |-> Search!HasNext(Search!Cardinality(found), query)]
      /\ seen' = seen \o [i \in DOMAIN page |-> page[i].uuid]
      /\ search' = Search!Nothing
  BY DEF Search!LoadPreferred
<1>3. query \in Search!Query
  BY <1>1 DEF SearchInv, WalkAsked, Asked
<1>4. read = [next |-> "preferred", games |-> search.games, lines |-> search.lines, openings |-> search.openings,
              analysed |-> search.analysed, preferred |-> preferred]
  BY <1>1 DEF SearchInv, SearchTyped
<1>5. /\ read.games = Sight.games /\ read.lines = Sight.lines /\ read.openings = Sight.openings
      /\ read.analysed = Sight.analysed /\ read.preferred = Sight.preferred
  <2>1. /\ Sight.games = search.games /\ Sight.lines = search.lines /\ Sight.openings = search.openings
        /\ Sight.analysed = search.analysed /\ Sight.preferred = preferred
    BY <1>1, ViewIs DEF Sight
  <2> QED
    BY <1>4, <2>1
<1> HIDE DEF read
<1>6. S = Hits(read, query)
  <2>1. \A u : Search!Matches(Search!Summarize(u, read), query) <=> Search!Matches(Search!Summarize(u, Sight), query)
    BY <1>5, MatchAgrees
  <2> QED
    BY <1>5, <2>1 DEF Hits
<1>7. Reads(read, all) /\ Known(all, DOMAIN read.games) /\ IsFiniteSet(DOMAIN read.games)
  <2>1. DOMAIN Sight.games \in SUBSET DOMAIN games /\ IsFiniteSet(DOMAIN games)
    BY <1>1 DEF SearchInv, SearchTyped, SightHolds
  <2>2. IsFiniteSet(DOMAIN Sight.games)
    BY <2>1, FS_Subset
  <2> QED
    BY <1>5, <2>2 DEF Reads
<1>8. /\ IsFiniteSet(S) /\ Search!Cardinality(found) = Cardinality(S) /\ Cardinality(S) \in Nat
      /\ page \in Seq(found) /\ Len(page) <= Cardinality(S)
      /\ Len(page) = IF Cardinality(S) <= Upto(query, query.page - 1) THEN 0
                     ELSE IF Upto(query, query.page) < Cardinality(S) THEN query.pageSize
                     ELSE Cardinality(S) - Upto(query, query.page - 1)
      /\ \A k \in 1 .. Len(page) :
           /\ page[k].uuid \in S /\ page[k] = Search!Summarize(page[k].uuid, read)
           /\ Rank(all, query, S, page[k].uuid) = Upto(query, query.page - 1) + k
      /\ \A u \in S : Upto(query, query.page - 1) < Rank(all, query, S, u)
                      /\ Rank(all, query, S, u) <= Upto(query, query.page) =>
           \E k \in 1 .. Len(page) : page[k].uuid = u
  BY <1>3, <1>6, <1>7, PageIs
<1> HIDE DEF found, page
<1>9. /\ reply'.items = page /\ reply'.status = "ok" /\ reply'.total = Cardinality(S)
      /\ reply'.hasNext = Search!HasNext(Cardinality(S), query)
  BY <1>2, <1>8
<1>10. reply'.hasNext = (Upto(query, query.page) < reply'.total)
  BY <1>9 DEF Search!HasNext, Upto
<1>11. Len(page) \in Nat /\ DOMAIN page = 1 .. Len(page)
  BY <1>8
<1>12. \A k \in 1 .. Len(page) : /\ page[k].line = Sight.lines[page[k].uuid]
                                 /\ page[k].analysis = Search!Coverage(Sight.lines[page[k].uuid], Sight.analysed)
  <2> SUFFICES ASSUME NEW k \in 1 .. Len(page)
               PROVE  /\ page[k].line = Sight.lines[page[k].uuid]
                      /\ page[k].analysis = Search!Coverage(Sight.lines[page[k].uuid], Sight.analysed)
    OBVIOUS
  <2>1. page[k] = Search!Summarize(page[k].uuid, read)
    BY <1>8
  <2>2. LET g == Search!Summarize(page[k].uuid, read)
        IN g.line = read.lines[page[k].uuid] /\ g.analysis = Search!Coverage(read.lines[page[k].uuid], read.analysed)
    BY DEF Search!Summarize
  <2> QED
    BY <1>5, <2>1, <2>2
<1>13. S \subseteq DOMAIN Sight.games
  BY DEF Hits
<1> QED
  BY <1>2, <1>8, <1>9, <1>10, <1>11, <1>12, <1>13

LEMMA LoadPreferredKeeps ==
  ASSUME SearchInv, Search!LoadPreferred
  PROVE  SearchInv'
<1> DEFINE S == Hits(Sight, query)
           items == reply'.items
           first == Upto(query, query.page - 1)
           last == Upto(query, query.page)
           ids == [k \in 1 .. Len(items) |-> items[k].uuid]
           all == [u \in DOMAIN Sight.games |->
                     [started |-> Sight.games[u].started, rating |-> Sight.games[u].rating,
                      class |-> Sight.games[u].class, line |-> Sight.lines[u]]]
<1>1. /\ search.next = "preferred" /\ Busy
      /\ games' = games /\ routes' = routes /\ covered' = covered /\ preferred' = preferred /\ detail' = detail
      /\ query' = query /\ start' = start /\ moved' = moved /\ writes' = writes
  BY DEF Search!LoadPreferred, Search!Reading, Search!database, Busy
<1>2. Asked(query) /\ query \in Search!Query
  BY <1>1 DEF SearchInv, WalkAsked, Asked
<1>3. /\ DOMAIN Sight.games \subseteq DOMAIN games
      /\ \A u \in DOMAIN Sight.games : Content(Sight.games[u]) /\ Sight.lines[u] \in Seq(Places) /\ Sight.lines[u] # << >>
      /\ start.results \subseteq Sight.analysed /\ Sight.analysed \subseteq covered
      /\ ~ moved => \A u \in DOMAIN Sight.games : Sight.games[u] = games[u] /\ Sight.lines[u] = games[u].line
  BY <1>1 DEF SearchInv, SightHolds
<1>4. Known(games, DOMAIN games) /\ DOMAIN games \subseteq Nat
  BY StockIs DEF SearchInv, SearchTyped
<1>5. first \in Nat /\ last \in Nat /\ last = first + query.pageSize /\ query.pageSize \in Nat
  BY <1>2, PageCounts, QueryFields
<1>6. /\ IsFiniteSet(S) /\ Cardinality(S) \in Nat /\ S \subseteq DOMAIN Sight.games
      /\ reply'.status = "ok" /\ reply'.total = Cardinality(S) /\ reply'.hasNext = (last < reply'.total)
      /\ Len(items) \in Nat /\ DOMAIN items = 1 .. Len(items) /\ Len(items) <= Cardinality(S)
      /\ Len(items) = IF Cardinality(S) <= first THEN 0
                      ELSE IF last < Cardinality(S) THEN query.pageSize ELSE Cardinality(S) - first
      /\ \A k \in 1 .. Len(items) :
           /\ items[k].uuid \in S
           /\ items[k].line = Sight.lines[items[k].uuid]
           /\ items[k].analysis = Search!Coverage(Sight.lines[items[k].uuid], Sight.analysed)
      /\ seen' = seen \o ids /\ search' = Search!Nothing
  <2>1. /\ \A u \in DOMAIN Sight.games : /\ Sight.games[u].started = all[u].started
                                         /\ Sight.games[u].rating = all[u].rating /\ Sight.lines[u] = all[u].line
        /\ \A u \in DOMAIN Sight.games : all[u].class = Sight.games[u].class
    OBVIOUS
  <2>2. Known(all, DOMAIN Sight.games)
    <3> HIDE DEF all
    <3>1. DOMAIN Sight.games \subseteq Nat
      BY <1>3, <1>4
    <3>2. \A u \in DOMAIN Sight.games : Content(all[u])
      BY <1>3, <2>1 DEF Content
    <3> QED
      BY <3>1, <3>2 DEF Known
  <2> HIDE DEF all
  <2> QED
    BY <2>1, <2>2, LoadPreferredGives
<1>7. ASSUME \A u \in DOMAIN Sight.games : Sight.games[u] = games[u] /\ Sight.lines[u] = games[u].line
      PROVE  /\ \A k \in 1 .. Len(items) : Rank(games, query, S, items[k].uuid) = first + k
             /\ \A u \in S : first < Rank(games, query, S, u) /\ Rank(games, query, S, u) <= last =>
                  \E k \in 1 .. Len(items) : items[k].uuid = u
  <2>1. Known(games, DOMAIN Sight.games)
    BY <1>3, <1>4 DEF Known
  <2>2. \A u \in DOMAIN Sight.games : /\ Sight.games[u].started = games[u].started
                                      /\ Sight.games[u].rating = games[u].rating /\ Sight.lines[u] = games[u].line
    BY <1>7
  <2> QED
    BY <2>1, <2>2, LoadPreferredGives
<1> HIDE DEF first, last, all
<1>8. seen \in Seq(Nat) /\ Search!ToSet(seen) \subseteq DOMAIN games
  BY DEF SearchInv, SearchTyped, Search!TypeOK
<1>9. ids \in Seq(Nat) /\ Len(ids) = Len(items) /\ \A k \in 1 .. Len(items) : ids[k] = items[k].uuid /\ ids[k] \in DOMAIN games
  <2>1. \A k \in 1 .. Len(items) : items[k].uuid \in Nat /\ items[k].uuid \in DOMAIN games
    BY <1>3, <1>4, <1>6
  <2>2. ids \in [1 .. Len(items) -> Nat] /\ Len(items) \in Nat
    BY <1>6, <2>1
  <2>3. \A k \in 1 .. Len(items) : ids[k] = items[k].uuid
    OBVIOUS
  <2> HIDE DEF ids, items
  <2> QED
    BY <2>1, <2>2, <2>3
<1> HIDE DEF ids, S, items
<1>10. /\ seen' \in Seq(Nat) /\ Len(seen') = Len(seen) + Len(items)
       /\ \A i \in 1 .. Len(seen) : seen'[i] = seen[i]
       /\ \A k \in 1 .. Len(items) : seen'[Len(seen) + k] = items[k].uuid
       /\ \A i \in 1 .. Len(seen') : i \in 1 .. Len(seen) \/ (i - Len(seen) \in 1 .. Len(items) /\ i = Len(seen) + (i - Len(seen)))
  <2>1. seen' = seen \o ids
    BY <1>6
  <2>2. /\ seen' \in Seq(Nat) /\ Len(seen') = Len(seen) + Len(ids)
        /\ \A i \in 1 .. Len(seen) : seen'[i] = seen[i]
        /\ \A k \in 1 .. Len(ids) : seen'[Len(seen) + k] = ids[k]
        /\ \A i \in 1 .. Len(seen') : i \in 1 .. Len(seen) \/ (i - Len(seen) \in 1 .. Len(ids) /\ i = Len(seen) + (i - Len(seen)))
    <3>1. seen \in Seq(Nat) /\ ids \in Seq(Nat)
      BY <1>8, <1>9
    <3> QED
      BY <3>1, <2>1, AppendedIs
  <2>3. Len(ids) = Len(items) /\ \A k \in 1 .. Len(items) : ids[k] = items[k].uuid
    BY <1>9
  <2> QED
    BY <2>2, <2>3, Zenon
<1>11. DOMAIN seen' = 1 .. Len(seen') /\ DOMAIN seen = 1 .. Len(seen) /\ Len(seen) \in Nat
  BY <1>8, <1>10
<1>12. \A u : u \in Search!ToSet(seen') <=> (u \in Search!ToSet(seen) \/ \E k \in 1 .. Len(items) : items[k].uuid = u)
  <2>1. \A u : u \in Search!ToSet(seen') <=> \E i \in 1 .. Len(seen') : seen'[i] = u
    BY <1>11 DEF Search!ToSet
  <2>2. \A u : u \in Search!ToSet(seen) <=> \E i \in 1 .. Len(seen) : seen[i] = u
    BY <1>11 DEF Search!ToSet
  <2>3. \A i \in 1 .. Len(seen) : i \in 1 .. Len(seen')
    BY <1>6, <1>10, <1>11
  <2>4. \A k \in 1 .. Len(items) : Len(seen) + k \in 1 .. Len(seen')
    BY <1>6, <1>10, <1>11
  <2>5. ASSUME NEW u \in Search!ToSet(seen')
        PROVE  u \in Search!ToSet(seen) \/ \E k \in 1 .. Len(items) : items[k].uuid = u
    <3>1. PICK i \in 1 .. Len(seen') : seen'[i] = u
      BY <2>1
    <3>2. CASE i \in 1 .. Len(seen)
      BY <3>1, <3>2, <2>2, <1>10
    <3>3. CASE i - Len(seen) \in 1 .. Len(items) /\ i = Len(seen) + (i - Len(seen))
      <4> DEFINE k == i - Len(seen)
      <4>1. k \in 1 .. Len(items) /\ i = Len(seen) + k
        BY <3>3
      <4> HIDE DEF k
      <4>2. items[k].uuid = u
        BY <3>1, <4>1, <1>10
      <4> QED
        BY <4>1, <4>2
    <3> QED
      BY <3>2, <3>3, <1>10
  <2>6. ASSUME NEW u \in Search!ToSet(seen) PROVE u \in Search!ToSet(seen')
    BY <2>1, <2>2, <2>3, <1>10
  <2>7. ASSUME NEW k \in 1 .. Len(items) PROVE items[k].uuid \in Search!ToSet(seen')
    BY <2>1, <2>4, <1>10
  <2> QED
    BY <2>5, <2>6, <2>7
<1>13. search' = [next |-> "idle", games |-> << >>, lines |-> << >>, openings |-> << >>, analysed |-> {}, preferred |-> {}]
  BY <1>6 DEF Search!Nothing
<1>14. search'.next = "idle" /\ search'.games = << >> /\ search'.lines = << >>
  BY <1>13
<1>15. ~ Busy' /\ Done'
  BY <1>6, <1>14 DEF Busy, Done
<1>16. SearchTyped'
  <2>1. /\ DOMAIN games \subseteq Search!Uuids /\ \A u \in DOMAIN games : games[u] \in Versions[u]
        /\ routes \in RouteTables /\ covered \subseteq Places /\ preferred \subseteq Places /\ writes \in 0 .. MaxWrites
        /\ IsFiniteSet(DOMAIN games) /\ moved \in BOOLEAN
    BY DEF SearchInv, SearchTyped, Search!TypeOK
  <2>2. DOMAIN search'.lines = {} /\ DOMAIN search'.games = {}
    BY <1>14
  <2>3. Len(reply'.items) =< reply'.total /\ reply'.status = "ok"
    BY <1>6 DEF items
  <2>4. Search!ToSet(seen)' = Search!ToSet(seen') /\ Search!ToSet(seen') \subseteq DOMAIN games
    <3>1. Search!ToSet(seen)' = Search!ToSet(seen')
      BY DEF Search!ToSet
    <3>2. \A k \in 1 .. Len(items) : items[k].uuid \in DOMAIN games
      BY <1>9
    <3> QED
      BY <3>1, <3>2, <1>8, <1>12
  <2>5. Search!TypeOK'
    BY <1>1, <1>14, <2>1, <2>2, <2>3, <2>4 DEF Search!TypeOK, Search!Uuids
  <2> QED
    BY <1>1, <1>10, <1>13, <1>14, <2>1, <2>5 DEF SearchTyped
<1>17. WalkAsked'
  <2>1. reply'.hasNext = (Upto(query', query'.page) < reply'.total)
    BY <1>1, <1>6 DEF last
  <2> QED
    BY <1>1, <1>2, <1>15, <2>1 DEF WalkAsked
<1>18. WalkBegan'
  BY <1>1 DEF SearchInv, WalkBegan, Search!Database
<1>19. SightHolds'
  BY <1>15 DEF SightHolds
<1>20. Now' = Now /\ Then' = Then
  BY <1>1 DEF Now, Then
<1>21. WalkUndisturbed'
  <2> SUFFICES ASSUME start.writes = writes
               PROVE  LET n == Cardinality(Now) IN
                      reply'.total = n /\ Listed(games, query, Now, seen', IF last < n THEN last ELSE n)
    BY <1>1, <1>15, <1>20 DEF WalkUndisturbed, last
  <2>1. Sight = Snap(games, routes, covered, preferred) /\ Listed(games, query, Now, seen, first)
    BY <1>1 DEF SearchInv, WalkUndisturbed, first
  <2>2. S = Now
    BY <2>1 DEF S, Now
  <2>3. \A u \in DOMAIN Sight.games : Sight.games[u] = games[u] /\ Sight.lines[u] = games[u].line
    BY <2>1 DEF Snap
  <2>4. \A k \in 1 .. Len(items) : items[k].uuid \in S /\ Rank(games, query, S, items[k].uuid) = first + k
    BY <1>6, <1>7, <2>3
  <2>5. /\ Len(seen) = first /\ first <= Cardinality(S)
        /\ \A i \in 1 .. first : seen[i] \in S /\ Rank(games, query, S, seen[i]) = i
    BY <2>1, <2>2 DEF Listed
  <2> DEFINE n == Cardinality(S)
             m == IF last < n THEN last ELSE n
  <2>6. n \in Nat /\ Len(items) = IF n <= first THEN 0 ELSE IF last < n THEN query.pageSize ELSE n - first
    BY <1>6
  <2>7. first <= n
    BY <2>5
  <2> HIDE DEF n
  <2>8. Len(seen') = m /\ m <= n
    BY <1>5, <1>10, <2>5, <2>6, <2>7
  <2>9. \A i \in 1 .. Len(seen') : seen'[i] \in S /\ Rank(games, query, S, seen'[i]) = i
    <3> TAKE i \in 1 .. Len(seen')
    <3>1. CASE i \in 1 .. Len(seen)
      BY <3>1, <1>10, <2>5
    <3>2. CASE i - Len(seen) \in 1 .. Len(items) /\ i = Len(seen) + (i - Len(seen))
      <4> DEFINE k == i - Len(seen)
      <4>1. seen'[i] = items[k].uuid /\ k \in 1 .. Len(items)
        BY <3>2, <1>10
      <4>2. first + k = i
        BY <3>2, <2>5
      <4> HIDE DEF k
      <4> QED
        BY <4>1, <4>2, <2>4
    <3> QED
      BY <3>1, <3>2, <1>10
  <2> HIDE DEF m
  <2>10. Listed(games, query, S, seen', m)
    BY <2>8, <2>9 DEF Listed, n
  <2>11. reply'.total = n
    BY <1>6 DEF n
  <2> QED
    BY <2>2, <2>10, <2>11 DEF m, n
<1>22. WalkGrown'
  <2> SUFFICES ASSUME ~ moved, Search!OneFilter(query)
               PROVE  \E T \in SUBSET Now : reply'.total = Cardinality(T) /\ Coming(games, query, Then, T, seen', last)
    <3>1. Search!OneFilter(query)' <=> Search!OneFilter(query)
      BY <1>1
    <3> QED
      BY <1>1, <1>15, <1>20, <3>1 DEF WalkGrown, last
  <2>1. S \subseteq Now /\ Coming(games, query, Then, S, seen, first)
    BY <1>1 DEF SearchInv, WalkGrown, S, first
  <2>2. \A u \in S : first < Rank(games, query, S, u) /\ Rank(games, query, S, u) <= last =>
          \E k \in 1 .. Len(items) : items[k].uuid = u
    BY <1>3, <1>7
  <2>3. \A u \in S : Rank(games, query, S, u) \in Nat
    <3>1. \A u \in S : Rank(games, query, S, u) \in 1 .. Cardinality(S)
      BY <1>6, RankIs
    <3> QED
      BY <3>1, <1>6
  <2>4. Coming(games, query, Then, S, seen', last)
    <3> SUFFICES ASSUME NEW u \in Then
                 PROVE  u \in S /\ (u \in Search!ToSet(seen') \/ Rank(games, query, S, u) > last)
      BY DEF Coming
    <3>1. u \in S /\ (u \in Search!ToSet(seen) \/ Rank(games, query, S, u) > first)
      BY <2>1 DEF Coming
    <3>2. CASE u \in Search!ToSet(seen)
      BY <3>1, <3>2, <1>12
    <3>3. CASE Rank(games, query, S, u) > first
      <4>1. Rank(games, query, S, u) <= last => u \in Search!ToSet(seen')
        BY <3>1, <3>3, <1>5, <1>12, <2>2, <2>3
      <4> QED
        BY <4>1, <3>1, <1>5, <2>3
    <3> QED
      BY <3>1, <3>2, <3>3
  <2> QED
    BY <1>6, <2>1, <2>4
<1>23. Search!CoverageWasTrue'
  <2> SUFFICES ASSUME NEW i \in 1 .. Len(items)
               PROVE  LET g == items[i]
                          line == Search!ToSet(g.line)
                      IN /\ g.analysis = "complete" => line \subseteq covered
                         /\ g.analysis = "partial" => line \cap covered # {} /\ ~ (line \subseteq start.results)
                         /\ g.analysis = "none" => line \cap start.results = {}
    BY <1>1, <1>6 DEF Search!CoverageWasTrue, Search!ToSet, items
  <2> DEFINE l == Sight.lines[items[i].uuid]
  <2>1. items[i].line = l /\ items[i].analysis = Search!Coverage(l, Sight.analysed) /\ l \in Seq(Places) /\ l # << >>
    BY <1>3, <1>6
  <2>2. Search!ToSet(l) = Along(l)
    BY DEF Search!ToSet, Along
  <2> HIDE DEF l
  <2>3. /\ (items[i].analysis = "none") => (\A p \in Along(l) : p \notin Sight.analysed)
        /\ (items[i].analysis = "complete") => (\A p \in Along(l) : p \in Sight.analysed)
        /\ (items[i].analysis = "partial") => (\E p, r \in Along(l) : p \in Sight.analysed /\ r \notin Sight.analysed)
    BY <2>1, CoverageIs
  <2> QED
    BY <2>1, <2>2, <2>3, <1>3
<1>24. Search!DetailIsOneImport'
  BY <1>1 DEF SearchInv, Search!DetailIsOneImport
<1> QED
  BY <1>16, <1>17, <1>18, <1>19, <1>21, <1>22, <1>23, <1>24 DEF SearchInv

LEMMA SearchKeeps ==
  ASSUME SearchInv, Search!Next
  PROVE  SearchInv'
<1>1. CASE Search!Write
  BY <1>1, SearchWritersKeep
<1>2. CASE \E q \in Queries : Search!Ask(q)
  BY <1>2, AskKeeps
<1>3. CASE Search!AskNext
  BY <1>3, AskNextKeeps
<1>4. CASE Search!Read
  BY <1>4, LoadGamesKeeps, LoadOccurrencesKeeps, LoadOpeningsKeeps, LoadAnalysedKeeps, LoadPreferredKeeps,
     SearchCannotReadKeeps DEF Search!Read
<1>5. CASE Search!GetGame
  BY <1>5, GetGameKeeps
<1> QED
  BY <1>1, <1>2, <1>3, <1>4, <1>5 DEF Search!Next

LEMMA SearchRests ==
  ASSUME SearchInv, UNCHANGED searchVars
  PROVE  SearchInv'
<1>1. /\ games' = games /\ routes' = routes /\ covered' = covered /\ preferred' = preferred /\ search' = search
      /\ reply' = reply /\ query' = query /\ seen' = seen /\ start' = start /\ moved' = moved /\ writes' = writes
      /\ detail' = detail
  BY DEF searchVars
<1>2. Sight' = Sight /\ Now' = Now /\ Then' = Then /\ Busy' = Busy /\ Done' = Done
  BY <1>1 DEF Sight, Now, Then, Busy, Done
<1>3. SearchTyped'
  BY <1>1 DEF SearchInv, SearchTyped, Search!TypeOK, Search!Uuids, Search!ToSet
<1>4. WalkAsked' /\ WalkBegan' /\ SightHolds' /\ WalkUndisturbed'
  BY <1>1, <1>2 DEF SearchInv, WalkAsked, WalkBegan, Search!Database, SightHolds, WalkUndisturbed
<1>5. WalkGrown'
  <2>1. Search!OneFilter(query)' <=> Search!OneFilter(query)
    BY <1>1
  <2> QED
    BY <1>1, <1>2, <2>1 DEF SearchInv, WalkGrown
<1>6. Search!CoverageWasTrue' /\ Search!DetailIsOneImport'
  BY <1>1 DEF SearchInv, Search!CoverageWasTrue, Search!DetailIsOneImport, Search!ToSet
<1> QED
  BY <1>3, <1>4, <1>5, <1>6 DEF SearchInv

\* A search for games is honest however the tables change: a walk misses no game that
\* matched when it began unless a write corrected one or took one out, or the query
\* combines two of the opening, analysis and preferred filters; every coverage given was
\* true at some moment; undisturbed pages hold each matching game once and in order
\* (SearchIsHonest).
THEOREM SearchesStayHonest == ReadsSpec => []SearchIsHonest
<1>1. ReadsInit => SearchInv
  BY SearchBegins DEF ReadsInit
<1>2. SearchInv /\ [ReadsNext]_reads => SearchInv'
  BY SearchKeeps, SearchRests DEF ReadsNext, reads
<1>3. SearchInv => SearchIsHonest
  BY SearchInvIsHonest DEF SearchIsHonest
<1> QED
  BY <1>1, <1>2, <1>3, PTL DEF ReadsSpec

-----------------------------------------------------------------------------
(* Moves and where they lead. *)

Led(p, m) == IF <<p, m>> \in DOMAIN Leads THEN Leads[<<p, m>>] ELSE NoPosition

Leading(f, w, n) == f = [i \in 0 .. n |-> IF i = 0 THEN Beginning ELSE Led(f[i - 1], w[i])]

\* What holds of the first number, and of each with the one before it, holds of all.
LEMMA Onward ==
  ASSUME NEW n \in Nat, NEW T, 0 \in T, \A k \in 1 .. n : k - 1 \in T => k \in T
  PROVE  0 .. n \subseteq T
<1> SUFFICES ASSUME NEW x \in 0 .. n, x \notin T PROVE FALSE
  OBVIOUS
<1> DEFINE U == {k \in 0 .. n : k \notin T}
<1>1. U \in SUBSET Nat /\ U # {}
  OBVIOUS
<1>2. PICK k \in U : \A y \in U : k <= y
  BY <1>1, LeastIs
<1>3. k \in 1 .. n /\ k - 1 \in 0 .. n /\ ~ (k <= k - 1)
  BY <1>2
<1>4. k - 1 \in T
  BY <1>2, <1>3
<1> QED
  BY <1>2, <1>3, <1>4

\* The recursion that follows the moves has a solution.
LEMMA AlongExists ==
  ASSUME NEW w, NEW n \in Nat
  PROVE  \E f : Leading(f, w, n)
<1> DEFINE T == {k \in 0 .. n : \E f : Leading(f, w, k)}
<1>1. 0 \in T
  <2> DEFINE f == [i \in 0 .. 0 |-> Beginning]
  <2>1. Leading(f, w, 0)
    BY DEF Leading
  <2> QED
    BY <2>1
<1>2. ASSUME NEW k \in 1 .. n, k - 1 \in T PROVE k \in T
  <2>1. PICK f : Leading(f, w, k - 1)
    BY <1>2
  <2> DEFINE g == [i \in 0 .. k |-> IF i = k THEN Led(f[k - 1], w[k]) ELSE f[i]]
  <2>2. \A i \in 0 .. k - 1 : g[i] = f[i]
    OBVIOUS
  <2>3. \A i \in 0 .. k - 1 : f[i] = IF i = 0 THEN Beginning ELSE Led(f[i - 1], w[i])
    BY <2>1 DEF Leading
  <2>4. g[k] = Led(f[k - 1], w[k])
    OBVIOUS
  <2> HIDE DEF g
  <2>5. ASSUME NEW i \in 0 .. k PROVE g[i] = IF i = 0 THEN Beginning ELSE Led(g[i - 1], w[i])
    <3>1. CASE i = k
      <4>1. k - 1 \in 0 .. k - 1 /\ i # 0
        BY <3>1
      <4> QED
        BY <2>2, <2>4, <3>1, <4>1
    <3>2. CASE i # k
      <4>1. i \in 0 .. k - 1 /\ (i # 0 => i - 1 \in 0 .. k - 1)
        BY <3>2
      <4> QED
        BY <2>2, <2>3, <4>1
    <3> QED
      BY <3>1, <3>2
  <2>6. Leading(g, w, k)
    <3>1. DOMAIN g = 0 .. k /\ g = [i \in 0 .. k |-> g[i]]
      BY DEF g
    <3> QED
      BY <2>5, <3>1 DEF Leading
  <2> QED
    BY <2>6
<1> HIDE DEF T
<1>3. n \in T
  BY <1>1, <1>2, Onward
<1> QED
  BY <1>3 DEF T

LEMMA AlongIs ==
  ASSUME NEW w \in Seq(Nat)
  PROVE  /\ DOMAIN Catalogue!Along(w) = 0 .. Len(w)
         /\ Catalogue!Along(w)[0] = Beginning
         /\ \A n \in 1 .. Len(w) : Catalogue!Along(w)[n] = Led(Catalogue!Along(w)[n - 1], w[n])
<1> DEFINE a == Catalogue!Along(w)
<1>1. Len(w) \in Nat
  OBVIOUS
<1>2. \E f : Leading(f, w, Len(w))
  BY <1>1, AlongExists
<1>3. Leading(a, w, Len(w))
  BY <1>2 DEF Leading, Led, Catalogue!Along
<1> HIDE DEF a
<1>4. DOMAIN a = 0 .. Len(w) /\ \A i \in 0 .. Len(w) : a[i] = IF i = 0 THEN Beginning ELSE Led(a[i - 1], w[i])
  BY <1>3 DEF Leading
<1>5. a[0] = Beginning /\ \A n \in 1 .. Len(w) : a[n] = Led(a[n - 1], w[n])
  BY <1>1, <1>4
<1> QED
  BY <1>4, <1>5 DEF a

\* What has been reached does not depend on the moves to come.
LEMMA AlongPrefix ==
  ASSUME NEW w \in Seq(Nat), NEW n \in 0 .. Len(w), NEW v, v = SubSeq(w, 1, n)
  PROVE  /\ v \in Seq(Nat) /\ Len(v) = n /\ DOMAIN v = 1 .. n
         /\ \A k \in 0 .. n : Catalogue!Along(v)[k] = Catalogue!Along(w)[k]
         /\ \A k \in 0 .. n : SubSeq(v, 1, k) = SubSeq(w, 1, k)
<1>1. v \in Seq(Nat) /\ Len(v) = n /\ n \in Nat /\ \A k \in 1 .. n : v[k] = w[k]
  OBVIOUS
<1>2. DOMAIN v = 1 .. n /\ Len(w) \in Nat
  BY <1>1
<1> DEFINE T == {k \in 0 .. n : Catalogue!Along(v)[k] = Catalogue!Along(w)[k]}
<1>3. 0 \in T
  <2>1. Catalogue!Along(v)[0] = Beginning /\ Catalogue!Along(w)[0] = Beginning
    BY <1>1, AlongIs
  <2> QED
    BY <1>1, <2>1
<1>4. ASSUME NEW k \in 1 .. n, k - 1 \in T PROVE k \in T
  <2>1. k \in 1 .. Len(w) /\ k \in 1 .. Len(v)
    BY <1>1, <1>2
  <2>2. Catalogue!Along(v)[k] = Led(Catalogue!Along(v)[k - 1], v[k]) /\ Catalogue!Along(w)[k] = Led(Catalogue!Along(w)[k - 1], w[k])
    BY <1>1, <2>1, AlongIs
  <2> QED
    BY <1>1, <1>4, <2>2
<1> HIDE DEF T
<1>5. 0 .. n \subseteq T
  BY <1>1, <1>3, <1>4, Onward
<1>6. \A k \in 0 .. n : SubSeq(v, 1, k) = SubSeq(w, 1, k)
  OBVIOUS
<1> QED
  BY <1>1, <1>2, <1>5, <1>6 DEF T

-----------------------------------------------------------------------------
(* How routes, labels and entries are sorted. *)

\* A list of moves, continued by nothing.
Pad(w, k) == IF k \in 1 .. Len(w) THEN w[k] + 1 ELSE 0

Earlier(v, w) == \E k \in Nat \ {0} : Pad(v, k) < Pad(w, k) /\ \A j \in 1 .. k - 1 : Pad(v, j) = Pad(w, j)

LEMMA PadIs ==
  ASSUME NEW w \in Seq(Nat), NEW k \in Nat
  PROVE  /\ Pad(w, k) \in Nat /\ (Pad(w, k) > 0 <=> k \in 1 .. Len(w))
         /\ k \in 1 .. Len(w) => w[k] \in Nat /\ Pad(w, k) = w[k] + 1
<1>1. k \in 1 .. Len(w) => w[k] \in Nat
  OBVIOUS
<1> QED
  BY <1>1 DEF Pad

LEMMA MovesBeforeIs ==
  ASSUME NEW v \in Seq(Nat), NEW w \in Seq(Nat)
  PROVE  Catalogue!MovesBefore(v, w) <=> Earlier(v, w)
<1>1. DOMAIN v = 1 .. Len(v) /\ DOMAIN w = 1 .. Len(w) /\ Len(v) \in Nat /\ Len(w) \in Nat
  OBVIOUS
<1>2. ASSUME Len(v) < Len(w), \A k \in DOMAIN v : v[k] = w[k] PROVE Earlier(v, w)
  <2> DEFINE k == Len(v) + 1
  <2>1. k \in Nat \ {0} /\ k \in 1 .. Len(w) /\ k \notin 1 .. Len(v)
    BY <1>1, <1>2
  <2>2. Pad(v, k) < Pad(w, k)
    BY <2>1, PadIs
  <2>3. \A j \in 1 .. k - 1 : Pad(v, j) = Pad(w, j)
    <3>1. \A j \in 1 .. k - 1 : j \in 1 .. Len(v) /\ j \in 1 .. Len(w) /\ v[j] = w[j]
      BY <1>1, <1>2
    <3> QED
      BY <3>1 DEF Pad
  <2> QED
    BY <2>1, <2>2, <2>3 DEF Earlier
<1>3. ASSUME NEW k \in DOMAIN v \cap DOMAIN w, v[k] < w[k], \A j \in 1 .. (k - 1) : v[j] = w[j] PROVE Earlier(v, w)
  <2>1. k \in Nat \ {0} /\ k \in 1 .. Len(v) /\ k \in 1 .. Len(w)
    BY <1>1
  <2>2. Pad(v, k) < Pad(w, k)
    BY <2>1, <1>3, PadIs
  <2>3. \A j \in 1 .. k - 1 : Pad(v, j) = Pad(w, j)
    BY <1>1, <1>3 DEF Pad
  <2> QED
    BY <2>1, <2>2, <2>3 DEF Earlier
<1>4. ASSUME Earlier(v, w) PROVE Catalogue!MovesBefore(v, w)
  <2>1. PICK k \in Nat \ {0} : Pad(v, k) < Pad(w, k) /\ \A j \in 1 .. k - 1 : Pad(v, j) = Pad(w, j)
    BY <1>4 DEF Earlier
  <2>2. k \in 1 .. Len(w) /\ Pad(w, k) = w[k] + 1 /\ w[k] \in Nat /\ Pad(v, k) \in Nat
    <3>1. Pad(v, k) \in Nat /\ Pad(w, k) \in Nat
      BY PadIs
    <3>2. Pad(w, k) > 0
      BY <2>1, <3>1
    <3> QED
      BY <3>1, <3>2, PadIs
  <2>3. \A j \in 1 .. k - 1 : j \in 1 .. Len(v) \/ j \in 1 .. Len(w) => v[j] = w[j] /\ j \in 1 .. Len(v)
    <3> SUFFICES ASSUME NEW j \in 1 .. k - 1, j \in 1 .. Len(v) \/ j \in 1 .. Len(w) PROVE v[j] = w[j] /\ j \in 1 .. Len(v)
      OBVIOUS
    <3>1. j \in Nat /\ Pad(v, j) = Pad(w, j)
      BY <2>1
    <3>2. j \in 1 .. Len(v) /\ j \in 1 .. Len(w)
      BY <3>1, PadIs
    <3>3. Pad(v, j) = v[j] + 1 /\ Pad(w, j) = w[j] + 1 /\ v[j] \in Nat /\ w[j] \in Nat
      BY <3>1, <3>2, PadIs
    <3>5. v[j] + 1 = w[j] + 1
      BY <3>1, <3>3, Zenon
    <3>4. v[j] = w[j]
      BY <3>3, <3>5
    <3> QED
      BY <3>2, <3>4
  <2>4. \A j \in 1 .. k - 1 : v[j] = w[j]
    BY <1>1, <2>2, <2>3
  <2>5. CASE k \in 1 .. Len(v)
    <3>0. Pad(v, k) = v[k] + 1 /\ v[k] \in Nat
      BY <2>5, PadIs
    <3>1. v[k] < w[k]
      BY <2>1, <2>2, <3>0
    <3> QED
      BY <1>1, <2>2, <2>4, <2>5, <3>1 DEF Catalogue!MovesBefore
  <2>6. CASE k \notin 1 .. Len(v)
    <3>1. Len(v) < Len(w)
      BY <1>1, <2>2, <2>6
    <3>2. \A j \in DOMAIN v : j \in 1 .. k - 1
      BY <1>1, <2>2, <2>6
    <3> QED
      BY <3>1, <3>2, <2>4 DEF Catalogue!MovesBefore
  <2> QED
    BY <2>5, <2>6
<1> QED
  BY <1>2, <1>3, <1>4 DEF Catalogue!MovesBefore

LEMMA EarlierOrders ==
  ASSUME NEW u \in Seq(Nat), NEW v \in Seq(Nat), NEW w \in Seq(Nat)
  PROVE  /\ u # v => Earlier(u, v) \/ Earlier(v, u)
         /\ ~ (Earlier(u, v) /\ Earlier(v, u))
         /\ Earlier(u, v) /\ Earlier(v, w) => Earlier(u, w)
<1>1. \A k \in Nat : Pad(u, k) \in Nat /\ Pad(v, k) \in Nat /\ Pad(w, k) \in Nat
  BY PadIs
<1>2. ASSUME u # v PROVE Earlier(u, v) \/ Earlier(v, u)
  <2> DEFINE D == {k \in Nat \ {0} : Pad(u, k) # Pad(v, k)}
  <2>1. D # {}
    <3>1. SUFFICES ASSUME D = {} PROVE FALSE
      OBVIOUS
    <3>2. \A k \in Nat \ {0} : Pad(u, k) = Pad(v, k)
      BY <3>1
    <3>3. \A k \in Nat \ {0} : k \in 1 .. Len(u) <=> k \in 1 .. Len(v)
      <4> SUFFICES ASSUME NEW k \in Nat \ {0} PROVE k \in 1 .. Len(u) <=> k \in 1 .. Len(v)
        OBVIOUS
      <4>1. (Pad(u, k) > 0 <=> k \in 1 .. Len(u)) /\ (Pad(v, k) > 0 <=> k \in 1 .. Len(v))
        BY PadIs
      <4> QED
        BY <3>2, <4>1
    <3>4. Len(u) = Len(v)
      <4>1. Len(u) \in Nat /\ Len(v) \in Nat
        OBVIOUS
      <4>2. Len(u) # 0 => Len(u) \in 1 .. Len(v)
        BY <3>3, <4>1
      <4>3. Len(v) # 0 => Len(v) \in 1 .. Len(u)
        BY <3>3, <4>1
      <4> QED
        BY <4>1, <4>2, <4>3
    <3>5. \A k \in 1 .. Len(u) : u[k] = v[k]
      <4> SUFFICES ASSUME NEW k \in 1 .. Len(u) PROVE u[k] = v[k]
        OBVIOUS
      <4>1. k \in Nat \ {0} /\ k \in 1 .. Len(v)
        BY <3>4
      <4>2. Pad(u, k) = u[k] + 1 /\ Pad(v, k) = v[k] + 1 /\ u[k] \in Nat /\ v[k] \in Nat
        BY <4>1, PadIs
      <4> QED
        BY <3>2, <4>1, <4>2
    <3>6. u = [k \in 1 .. Len(u) |-> u[k]] /\ v = [k \in 1 .. Len(v) |-> v[k]]
      OBVIOUS
    <3>7. [k \in 1 .. Len(u) |-> u[k]] = [k \in 1 .. Len(v) |-> v[k]]
      BY <3>4, <3>5, Zenon
    <3> QED
      BY <1>2, <3>6, <3>7
  <2>2. D \in SUBSET Nat
    OBVIOUS
  <2>3. PICK k \in D : \A j \in D : k <= j
    BY <2>1, <2>2, LeastIs
  <2>4. k \in Nat \ {0} /\ Pad(u, k) # Pad(v, k)
    OBVIOUS
  <2>5. \A j \in 1 .. k - 1 : Pad(u, j) = Pad(v, j)
    <3> SUFFICES ASSUME NEW j \in 1 .. k - 1 PROVE Pad(u, j) = Pad(v, j)
      OBVIOUS
    <3>1. j \in Nat \ {0} /\ ~ (k <= j)
      BY <2>4
    <3> QED
      BY <2>3, <3>1
  <2>6. Pad(u, k) < Pad(v, k) \/ Pad(v, k) < Pad(u, k)
    BY <1>1, <2>4
  <2> QED
    BY <2>4, <2>5, <2>6 DEF Earlier
<1>3. ASSUME NEW x \in Seq(Nat), NEW y \in Seq(Nat), NEW z \in Seq(Nat), Earlier(x, y), Earlier(y, z) PROVE Earlier(x, z)
  <2>0. \A k \in Nat : Pad(x, k) \in Nat /\ Pad(y, k) \in Nat /\ Pad(z, k) \in Nat
    BY PadIs
  <2>1. PICK k \in Nat \ {0} : Pad(x, k) < Pad(y, k) /\ \A j \in 1 .. k - 1 : Pad(x, j) = Pad(y, j)
    BY <1>3 DEF Earlier
  <2>2. PICK l \in Nat \ {0} : Pad(y, l) < Pad(z, l) /\ \A j \in 1 .. l - 1 : Pad(y, j) = Pad(z, j)
    BY <1>3 DEF Earlier
  <2>3. CASE k < l
    <3>1. k \in 1 .. l - 1 /\ \A j \in 1 .. k - 1 : j \in 1 .. l - 1
      BY <2>3
    <3>2. Pad(x, k) < Pad(z, k) /\ \A j \in 1 .. k - 1 : Pad(x, j) = Pad(z, j)
      BY <2>1, <2>2, <3>1
    <3> QED
      BY <3>2 DEF Earlier
  <2>4. CASE ~ (k < l)
    <3>1. l \in 1 .. k /\ \A j \in 1 .. l - 1 : j \in 1 .. k - 1
      BY <2>4
    <3>2. Pad(x, l) <= Pad(y, l)
      <4>1. l = k \/ l \in 1 .. k - 1
        BY <3>1
      <4>2. Pad(x, l) < Pad(y, l) \/ Pad(x, l) = Pad(y, l)
        BY <2>1, <4>1
      <4>3. Pad(x, l) \in Nat /\ Pad(y, l) \in Nat
        BY <2>0
      <4> QED
        BY <4>2, <4>3
    <3>3. Pad(x, l) < Pad(z, l) /\ \A j \in 1 .. l - 1 : Pad(x, j) = Pad(z, j)
      <4>1. Pad(x, l) \in Nat /\ Pad(y, l) \in Nat /\ Pad(z, l) \in Nat
        BY <2>0
      <4>2. Pad(x, l) < Pad(z, l)
        BY <2>2, <3>2, <4>1
      <4>3. \A j \in 1 .. l - 1 : Pad(x, j) = Pad(z, j)
        BY <2>1, <2>2, <3>1, Zenon
      <4> QED
        BY <4>2, <4>3
    <3> QED
      BY <3>3 DEF Earlier
  <2> QED
    BY <2>3, <2>4
<1>4. ~ Earlier(u, u)
  <2> SUFFICES ASSUME NEW k \in Nat \ {0}, Pad(u, k) < Pad(u, k) PROVE FALSE
    BY DEF Earlier
  <2> QED
    BY <1>1
<1> QED
  BY <1>2, <1>3, <1>4

LEMMA CatSizeIs == \A S : Catalogue!Cardinality(S) = Cardinality(S)
BY Zenon DEF Catalogue!Cardinality, Cardinality

LEMMA CatFiniteIs == \A S : Catalogue!IsFiniteSet(S) <=> IsFiniteSet(S)
BY Zenon DEF Catalogue!IsFiniteSet, IsFiniteSet

LEMMA CatSeqsAre == \A S : Catalogue!SetToSeqs(S) = SetToSeqs(S)
BY Zenon, CatSizeIs DEF Catalogue!SetToSeqs, SetToSeqs

LEMMA CatToSetIs == \A q : Catalogue!ToSet(q) = {q[i] : i \in DOMAIN q}
BY DEF Catalogue!ToSet

\* A route, as it is published.
Route(r) ==
  /\ r = [label |-> r.label, moves |-> r.moves] /\ r.label \in Labels /\ r.label \in Nat
  /\ r.moves \in Seq(Nat) /\ r.moves # << >> /\ Len(r.moves) \in Nat \ {0}
  /\ Catalogue!Endpoint(r.moves) # NoPosition

LEMMA CatalogueConstants ==
  /\ Labels \subseteq Nat /\ Unnamed \subseteq Labels
  /\ \A s \in Sources : IsFiniteSet(s) /\ \A r \in s : Route(r)
  /\ IsFiniteSet(DOMAIN Scores) /\ \A g \in DOMAIN Scores : Scores[g] \in Seq(Nat)
  /\ PageSizes \subseteq Nat \ {0}
  /\ \A l \in Labels : EcoOf[l] \in Nat /\ NameOf[l] \in Nat
<1>1. /\ Labels \subseteq Nat /\ Unnamed \subseteq Labels
      /\ \A s \in Sources : /\ Catalogue!IsFiniteSet(s) /\ s \subseteq [label : Labels, moves : Seq(Nat) \ {<< >>}]
                            /\ \A r \in s : Catalogue!Endpoint(r.moves) # NoPosition
      /\ Catalogue!IsFiniteSet(DOMAIN Scores) /\ \A g \in DOMAIN Scores : Scores[g] \in Seq(Nat)
      /\ PageSizes \subseteq Nat \ {0}
      /\ EcoOf \in [Labels -> Nat] /\ NameOf \in [Labels -> Nat]
  BY CatalogueHolds, Zenon DEF Catalogue!CatalogueAssumption
<1>2. ASSUME NEW s \in Sources, NEW r \in s PROVE Route(r)
  <2>1. r \in [label : Labels, moves : Seq(Nat) \ {<< >>}] /\ Catalogue!Endpoint(r.moves) # NoPosition
    BY <1>1
  <2>2. r = [label |-> r.label, moves |-> r.moves] /\ r.label \in Labels /\ r.moves \in Seq(Nat) /\ r.moves # << >>
    BY <2>1
  <2>3. r.label \in Nat
    BY <1>1, <2>2
  <2>4. Len(r.moves) \in Nat \ {0}
    BY <2>2
  <2> QED
    BY <2>1, <2>2, <2>3, <2>4 DEF Route
<1>3. \A l \in Labels : EcoOf[l] \in Nat /\ NameOf[l] \in Nat
  BY <1>1
<1> QED
  BY <1>1, <1>2, <1>3, CatFiniteIs

LEMMA RoutesInOrder ==
  ASSUME NEW s \in Sources
  PROVE  /\ \A x, y \in s : x # y => Catalogue!RouteBefore(x, y) \/ Catalogue!RouteBefore(y, x)
         /\ \A x, y \in s : Catalogue!RouteBefore(x, y) => ~ Catalogue!RouteBefore(y, x)
         /\ \A x, y, z \in s : Catalogue!RouteBefore(x, y) /\ Catalogue!RouteBefore(y, z) => Catalogue!RouteBefore(x, z)
<1>1. \A x \in s : Route(x)
  BY CatalogueConstants
<1>2. \A x, y \in s : Catalogue!RouteBefore(x, y) <=> x.label < y.label \/ (x.label = y.label /\ Earlier(x.moves, y.moves))
  BY <1>1, MovesBeforeIs DEF Catalogue!RouteBefore, Route
<1>3. ASSUME NEW x \in s, NEW y \in s, NEW z \in s
      PROVE  /\ x # y => Catalogue!RouteBefore(x, y) \/ Catalogue!RouteBefore(y, x)
             /\ ~ (Catalogue!RouteBefore(x, y) /\ Catalogue!RouteBefore(y, x))
             /\ Catalogue!RouteBefore(x, y) /\ Catalogue!RouteBefore(y, z) => Catalogue!RouteBefore(x, z)
  <2>1. x.label \in Nat /\ y.label \in Nat /\ z.label \in Nat
    BY <1>1 DEF Route
  <2>2. x # y /\ x.label = y.label => x.moves # y.moves
    BY <1>1 DEF Route
  <2>3. x.moves \in Seq(Nat) /\ y.moves \in Seq(Nat) /\ z.moves \in Seq(Nat)
    BY <1>1 DEF Route
  <2>4. /\ x.moves # y.moves => Earlier(x.moves, y.moves) \/ Earlier(y.moves, x.moves)
        /\ ~ (Earlier(x.moves, y.moves) /\ Earlier(y.moves, x.moves))
        /\ Earlier(x.moves, y.moves) /\ Earlier(y.moves, z.moves) => Earlier(x.moves, z.moves)
    BY <2>3, EarlierOrders
  <2> QED
    BY <1>2, <2>1, <2>2, <2>4
<1> QED
  BY <1>3

LEMMA InOrderExists ==
  ASSUME NEW S, IsFiniteSet(S), NEW R, Orders(R, S), NEW Q,
         Q = {q \in SetToSeqs(S) : \A i, j \in DOMAIN q : i < j => <<q[i], q[j]>> \in R}
  PROVE  Q # {}
<1>1. PICK q \in [1 .. Cardinality(S) -> S] : \A i, j \in 1 .. Cardinality(S) : i < j => <<q[i], q[j]>> \in R
  BY OrderExists
<1>2. q \in SetToSeqs(S)
  BY <1>1, OrderedIs
<1>3. DOMAIN q = 1 .. Cardinality(S)
  BY <1>1
<1> QED
  BY <1>1, <1>2, <1>3

\* The rows of a publication, in the order of their identifiers.
RoutesOf(s) ==
  CHOOSE q \in Catalogue!SetToSeqs(s) : \A i, j \in DOMAIN q : i < j => Catalogue!RouteBefore(q[i], q[j])

LabelsOf(s) ==
  CHOOSE q \in Catalogue!SetToSeqs({r.label : r \in s}) : \A i, j \in DOMAIN q : i < j => q[i] < q[j]

LEMMA RoutesOfAre ==
  ASSUME NEW s \in Sources
  PROVE  RoutesOf(s) \in SetToSeqs(s)
<1> DEFINE R == {p \in s \X s : Catalogue!RouteBefore(p[1], p[2])}
<1>1. \A x, y \in s : <<x, y>> \in R <=> Catalogue!RouteBefore(x, y)
  OBVIOUS
<1> HIDE DEF R
<1>2. Orders(R, s)
  BY <1>1, RoutesInOrder DEF Orders
<1>3. IsFiniteSet(s)
  BY CatalogueConstants
<1>4. {q \in SetToSeqs(s) : \A i, j \in DOMAIN q : i < j => <<q[i], q[j]>> \in R} # {}
  BY <1>2, <1>3, InOrderExists
<1>5. PICK q \in SetToSeqs(s) : \A i, j \in DOMAIN q : i < j => <<q[i], q[j]>> \in R
  BY <1>4
<1>6. \A i \in DOMAIN q : q[i] \in s
  BY <1>3, <1>5, SeqsCover
<1>7. \A i, j \in DOMAIN q : i < j => Catalogue!RouteBefore(q[i], q[j])
  BY <1>1, <1>5, <1>6
<1>8. q \in Catalogue!SetToSeqs(s)
  BY CatSeqsAre
<1>9. RoutesOf(s) \in Catalogue!SetToSeqs(s)
  BY <1>7, <1>8, Zenon DEF RoutesOf
<1> QED
  BY <1>9, CatSeqsAre

LEMMA LabelsOfAre ==
  ASSUME NEW s \in Sources
  PROVE  LabelsOf(s) \in SetToSeqs({r.label : r \in s}) /\ IsFiniteSet({r.label : r \in s})
<1> DEFINE L == {r.label : r \in s}
           R == {p \in L \X L : p[1] < p[2]}
           f == [r \in s |-> r.label]
<1>1. \A x \in L : x \in Nat
  BY CatalogueConstants DEF Route
<1>2. IsFiniteSet(L)
  <2>1. f \in Surjection(s, L)
    BY DEF Surjection
  <2> QED
    BY <2>1, CatalogueConstants, FS_Surjection
<1> HIDE DEF L
<1>3. \A x, y \in L : <<x, y>> \in R <=> x < y
  OBVIOUS
<1> HIDE DEF R
<1>4. Orders(R, L)
  BY <1>1, <1>3 DEF Orders
<1>5. PICK q \in SetToSeqs(L) : \A i, j \in DOMAIN q : i < j => <<q[i], q[j]>> \in R
  <2>1. {q \in SetToSeqs(L) : \A i, j \in DOMAIN q : i < j => <<q[i], q[j]>> \in R} # {}
    BY <1>2, <1>4, InOrderExists
  <2> QED
    BY <2>1
<1>6. \A i \in DOMAIN q : q[i] \in L
  BY <1>2, <1>5, SeqsCover
<1>7. \A i, j \in DOMAIN q : i < j => q[i] < q[j]
  BY <1>3, <1>5, <1>6
<1>8. q \in Catalogue!SetToSeqs(L)
  BY CatSeqsAre
<1>9. LabelsOf(s) \in Catalogue!SetToSeqs(L)
  BY <1>7, <1>8, Zenon DEF LabelsOf, L
<1> QED
  BY <1>2, <1>9, CatSeqsAre DEF L

-----------------------------------------------------------------------------
(* What recognition makes of the rows it reads. *)

RowsOf(s) ==
  [id \in DOMAIN RoutesOf(s) |->
     [label |-> RoutesOf(s)[id].label, endpoint |-> Catalogue!Endpoint(RoutesOf(s)[id].moves)]]

Ply(q, id, n) == [route |-> id, ply |-> n, move |-> q[id].moves[n]]

PliesOf(s) == UNION {{Ply(RoutesOf(s), id, n) : n \in DOMAIN RoutesOf(s)[id].moves} : id \in DOMAIN RoutesOf(s)}

LEMMA TablesAre ==
  ASSUME NEW s
  PROVE  Catalogue!Tables(s) = [labels |-> LabelsOf(s), routes |-> RowsOf(s), moves |-> PliesOf(s)]
BY DEF Catalogue!Tables, LabelsOf, RowsOf, PliesOf, RoutesOf, Ply

LEMMA RoutesOfGive ==
  ASSUME NEW s \in Sources
  PROVE  /\ DOMAIN RoutesOf(s) = 1 .. Cardinality(s) /\ Cardinality(s) \in Nat
         /\ \A id \in DOMAIN RoutesOf(s) :
              LET w == RoutesOf(s)[id].moves
              IN  RoutesOf(s)[id] \in s /\ Route(RoutesOf(s)[id]) /\ w \in Seq(Nat) /\ DOMAIN w = 1 .. Len(w) /\ Len(w) \in Nat \ {0}
         /\ \A r \in s : \E id \in DOMAIN RoutesOf(s) : RoutesOf(s)[id] = r
<1> DEFINE q == RoutesOf(s)
<1>1. IsFiniteSet(s) /\ (\A r \in s : Route(r)) /\ q \in SetToSeqs(s)
  BY RoutesOfAre, CatalogueConstants
<1>2. /\ q \in Seq(s) /\ Len(q) = Cardinality(s) /\ \A r \in s : \E i \in 1 .. Len(q) : q[i] = r
  BY <1>1, SeqsCover
<1> HIDE DEF q
<1>3. DOMAIN q = 1 .. Len(q) /\ Len(q) \in Nat /\ \A id \in 1 .. Len(q) : q[id] \in s
  BY <1>2
<1>4. ASSUME NEW id \in DOMAIN q
      PROVE  LET w == q[id].moves
             IN  q[id] \in s /\ Route(q[id]) /\ w \in Seq(Nat) /\ DOMAIN w = 1 .. Len(w) /\ Len(w) \in Nat \ {0}
  <2>1. q[id] \in s /\ Route(q[id])
    BY <1>1, <1>3
  <2>2. q[id].moves \in Seq(Nat) /\ Len(q[id].moves) \in Nat \ {0}
    BY <2>1 DEF Route
  <2>3. DOMAIN q[id].moves = 1 .. Len(q[id].moves)
    BY <2>2
  <2> QED
    BY <2>1, <2>2, <2>3
<1> QED
  BY <1>2, <1>3, <1>4 DEF q

LEMMA MovesOfAre ==
  ASSUME NEW s \in Sources, NEW id
  PROVE  /\ id \in DOMAIN RoutesOf(s) => Catalogue!MovesOf(id, PliesOf(s)) = RoutesOf(s)[id].moves
         /\ id \notin DOMAIN RoutesOf(s) => Catalogue!MovesOf(id, PliesOf(s)) = << >>
<1> DEFINE q == RoutesOf(s)
           mine == {m \in PliesOf(s) : m.route = id}
<1>1. \A m : m \in PliesOf(s) <=> \E k \in DOMAIN q : \E n \in DOMAIN q[k].moves : m = Ply(q, k, n)
  BY DEF PliesOf
<1>2. \A k, n : Ply(q, k, n).route = k /\ Ply(q, k, n).ply = n /\ Ply(q, k, n).move = q[k].moves[n]
  BY DEF Ply
<1>3. Catalogue!MovesOf(id, PliesOf(s)) =
        IF {m.ply : m \in mine} = 1 .. Cardinality(mine)
          THEN [n \in 1 .. Cardinality(mine) |-> (CHOOSE m \in mine : m.ply = n).move]
          ELSE << >>
  BY CatSizeIs DEF Catalogue!MovesOf
<1>4. \A m : m \in mine <=> id \in DOMAIN q /\ \E n \in DOMAIN q[id].moves : m = Ply(q, id, n)
  BY <1>1, <1>2
<1> HIDE DEF mine
<1>5. ASSUME id \in DOMAIN q PROVE Catalogue!MovesOf(id, PliesOf(s)) = q[id].moves
  <2> DEFINE w == q[id].moves
             f == [n \in 1 .. Len(w) |-> Ply(q, id, n)]
  <2>1. w \in Seq(Nat) /\ DOMAIN w = 1 .. Len(w) /\ Len(w) \in Nat
    BY <1>5, RoutesOfGive
  <2>2. \A m : m \in mine <=> \E n \in 1 .. Len(w) : m = Ply(q, id, n)
    BY <1>4, <1>5, <2>1
  <2>3. Cardinality(mine) = Len(w)
    <3>1. f \in [1 .. Len(w) -> mine]
      BY <2>2
    <3>2. \A x, y \in 1 .. Len(w) : f[x] = f[y] => x = y
      <4>1. \A x \in 1 .. Len(w) : f[x].ply = x
        BY <1>2
      <4> HIDE DEF f
      <4> QED
        BY <4>1
    <3>3. \A z \in mine : \E x \in 1 .. Len(w) : f[x] = z
      BY <2>2
    <3>4. IsFiniteSet(1 .. Len(w)) /\ Cardinality(1 .. Len(w)) = Len(w)
      BY <2>1, FS_Interval
    <3> HIDE DEF f, w
    <3>5. IsFiniteSet(mine) /\ Cardinality(mine) = Cardinality(1 .. Len(w))
      BY <3>1, <3>2, <3>3, <3>4, SameCount
    <3> QED
      BY <3>4, <3>5
  <2>4. {m.ply : m \in mine} = 1 .. Len(w)
    BY <1>2, <2>2
  <2>5. ASSUME NEW n \in 1 .. Len(w) PROVE (CHOOSE m \in mine : m.ply = n).move = w[n]
    <3>1. Ply(q, id, n) \in mine /\ Ply(q, id, n).ply = n
      BY <1>2, <2>2
    <3>2. \A m \in mine : m.ply = n => m.move = w[n]
      BY <1>2, <2>2
    <3>3. (CHOOSE m \in mine : m.ply = n) \in mine /\ (CHOOSE m \in mine : m.ply = n).ply = n
      BY <3>1
    <3> QED
      BY <3>2, <3>3
  <2> HIDE DEF w
  <2>6. Catalogue!MovesOf(id, PliesOf(s)) = [n \in 1 .. Len(w) |-> (CHOOSE m \in mine : m.ply = n).move]
    BY <1>3, <2>3, <2>4
  <2>7. [n \in 1 .. Len(w) |-> (CHOOSE m \in mine : m.ply = n).move] = [n \in 1 .. Len(w) |-> w[n]]
    BY <2>5, Zenon
  <2>8. w = [n \in 1 .. Len(w) |-> w[n]]
    BY <2>1
  <2> QED
    BY <2>6, <2>7, <2>8, Zenon DEF w
<1>6. ASSUME id \notin DOMAIN q PROVE Catalogue!MovesOf(id, PliesOf(s)) = << >>
  <2>1. mine = {}
    BY <1>4, <1>6
  <2>2. Cardinality(mine) = 0
    BY <2>1, FS_EmptySet
  <2>3. [n \in 1 .. 0 |-> (CHOOSE m \in mine : m.ply = n).move] = << >>
    OBVIOUS
  <2> QED
    BY <1>3, <2>2, <2>3
<1> QED
  BY <1>5, <1>6

\* The rows of two publications that recognition accepts are those of routes that can be played.
LEMMA JoinedAre ==
  ASSUME NEW s \in Sources, NEW t \in Sources, NEW X, X = Catalogue!Materialized(RowsOf(s), PliesOf(t)),
         Catalogue!Sane(RowsOf(s), PliesOf(t))
  PROVE  /\ IsFiniteSet(X)
         /\ \A x \in X : Route(x) /\ \E y \in s : y.label = x.label /\ Catalogue!Endpoint(y.moves) = Catalogue!Endpoint(x.moves)
<1> DEFINE q == RoutesOf(s)
           w(id) == Catalogue!MovesOf(id, PliesOf(t))
           f == [id \in DOMAIN q |-> [label |-> q[id].label, moves |-> w(id)]]
<1>1. DOMAIN RowsOf(s) = DOMAIN q /\ \A id \in DOMAIN q : /\ RowsOf(s)[id].label = q[id].label
                                                          /\ RowsOf(s)[id].endpoint = Catalogue!Endpoint(q[id].moves)
  BY DEF RowsOf
<1>2. X = {[label |-> q[id].label, moves |-> w(id)] : id \in DOMAIN q}
  BY <1>1 DEF Catalogue!Materialized
<1>3. \A id \in DOMAIN q : w(id) # << >> /\ Catalogue!Endpoint(w(id)) = Catalogue!Endpoint(q[id].moves)
  BY <1>1 DEF Catalogue!Sane, Catalogue!Sound
<1>4. \A id \in DOMAIN q : q[id] \in s /\ Route(q[id])
  BY RoutesOfGive
<1>5. ASSUME NEW id \in DOMAIN q PROVE w(id) \in Seq(Nat) /\ Len(w(id)) \in Nat \ {0}
  <2>1. id \in DOMAIN RoutesOf(t)
    BY <1>3, MovesOfAre
  <2>2. w(id) = RoutesOf(t)[id].moves
    BY <2>1, MovesOfAre
  <2> QED
    BY <2>1, <2>2, RoutesOfGive
<1> HIDE DEF w, q
<1>6. IsFiniteSet(X)
  <2>1. f \in Surjection(DOMAIN q, X)
    BY <1>2 DEF Surjection
  <2>2. IsFiniteSet(DOMAIN q)
    BY RoutesOfGive, FS_Interval DEF q
  <2> HIDE DEF f
  <2> QED
    BY <2>1, <2>2, FS_Surjection
<1>7. ASSUME NEW x \in X
      PROVE  Route(x) /\ \E y \in s : y.label = x.label /\ Catalogue!Endpoint(y.moves) = Catalogue!Endpoint(x.moves)
  <2>1. PICK id \in DOMAIN q : x = [label |-> q[id].label, moves |-> w(id)]
    BY <1>2
  <2>2. x.label = q[id].label /\ x.moves = w(id) /\ x = [label |-> x.label, moves |-> x.moves]
    BY <2>1
  <2>3. q[id].label \in Labels /\ q[id].label \in Nat /\ Catalogue!Endpoint(q[id].moves) # NoPosition
    BY <1>4 DEF Route
  <2> QED
    BY <1>3, <1>4, <1>5, <2>2, <2>3 DEF Route
<1> QED
  BY <1>6, <1>7

\* The rows of one publication are all accepted, and are its routes.
LEMMA WholeAre ==
  ASSUME NEW s \in Sources
  PROVE  Catalogue!Sane(RowsOf(s), PliesOf(s)) /\ Catalogue!Materialized(RowsOf(s), PliesOf(s)) = s
<1> DEFINE q == RoutesOf(s)
<1>1. DOMAIN RowsOf(s) = DOMAIN q /\ \A id \in DOMAIN q : /\ RowsOf(s)[id].label = q[id].label
                                                          /\ RowsOf(s)[id].endpoint = Catalogue!Endpoint(q[id].moves)
  BY DEF RowsOf
<1>2. \A id \in DOMAIN q : Catalogue!MovesOf(id, PliesOf(s)) = q[id].moves /\ q[id] \in s /\ Route(q[id])
  BY MovesOfAre, RoutesOfGive
<1>3. \A m \in PliesOf(s) : m.route \in DOMAIN q
  BY DEF PliesOf, Ply
<1>4. \A r \in s : \E id \in DOMAIN q : q[id] = r
  BY RoutesOfGive
<1> HIDE DEF q
<1>5. \A id \in DOMAIN q : q[id].moves # << >> /\ q[id] = [label |-> q[id].label, moves |-> q[id].moves]
  BY <1>2 DEF Route
<1>6. Catalogue!Sane(RowsOf(s), PliesOf(s))
  BY <1>1, <1>2, <1>3, <1>5 DEF Catalogue!Sane, Catalogue!Sound
<1>7. Catalogue!Materialized(RowsOf(s), PliesOf(s)) = {[label |-> q[id].label, moves |-> q[id].moves] : id \in DOMAIN q}
  BY <1>1, <1>2 DEF Catalogue!Materialized
<1>8. {[label |-> q[id].label, moves |-> q[id].moves] : id \in DOMAIN q} = s
  BY <1>2, <1>4, <1>5
<1> QED
  BY <1>6, <1>7, <1>8

-----------------------------------------------------------------------------
(* Which opening is recognized. *)

LEMMA FiniteGreatest ==
  ASSUME NEW S \in SUBSET Nat, IsFiniteSet(S), S # {}
  PROVE  \E x \in S : \A y \in S : y <= x
<1> DEFINE R == {p \in S \X S : p[1] < p[2]}
           n == Cardinality(S)
<1>1. \A x, y \in S : <<x, y>> \in R <=> x < y
  OBVIOUS
<1>2. \A x \in S : x \in Nat
  OBVIOUS
<1> HIDE DEF R
<1>3. Orders(R, S)
  BY <1>1, <1>2 DEF Orders
<1>4. PICK q \in [1 .. n -> S] : \A i, j \in 1 .. n : i < j => <<q[i], q[j]>> \in R
  BY <1>3, OrderExists
<1>5. q \in SetToSeqs(S)
  BY <1>3, <1>4, OrderedIs
<1>6. Len(q) = n /\ \A x \in S : \E i \in 1 .. n : q[i] = x
  BY <1>5, SeqsCover
<1>7. n \in Nat /\ n # 0
  BY FS_CardinalityType, FS_EmptySet
<1> HIDE DEF n
<1>8. n \in 1 .. n /\ q[n] \in S
  BY <1>4, <1>7
<1>9. ASSUME NEW y \in S PROVE y <= q[n]
  <2>1. PICK i \in 1 .. n : q[i] = y
    BY <1>6
  <2>2. CASE i = n
    BY <2>1, <2>2, <1>2
  <2>3. CASE i # n
    <3>1. i < n
      BY <1>7, <2>3
    <3>2. y < q[n]
      BY <1>1, <1>4, <1>8, <2>1, <3>1
    <3>3. y \in Nat /\ q[n] \in Nat
      BY <1>2, <1>8
    <3> QED
      BY <3>2, <3>3
  <2> QED
    BY <2>2, <2>3
<1> QED
  BY <1>8, <1>9

\* The deepest, a route rather than a transposition, then the smallest label.
LEMMA CurrentIs ==
  ASSUME NEW E, NEW n \in Nat, E # {}, \A e \in E : e.ply \in 0 .. n /\ e.label \in Nat,
         NEW c, c = Catalogue!Current(E)
  PROVE  LET B == {e \in E : e.ply = c.ply}
             X == {e \in B : e.match = "route"}
         IN  /\ c \in E /\ \A x \in E : x.ply <= c.ply
             /\ X # {} => c \in X /\ \A x \in X : c.label <= x.label
             /\ X = {} => \A x \in B : c.label <= x.label
<1> DEFINE B == {e \in E : e.ply = c.ply}
           X == {e \in B : e.match = "route"}
           deepest == {e \in E : \A x \in E : x.ply <= e.ply}
           exact == {e \in deepest : e.match = "route"}
           best == IF exact # {} THEN exact ELSE deepest
           P == {e.ply : e \in E}
           L == {e.label : e \in best}
<1>1. deepest # {}
  <2>1. P \in SUBSET (0 .. n) /\ P # {}
    OBVIOUS
  <2>2. PICK m \in P : \A y \in P : y <= m
    BY <2>1, GreatestIs
  <2>3. PICK e \in E : e.ply = m
    BY <2>2
  <2> QED
    BY <2>2, <2>3
<1>2. best # {} /\ best \subseteq deepest /\ deepest \subseteq E
  BY <1>1
<1>3. c = CHOOSE e \in best : \A x \in best : e.label <= x.label
  BY DEF Catalogue!Current
<1> HIDE DEF best
<1>4. c \in best /\ \A x \in best : c.label <= x.label
  <2>1. L \in SUBSET Nat /\ L # {}
    BY <1>2
  <2>2. PICK l \in L : \A y \in L : l <= y
    BY <2>1, LeastIs
  <2>3. PICK e \in best : e.label = l
    BY <2>2
  <2>4. \A x \in best : e.label <= x.label
    BY <2>2, <2>3
  <2> QED
    BY <1>3, <2>4
<1>5. c \in deepest
  BY <1>2, <1>4
<1>6. \A e \in E : e \in deepest <=> e.ply = c.ply
  <2>1. \A e \in E : e.ply \in Nat
    OBVIOUS
  <2>2. c \in E /\ \A x \in E : x.ply <= c.ply
    BY <1>5
  <2> QED
    BY <2>1, <2>2
<1>7. B = deepest
  BY <1>2, <1>6
<1> HIDE DEF deepest
<1>8. X = exact
  BY <1>7
<1>9. c \in E /\ \A x \in E : x.ply <= c.ply
  BY <1>5 DEF deepest
<1> HIDE DEF exact
<1> QED
  BY <1>4, <1>7, <1>8, <1>9 DEF best

\* What is met along the routes that end at p names p by the smallest of its labels.
LookupNames(X, p) ==
  LET here == {x.label : x \in Catalogue!EndingAt(p, X)}
      found == Catalogue!Current(Catalogue!LookupEvidence(p, X))
  IN  IF here = {} THEN found = Catalogue!NoOpening ELSE found.label \in here /\ \A l \in here : found.label <= l

LEMMA LookupIs ==
  ASSUME NEW X, IsFiniteSet(X), \A x \in X : Route(x), NEW p
  PROVE  LookupNames(X, p)
<1> SUFFICES ASSUME NEW H, H = {x.label : x \in Catalogue!EndingAt(p, X)},
                    NEW c, c = Catalogue!Current(Catalogue!LookupEvidence(p, X))
             PROVE  IF H = {} THEN c = Catalogue!NoOpening ELSE c.label \in H /\ \A l \in H : c.label <= l
  BY DEF LookupNames
<1> DEFINE E == Catalogue!LookupEvidence(p, X)
           ends(z) == Catalogue!EndingAt(z, X)
           met(n, x) == [ply |-> n, label |-> x.label, match |-> "transposition"]
           lens == {Len(r.moves) : r \in ends(p)}
<1>1. \A e : e \in E <=> \E r \in ends(p) : \E n \in DOMAIN r.moves : \E x \in ends(Catalogue!Along(r.moves)[n]) : e = met(n, x)
  BY DEF Catalogue!LookupEvidence
<1>2. \A z : ends(z) = {r \in X : Catalogue!Endpoint(r.moves) = z}
  BY DEF Catalogue!EndingAt
<1>3. \A r \in X : r.moves \in Seq(Nat) /\ Len(r.moves) \in Nat \ {0} /\ DOMAIN r.moves = 1 .. Len(r.moves) /\ r.label \in Nat
  BY DEF Route
<1>4. \A r \in X : Catalogue!Endpoint(r.moves) = Catalogue!Along(r.moves)[Len(r.moves)]
  BY DEF Catalogue!Endpoint
<1>5. \A n, x : met(n, x).ply = n /\ met(n, x).label = x.label /\ met(n, x).match = "transposition"
  OBVIOUS
<1> HIDE DEF E, ends, met
<1>6. CASE H = {}
  <2>1. ends(p) = {}
    BY <1>6 DEF ends
  <2>2. E = {}
    BY <1>1, <2>1
  <2> QED
    BY <1>6, <2>2 DEF Catalogue!Current, E
<1>7. CASE H # {}
  <2>1. ends(p) # {} /\ ends(p) \in SUBSET X
    BY <1>2, <1>7 DEF ends
  <2>2. IsFiniteSet(ends(p))
    BY <2>1, FS_Subset
  <2>3. lens \in SUBSET Nat /\ lens # {} /\ IsFiniteSet(lens)
    <3>1. [r \in ends(p) |-> Len(r.moves)] \in Surjection(ends(p), lens)
      BY DEF Surjection
    <3>2. IsFiniteSet(lens)
      <4> HIDE DEF lens
      <4> QED
        BY <2>2, <3>1, FS_Surjection
    <3> QED
      BY <1>3, <2>1, <3>2
  <2>4. PICK m \in lens : \A y \in lens : y <= m
    <3> HIDE DEF lens
    <3> QED
      BY <2>3, FiniteGreatest
  <2>5. m \in Nat /\ \A r \in ends(p) : Len(r.moves) \in Nat /\ Len(r.moves) <= m
    BY <1>3, <2>1, <2>3, <2>4
  <2>6. ASSUME NEW e \in E
        PROVE  /\ e.ply \in 0 .. m /\ e.label \in Nat /\ e.match = "transposition"
               /\ e.ply = m => e.label \in H
    <3>0. PICK r \in ends(p) : \E n \in DOMAIN r.moves : \E x \in ends(Catalogue!Along(r.moves)[n]) : e = met(n, x)
      BY <1>1
    <3>1. PICK n \in DOMAIN r.moves : \E x \in ends(Catalogue!Along(r.moves)[n]) : e = met(n, x)
      BY <3>0
    <3>6. PICK x \in ends(Catalogue!Along(r.moves)[n]) : e = met(n, x)
      BY <3>1
    <3>2. r \in X /\ x \in X /\ n \in 1 .. Len(r.moves) /\ Len(r.moves) <= m /\ Len(r.moves) \in Nat
      BY <1>2, <1>3, <2>1, <2>5, <3>6
    <3>3. e.ply = n /\ e.label = x.label /\ e.match = "transposition" /\ x.label \in Nat
      BY <1>3, <1>5, <3>6, <3>2
    <3>4. n = m => x \in ends(p)
      <4>1. n = m => n = Len(r.moves)
        BY <2>5, <3>2
      <4>2. Catalogue!Along(r.moves)[Len(r.moves)] = p
        BY <1>2, <1>4, <3>2
      <4> QED
        BY <4>1, <4>2
    <3>5. n \in 0 .. m
      BY <2>5, <3>2
    <3> QED
      BY <3>3, <3>4, <3>5 DEF ends
  <2>7. ASSUME NEW x \in ends(p) PROVE met(m, x) \in E
    <3>1. PICK r \in ends(p) : m = Len(r.moves)
      BY <2>4
    <3>2. r \in X /\ m \in DOMAIN r.moves
      BY <1>3, <2>1, <3>1
    <3>3. Catalogue!Along(r.moves)[m] = p
      BY <1>2, <1>4, <3>1, <3>2
    <3> QED
      BY <1>1, <3>1, <3>2, <3>3
  <2>8. E # {}
    BY <2>1, <2>7
  <2>9. c \in E /\ (\A x \in E : x.ply <= c.ply) /\ \A x \in E : x.ply = c.ply => c.label <= x.label
    <3> DEFINE B == {d \in E : d.ply = c.ply}
               Y == {d \in B : d.match = "route"}
    <3>1. c = Catalogue!Current(E) /\ \A e \in E : e.ply \in 0 .. m /\ e.label \in Nat
      BY <2>6 DEF E
    <3>2. Y = {}
      BY <2>6
    <3>3. Y = {d \in B : d.match = "route"} /\ B = {d \in E : d.ply = c.ply}
      OBVIOUS
    <3> HIDE DEF Y, B
    <3>4. c \in E /\ (\A x \in E : x.ply <= c.ply) /\ \A x \in B : c.label <= x.label
      <4>1. E # {} /\ m \in Nat /\ \A e \in E : e.ply \in 0 .. m /\ e.label \in Nat
      BY <2>5, <2>8, <3>1
    <4>2. LET D == {e \in E : e.ply = c.ply}
              Z == {e \in D : e.match = "route"}
          IN  /\ c \in E /\ \A x \in E : x.ply <= c.ply
              /\ Z = {} => \A x \in D : c.label <= x.label
      <5>1. c = Catalogue!Current(E)
        BY <3>1
      <5> QED
        BY <4>1, <5>1, CurrentIs, Zenon
    <4> QED
      BY <4>2, <3>2, <3>3
    <3> QED
      BY <3>3, <3>4
  <2>11. c.ply = m
    <3>1. PICK x \in ends(p) : TRUE
      BY <2>1
    <3>2. m <= c.ply
      BY <1>5, <2>7, <2>9
    <3> QED
      BY <2>5, <2>6, <2>9, <3>2
  <2>12. c.label \in H
    BY <2>6, <2>9, <2>11
  <2>13. ASSUME NEW l \in H PROVE c.label <= l
    <3>1. PICK x \in ends(p) : l = x.label
      BY DEF ends
    <3>2. met(m, x) \in E /\ met(m, x).ply = c.ply /\ met(m, x).label = l
      BY <1>5, <2>7, <2>11, <3>1
    <3> QED
      BY <2>9, <3>2
  <2> QED
    BY <1>7, <2>12, <2>13
<1> QED
  BY <1>6, <1>7

LEMMA CatMinIs ==
  ASSUME NEW S \in SUBSET Nat, NEW l \in S, \A x \in S : l <= x
  PROVE  Catalogue!Min(S) = l
<1>1. Catalogue!Min(S) \in S /\ \A y \in S : Catalogue!Min(S) <= y
  BY Zenon DEF Catalogue!Min
<1>2. Catalogue!Min(S) \in Nat /\ l \in Nat /\ Catalogue!Min(S) <= l /\ l <= Catalogue!Min(S)
  BY <1>1
<1> QED
  BY <1>2

LEMMA CatMaxIs ==
  ASSUME NEW S \in SUBSET Nat, NEW l \in S, \A x \in S : x <= l
  PROVE  Catalogue!Max(S) = l
<1>0. \A x \in S : l >= x
  OBVIOUS
<1>1. Catalogue!Max(S) \in S /\ \A y \in S : Catalogue!Max(S) >= y
  BY <1>0, Zenon DEF Catalogue!Max
<1>2. Catalogue!Max(S) \in Nat /\ l \in Nat /\ Catalogue!Max(S) >= l /\ l >= Catalogue!Max(S)
  BY <1>0, <1>1
<1> QED
  BY <1>2

\* The routes that end where game w is after n moves, and the labels of those it has gone itself.
Met(w, n, X) == Catalogue!EndingAt(Catalogue!Along(w)[n], X)

Gone(w, n, X) == {x.label : x \in {y \in X : y.moves = SubSeq(w, 1, n)}}

Evidence(w, n, r, X) ==
  [ply |-> n, label |-> r.label,
   match |-> IF \E x \in Met(w, n, X) : x.label = r.label /\ x.moves = SubSeq(w, 1, n) THEN "route" ELSE "transposition"]

LEMMA MetAre ==
  ASSUME NEW X, \A x \in X : Route(x), NEW w \in Seq(Nat), NEW n \in 0 .. Len(w)
  PROVE  /\ Met(w, n, X) = {r \in X : Catalogue!Endpoint(r.moves) = Catalogue!Along(w)[n]}
         /\ \A y \in X : y.moves = SubSeq(w, 1, n) => y \in Met(w, n, X)
<1>1. Met(w, n, X) = {r \in X : Catalogue!Endpoint(r.moves) = Catalogue!Along(w)[n]}
  BY DEF Met, Catalogue!EndingAt
<1>2. ASSUME NEW y \in X, y.moves = SubSeq(w, 1, n) PROVE Catalogue!Endpoint(y.moves) = Catalogue!Along(w)[n]
  <2>0. n \in 0 .. n
    OBVIOUS
  <2>2. Len(y.moves) = n /\ \A k \in 0 .. n : Catalogue!Along(y.moves)[k] = Catalogue!Along(w)[k]
    BY <1>2, AlongPrefix
  <2>1. Len(y.moves) = n /\ n \in 0 .. n /\ Catalogue!Along(y.moves)[n] = Catalogue!Along(w)[n]
    BY <2>0, <2>2
  <2> QED
    BY <2>1 DEF Catalogue!Endpoint
<1> QED
  BY <1>1, <1>2

LEMMA EvidenceIs ==
  ASSUME NEW X, NEW w \in Seq(Nat)
  PROVE  /\ \A e : e \in Catalogue!ReplayEvidence(w, X) <=> \E n \in 1 .. Len(w) : \E r \in Met(w, n, X) : e = Evidence(w, n, r, X)
         /\ \A n, r : Evidence(w, n, r, X).ply = n /\ Evidence(w, n, r, X).label = r.label
<1>1. DOMAIN w = 1 .. Len(w)
  OBVIOUS
<1>2. \A n : Met(w, n, X) = {r \in X : Catalogue!Endpoint(r.moves) = Catalogue!Along(w)[n]}
  BY DEF Met, Catalogue!EndingAt
<1>3. Catalogue!ReplayEvidence(w, X) = UNION {{Evidence(w, n, r, X) : r \in Met(w, n, X)} : n \in DOMAIN w}
  <2> DEFINE ends(n) == {y \in X : Catalogue!Endpoint(y.moves) = Catalogue!Along(w)[n]}
             what(n, r) == [ply |-> n, label |-> r.label,
                            match |-> IF \E x \in ends(n) : x.label = r.label /\ x.moves = SubSeq(w, 1, n)
                                        THEN "route" ELSE "transposition"]
             some(n) == {what(n, r) : r \in ends(n)}
             here(n) == {Evidence(w, n, r, X) : r \in Met(w, n, X)}
  <2>1. Catalogue!ReplayEvidence(w, X) = UNION {some(n) : n \in DOMAIN w}
    BY Zenon DEF Catalogue!ReplayEvidence
  <2>2. \A n : Met(w, n, X) = ends(n)
    BY <1>2
  <2> HIDE DEF ends
  <2>3. \A n, r : what(n, r) = Evidence(w, n, r, X)
    BY <2>2 DEF Evidence
  <2> HIDE DEF what
  <2>4. \A n : some(n) = here(n)
    BY <2>2, <2>3
  <2> HIDE DEF some, here
  <2>5. {some(n) : n \in DOMAIN w} = {here(n) : n \in DOMAIN w}
    BY <2>4
  <2> QED
    BY <2>1, <2>5 DEF here
<1>4. \A e : e \in Catalogue!ReplayEvidence(w, X) <=> \E n \in 1 .. Len(w) : \E r \in Met(w, n, X) : e = Evidence(w, n, r, X)
  BY <1>1, <1>3
<1>5. \A n, r : Evidence(w, n, r, X).ply = n /\ Evidence(w, n, r, X).label = r.label
  BY DEF Evidence
<1> QED
  BY <1>4, <1>5

LEMMA ReplayIs ==
  ASSUME NEW X, \A x \in X : Route(x), NEW w \in Seq(Nat),
         NEW c, c = Catalogue!Current(Catalogue!ReplayEvidence(w, X)),
         NEW P, P = {n \in DOMAIN w : Met(w, n, X) # {}}
  PROVE  /\ P = {} <=> c = Catalogue!NoOpening
         /\ P # {} => /\ c.ply = Catalogue!Max(P)
                      /\ c.label = IF Gone(w, c.ply, X) # {} THEN Catalogue!Min(Gone(w, c.ply, X))
                                   ELSE Catalogue!Min({x.label : x \in Met(w, c.ply, X)})
<1> DEFINE E == Catalogue!ReplayEvidence(w, X)
<1>0. Len(w) \in Nat /\ DOMAIN w = 1 .. Len(w)
  OBVIOUS
<1>1. /\ \A e : e \in E <=> \E n \in 1 .. Len(w) : \E r \in Met(w, n, X) : e = Evidence(w, n, r, X)
      /\ \A n, r : Evidence(w, n, r, X).ply = n /\ Evidence(w, n, r, X).label = r.label
  BY EvidenceIs
<1>2. c = Catalogue!Current(E)
  OBVIOUS
<1> HIDE DEF E
<1>3. \A n \in 1 .. Len(w) : Met(w, n, X) \subseteq X /\ \A y \in X : y.moves = SubSeq(w, 1, n) => y \in Met(w, n, X)
  <2>1. \A n \in 1 .. Len(w) : n \in 0 .. Len(w)
    BY <1>0
  <2> QED
    BY <2>1, MetAre
<1>4. \A r \in X : r.label \in Nat
  BY DEF Route
<1>5. CASE P = {}
  <2>1. E = {}
    BY <1>0, <1>1, <1>5
  <2> QED
    BY <1>2, <1>5, <2>1 DEF Catalogue!Current
<1>6. CASE P # {}
  <2> DEFINE B == {d \in E : d.ply = c.ply}
             Y == {d \in B : d.match = "route"}
  <2>1. \A e \in E : e.ply \in 0 .. Len(w) /\ e.label \in Nat
    <3> SUFFICES ASSUME NEW e \in E PROVE e.ply \in 0 .. Len(w) /\ e.label \in Nat
      OBVIOUS
    <3>1. PICK n \in 1 .. Len(w) : \E r \in Met(w, n, X) : e = Evidence(w, n, r, X)
      BY <1>1
    <3>2. PICK r \in Met(w, n, X) : e = Evidence(w, n, r, X)
      BY <3>1
    <3>3. e.ply = n /\ e.label = r.label /\ r \in X
      BY <1>1, <1>3, <3>2
    <3> QED
      BY <1>0, <1>4, <3>3
  <2>2. E # {}
    BY <1>0, <1>1, <1>6
  <2>3. Y = {d \in B : d.match = "route"} /\ B = {d \in E : d.ply = c.ply}
    OBVIOUS
  <2> HIDE DEF B, Y
  <2>4. /\ c \in E /\ \A x \in E : x.ply <= c.ply
        /\ Y # {} => c \in Y /\ \A x \in Y : c.label <= x.label
        /\ Y = {} => \A x \in B : c.label <= x.label
    <3>1. LET D == {e \in E : e.ply = c.ply}
              Z == {e \in D : e.match = "route"}
          IN  /\ c \in E /\ \A x \in E : x.ply <= c.ply
              /\ Z # {} => c \in Z /\ \A x \in Z : c.label <= x.label
              /\ Z = {} => \A x \in D : c.label <= x.label
      BY <1>0, <1>2, <2>1, <2>2, CurrentIs, Zenon
    <3> QED
      BY <2>3, <3>1
  <2>5. PICK n \in 1 .. Len(w) : \E r \in Met(w, n, X) : c = Evidence(w, n, r, X)
    BY <1>1, <2>4
  <2>6. c.ply = n /\ n \in P
    BY <1>0, <1>1, <2>5
  <2>7. ASSUME NEW k \in P PROVE k <= n
    <3>1. PICK r \in Met(w, k, X) : TRUE
      OBVIOUS
    <3>2. Evidence(w, k, r, X) \in E /\ Evidence(w, k, r, X).ply = k
      BY <1>0, <1>1, <3>1
    <3> QED
      BY <2>4, <2>6, <3>2
  <2>8. c.ply = Catalogue!Max(P)
    <3>1. P \in SUBSET Nat
      BY <1>0
    <3> QED
      BY <2>6, <2>7, <3>1, CatMaxIs
  <2>9. c # Catalogue!NoOpening
    BY <2>6 DEF Catalogue!NoOpening
  <2>10. \A d : d \in B <=> \E r \in Met(w, n, X) : d = Evidence(w, n, r, X)
    BY <1>1, <2>3, <2>6
  <2>11. \A r \in Met(w, n, X) : Evidence(w, n, r, X).match = "route" <=> r.label \in Gone(w, n, X)
    <3> SUFFICES ASSUME NEW r \in Met(w, n, X) PROVE Evidence(w, n, r, X).match = "route" <=> r.label \in Gone(w, n, X)
      OBVIOUS
    <3>1. Evidence(w, n, r, X).match = "route" <=> \E x \in Met(w, n, X) : x.label = r.label /\ x.moves = SubSeq(w, 1, n)
      BY DEF Evidence
    <3>2. r.label \in Gone(w, n, X) <=> \E x \in X : x.label = r.label /\ x.moves = SubSeq(w, 1, n)
      BY DEF Gone
    <3> QED
      BY <1>3, <3>1, <3>2
  <2>12. Gone(w, n, X) = {d.label : d \in Y}
    <3>1. ASSUME NEW l \in Gone(w, n, X) PROVE \E d \in Y : d.label = l
      <4>1. PICK y \in X : y.moves = SubSeq(w, 1, n) /\ y.label = l
        BY DEF Gone
      <4>2. y \in Met(w, n, X)
        BY <1>3, <4>1
      <4>3. Evidence(w, n, y, X) \in Y
        BY <2>3, <2>10, <2>11, <4>1, <4>2
      <4> QED
        BY <1>1, <4>1, <4>3
    <3>2. ASSUME NEW d \in Y PROVE d.label \in Gone(w, n, X)
      <4>1. PICK r \in Met(w, n, X) : d = Evidence(w, n, r, X)
        BY <2>3, <2>10
      <4> QED
        BY <1>1, <2>3, <2>11, <4>1
    <3> QED
      BY <3>1, <3>2
  <2>13. CASE Y # {}
    <3>1. Gone(w, n, X) # {} /\ Gone(w, n, X) \in SUBSET Nat /\ c.label \in Gone(w, n, X) /\ \A l \in Gone(w, n, X) : c.label <= l
      <4>1. \A d \in Y : d \in E
        BY <2>3
      <4> QED
        BY <2>1, <2>4, <2>12, <2>13, <4>1
    <3>2. Catalogue!Min(Gone(w, n, X)) = c.label
      BY <3>1, CatMinIs
    <3> QED
      BY <1>6, <2>6, <2>8, <2>9, <3>1, <3>2
  <2>14. CASE Y = {}
    <3> DEFINE L == {x.label : x \in Met(w, n, X)}
    <3>1. Gone(w, n, X) = {}
      BY <2>12, <2>14
    <3>2. \A l : l \in L <=> \E d \in B : d.label = l
      BY <1>1, <2>10
    <3>3. \A d \in B : d \in E
      BY <2>3
    <3>4. c \in B
      BY <2>3, <2>4
    <3> HIDE DEF L
    <3>5. L \in SUBSET Nat /\ c.label \in L /\ \A l \in L : c.label <= l
      BY <2>1, <2>4, <2>14, <3>2, <3>3, <3>4
    <3>6. Catalogue!Min(L) = c.label
      BY <3>5, CatMinIs
    <3> QED
      BY <1>6, <2>6, <2>8, <2>9, <3>1, <3>6 DEF L
  <2> QED
    BY <2>13, <2>14
<1> QED
  BY <1>5, <1>6

\* What was recognized so far does not depend on the moves to come.
LEMMA ReplayPrefix ==
  ASSUME NEW X, NEW w \in Seq(Nat), NEW n \in DOMAIN w
  PROVE  Catalogue!ReplayEvidence(SubSeq(w, 1, n), X) = {e \in Catalogue!ReplayEvidence(w, X) : e.ply <= n}
<1> DEFINE v == SubSeq(w, 1, n)
<1>0. n \in 1 .. Len(w) /\ n \in 0 .. Len(w) /\ Len(w) \in Nat
  OBVIOUS
<1>1. /\ v \in Seq(Nat) /\ Len(v) = n
      /\ \A k \in 0 .. n : Catalogue!Along(v)[k] = Catalogue!Along(w)[k] /\ SubSeq(v, 1, k) = SubSeq(w, 1, k)
  BY <1>0, AlongPrefix
<1> HIDE DEF v
<1>2. ASSUME NEW k \in 1 .. n PROVE Met(v, k, X) = Met(w, k, X) /\ \A r : Evidence(v, k, r, X) = Evidence(w, k, r, X)
  <2>1. k \in 0 .. n
    BY <1>0
  <2>2. Catalogue!Along(v)[k] = Catalogue!Along(w)[k] /\ SubSeq(v, 1, k) = SubSeq(w, 1, k)
    BY <1>1, <2>1
  <2>3. Met(v, k, X) = Met(w, k, X)
    BY <2>2 DEF Met
  <2> QED
    BY <2>2, <2>3 DEF Evidence
<1>3. ASSUME NEW e PROVE e \in Catalogue!ReplayEvidence(v, X) <=> e \in {d \in Catalogue!ReplayEvidence(w, X) : d.ply <= n}
  <2>1. e \in Catalogue!ReplayEvidence(v, X) <=> \E k \in 1 .. n : \E r \in Met(v, k, X) : e = Evidence(v, k, r, X)
    <3>1. e \in Catalogue!ReplayEvidence(v, X) <=> \E k \in 1 .. Len(v) : \E r \in Met(v, k, X) : e = Evidence(v, k, r, X)
      BY <1>1, EvidenceIs
    <3> QED
      BY <1>1, <3>1
  <2>2. e \in Catalogue!ReplayEvidence(w, X) <=> \E k \in 1 .. Len(w) : \E r \in Met(w, k, X) : e = Evidence(w, k, r, X)
    BY EvidenceIs
  <2>3. \A k, r : Evidence(w, k, r, X).ply = k
    BY DEF Evidence
  <2>4. \A k \in 1 .. Len(w) : k <= n <=> k \in 1 .. n
    BY <1>0
  <2>5. \A k \in 1 .. n : k \in 1 .. Len(w)
    BY <1>0
  <2>6. e \in Catalogue!ReplayEvidence(w, X) /\ e.ply <= n <=> \E k \in 1 .. n : \E r \in Met(w, k, X) : e = Evidence(w, k, r, X)
    BY <2>2, <2>3, <2>4, <2>5
  <2> QED
    BY <1>2, <2>1, <2>6
<1> QED
  BY <1>3 DEF v

-----------------------------------------------------------------------------
(* The pages of the catalogue. *)

LEMMA TimesUp ==
  ASSUME NEW z \in Nat \ {0}, NEW a \in Nat, NEW b \in Nat, a < b
  PROVE  a * z \in Nat /\ b * z \in Nat /\ a * z + z <= b * z
<1> DEFINE d == b - a - 1
<1>1. d \in Nat /\ b = a + d + 1
  OBVIOUS
<1> HIDE DEF d
<1>2. d * z \in Nat /\ a * z \in Nat
  BY <1>1
<1>3. b * z = a * z + d * z + z
  BY <1>1
<1> QED
  BY <1>2, <1>3

LEMMA TotalPagesIs ==
  ASSUME NEW n \in Nat, NEW z \in Nat \ {0}, NEW t, t = Catalogue!TotalPages(n, z)
  PROVE  t \in Nat /\ t * z \in Nat /\ n <= t * z /\ t * z < n + z
<1> DEFINE m == n + z - 1
<1>1. m \in Nat /\ t = m \div z
  BY DEF Catalogue!TotalPages
<1>3. m = n + z - 1
  OBVIOUS
<1> HIDE DEF m
<1>2. t \in Nat /\ t * z \in Nat /\ t * z <= m /\ m < t * z + z
  BY <1>1
<1> QED
  BY <1>2, <1>3

\* The end of page p, counted in entries.
EndOf(p, z) == p * z

LEMMA PageEnds ==
  ASSUME NEW n \in Nat, NEW z \in Nat \ {0}, NEW t, t = Catalogue!TotalPages(n, z), NEW p \in 1 .. t
  PROVE  /\ t \in Nat /\ EndOf(p - 1, z) \in Nat /\ EndOf(p, z) = EndOf(p - 1, z) + z
         /\ EndOf(p - 1, z) < n /\ EndOf(0, z) = 0
         /\ p < t => EndOf(p, z) < n
         /\ p = t => n <= EndOf(p, z)
<1>1. t \in Nat /\ t * z \in Nat /\ n <= t * z /\ t * z < n + z
  BY TotalPagesIs
<1>2. p - 1 \in Nat /\ p \in Nat /\ p <= t /\ z \in Nat /\ p - 1 < t
  BY <1>1
<1>3. (p - 1) * z \in Nat /\ (p - 1) * z + z <= t * z
  BY <1>1, <1>2, TimesUp
<1>4. p < t => p * z \in Nat /\ p * z + z <= t * z
  BY <1>1, <1>2, TimesUp
<1>5. p * z = (p - 1) * z + z
  <2> DEFINE b == p - 1
  <2>1. b \in Nat /\ p = b + 1
    BY <1>2
  <2> HIDE DEF b
  <2>2. p * z = b * z + z
    BY <2>1, <1>2
  <2> QED
    BY <2>2 DEF b
<1>6. 0 * z = 0
  OBVIOUS
<1>7. /\ EndOf(p - 1, z) = (p - 1) * z /\ EndOf(p, z) = p * z /\ EndOf(0, z) = 0 * z /\ EndOf(t, z) = t * z
  BY DEF EndOf
<1>8. EndOf(t, z) \in Nat /\ n <= EndOf(t, z) /\ EndOf(t, z) < n + z
  BY <1>1, <1>7
<1>9. EndOf(p - 1, z) \in Nat /\ EndOf(p - 1, z) + z <= EndOf(t, z) /\ EndOf(p, z) = EndOf(p - 1, z) + z /\ EndOf(0, z) = 0
  BY <1>3, <1>5, <1>6, <1>7
<1>10. p < t => EndOf(p, z) + z <= EndOf(t, z)
  BY <1>4, <1>7
<1> QED
  BY <1>1, <1>2, <1>8, <1>9, <1>10

\* Every page before the last one is full, and shows what comes after the pages before it.
LEMMA CatPageIs ==
  ASSUME NEW T, NEW q \in Seq(T), NEW z \in Nat \ {0}, NEW t, t = Catalogue!TotalPages(Len(q), z), NEW p \in 1 .. t,
         NEW shown, shown = Catalogue!Page(q, p, z).items
  PROVE  /\ shown \in Seq(T) /\ Len(shown) \in Nat /\ DOMAIN shown = 1 .. Len(shown)
         /\ Len(shown) = IF EndOf(p, z) <= Len(q) THEN z ELSE Len(q) - EndOf(p - 1, z)
         /\ p < t => Len(shown) = z
         /\ \A k \in 1 .. Len(shown) : shown[k] = q[EndOf(p - 1, z) + k] /\ EndOf(p - 1, z) + k \in 1 .. Len(q)
<1> DEFINE a == EndOf(p - 1, z)
           b == Catalogue!Min({EndOf(p, z), Len(q)})
           n == Len(q)
<1>1. n \in Nat
  OBVIOUS
<1>2. /\ a \in Nat /\ EndOf(p, z) = a + z /\ a < n
      /\ p < t => EndOf(p, z) < n
  BY PageEnds
<1>3. shown = SubSeq(q, a + 1, b)
  BY DEF Catalogue!Page, EndOf
<1> HIDE DEF a
<1>4. b = IF EndOf(p, z) <= n THEN EndOf(p, z) ELSE n
  <2>1. EndOf(p, z) \in Nat /\ n \in Nat
    BY <1>1, <1>2
  <2>2. CASE EndOf(p, z) <= n
    BY <2>1, <2>2, CatMinIs
  <2>3. CASE ~ (EndOf(p, z) <= n)
    <3>1. n <= EndOf(p, z)
      BY <2>1, <2>3
    <3> QED
      BY <2>1, <2>3, <3>1, CatMinIs
  <2> QED
    BY <2>2, <2>3
<1> HIDE DEF b
<1>5. b \in 0 .. Len(q) /\ a < b
  BY <1>1, <1>2, <1>4
<1>6. /\ shown \in Seq(T) /\ Len(shown) = b - a
      /\ \A k \in 1 .. Len(shown) : shown[k] = q[a + k] /\ a + k \in 1 .. Len(q)
  BY <1>2, <1>3, <1>5, PartIs
<1>7. DOMAIN shown = 1 .. Len(shown) /\ Len(shown) \in Nat
  BY <1>6
<1>8. Len(shown) = IF EndOf(p, z) <= n THEN z ELSE n - a
  BY <1>1, <1>2, <1>4, <1>6
<1>9. p < t => EndOf(p, z) <= n
  BY <1>1, <1>2
<1> QED
  BY <1>6, <1>7, <1>8, <1>9 DEF a

\* Some page shows the i-th.
Placed(q, z, i) ==
  \E p \in 1 .. Catalogue!TotalPages(Len(q), z) :
    \E k \in DOMAIN Catalogue!Page(q, p, z).items : Catalogue!Page(q, p, z).items[k] = q[i]

LEMMA PlaceIs ==
  ASSUME NEW T, NEW q \in Seq(T), NEW z \in Nat \ {0}, NEW i \in 1 .. Len(q)
  PROVE  Placed(q, z, i)
<1> SUFFICES ASSUME NEW t, t = Catalogue!TotalPages(Len(q), z)
             PROVE  \E p \in 1 .. t : \E k \in DOMAIN Catalogue!Page(q, p, z).items : Catalogue!Page(q, p, z).items[k] = q[i]
  BY DEF Placed
<1> DEFINE P == {p \in Nat : i <= EndOf(p, z)}
           n == Len(q)
<1>1. n \in Nat /\ i \in 1 .. n
  OBVIOUS
<1>2. t \in Nat /\ n <= EndOf(t, z) /\ EndOf(t, z) \in Nat
  BY <1>1, TotalPagesIs DEF EndOf
<1> HIDE DEF n
<1>3. t \in P
  BY <1>1, <1>2
<1>4. PICK p \in P : \A y \in P : p <= y
  <2>1. P \in SUBSET Nat /\ P # {}
    BY <1>3
  <2> HIDE DEF P
  <2> QED
    BY <2>1, LeastIs
<1>5. p # 0
  <2>1. EndOf(0, z) = 0
    BY DEF EndOf
  <2>2. ~ (i <= 0)
    BY <1>1
  <2> QED
    BY <1>4, <2>1, <2>2
<1>6. p \in 1 .. t /\ p - 1 \in Nat /\ p - 1 \notin P
  BY <1>2, <1>3, <1>4, <1>5
<1>7. EndOf(p - 1, z) \in Nat /\ EndOf(p, z) = EndOf(p - 1, z) + z
  BY <1>1, <1>6, PageEnds DEF n
<1>8. EndOf(p - 1, z) < i /\ i <= EndOf(p, z)
  BY <1>1, <1>4, <1>6, <1>7
<1> DEFINE a == EndOf(p - 1, z)
           e == EndOf(p, z)
           shown == Catalogue!Page(q, p, z).items
<1>9. /\ DOMAIN shown = 1 .. Len(shown) /\ Len(shown) = IF e <= n THEN z ELSE n - a
      /\ \A k \in 1 .. Len(shown) : shown[k] = q[a + k]
  BY <1>6, CatPageIs DEF n
<1>10. a \in Nat /\ e = a + z /\ a < i /\ i <= e
  BY <1>7, <1>8
<1> HIDE DEF a, e, shown
<1>11. i - a \in 1 .. Len(shown) /\ a + (i - a) = i
  BY <1>1, <1>9, <1>10
<1>12. i - a \in DOMAIN shown /\ shown[i - a] = q[i]
  BY <1>9, <1>11
<1> QED
  BY <1>6, <1>12 DEF shown

\* What comes sooner on the pages comes sooner in the order.
LEMMA SoonerIs ==
  ASSUME NEW T, NEW q \in Seq(T), NEW z \in Nat \ {0}, NEW t, t = Catalogue!TotalPages(Len(q), z),
         NEW p \in 1 .. t, NEW k \in DOMAIN Catalogue!Page(q, p, z).items,
         NEW r \in 1 .. t, NEW l \in DOMAIN Catalogue!Page(q, r, z).items, p < r \/ (p = r /\ k < l)
  PROVE  \E i, j \in DOMAIN q : /\ i < j /\ Catalogue!Page(q, p, z).items[k] = q[i]
                                /\ Catalogue!Page(q, r, z).items[l] = q[j]
<1> DEFINE a == EndOf(p - 1, z)
           b == EndOf(r - 1, z)
           u == Catalogue!Page(q, p, z).items
           v == Catalogue!Page(q, r, z).items
<1>1. Len(q) \in Nat /\ DOMAIN q = 1 .. Len(q)
  OBVIOUS
<1>2. /\ t \in Nat /\ a \in Nat /\ b \in Nat /\ p \in Nat /\ r \in Nat
  <2>1. t \in Nat /\ a \in Nat
    BY <1>1, PageEnds
  <2>2. b \in Nat
    BY <1>1, PageEnds
  <2> QED
    BY <2>1, <2>2
<1>3. /\ DOMAIN u = 1 .. Len(u) /\ Len(u) \in Nat /\ Len(u) <= z
      /\ \A x \in 1 .. Len(u) : u[x] = q[a + x] /\ a + x \in 1 .. Len(q)
  <2>1. /\ DOMAIN u = 1 .. Len(u) /\ Len(u) \in Nat /\ Len(u) = IF EndOf(p, z) <= Len(q) THEN z ELSE Len(q) - a
        /\ \A x \in 1 .. Len(u) : u[x] = q[a + x] /\ a + x \in 1 .. Len(q)
    BY CatPageIs
  <2>2. EndOf(p, z) = a + z
    BY <1>1, PageEnds
  <2> HIDE DEF u, a
  <2>3. Len(u) = (IF a + z <= Len(q) THEN z ELSE Len(q) - a) /\ a \in Nat /\ Len(q) \in Nat
    BY <1>1, <1>2, <2>1, <2>2
  <2>4. Len(u) <= z
    BY <2>3
  <2> QED
    BY <2>1, <2>4
<1>4. /\ DOMAIN v = 1 .. Len(v) /\ Len(v) \in Nat
      /\ \A x \in 1 .. Len(v) : v[x] = q[b + x] /\ b + x \in 1 .. Len(q)
  BY CatPageIs
<1>5. p < r => a + z <= b
  <2>1. p - 1 \in Nat /\ r - 1 \in Nat /\ (p < r => p - 1 < r - 1)
    BY <1>2
  <2> QED
    BY <2>1, TimesUp DEF EndOf
<1>6. p = r => a = b
  OBVIOUS
<1>7. k \in 1 .. Len(u) /\ l \in 1 .. Len(v)
  BY <1>3, <1>4
<1> HIDE DEF a, b, u, v
<1>8. a + k < b + l
  BY <1>2, <1>3, <1>4, <1>5, <1>6, <1>7
<1>9. u[k] = q[a + k] /\ a + k \in DOMAIN q /\ v[l] = q[b + l] /\ b + l \in DOMAIN q
  BY <1>1, <1>3, <1>4, <1>7
<1> QED
  BY <1>8, <1>9 DEF u, v

\* The entries of a catalogue: one for each of finitely many labels.
EntriesFit(E) ==
  /\ IsFiniteSet(E)
  /\ \A e \in E : /\ e.label \in Nat /\ e.label \in Labels
                  /\ e.route_count \in Nat /\ e.games_reached \in Nat /\ e.games_deepest \in Nat
  /\ \A e, f \in E : e.label = f.label => e = f

LEMMA ValueIs ==
  ASSUME NEW E, EntriesFit(E), NEW sort \in Catalogue!Sorts
  PROVE  /\ \A e \in E : Catalogue!Value(e, sort[1]) \in Nat /\ e.label \in Nat
         /\ sort[2] \in {"asc", "desc"}
<1>1. sort[1] \in {"eco", "name", "route_count", "games_reached", "games_deepest"} /\ sort[2] \in {"asc", "desc"}
  BY DEF Catalogue!Sorts
<1>2. ASSUME NEW e \in E PROVE Catalogue!Value(e, sort[1]) \in Nat /\ e.label \in Nat
  <2>1. e.label \in Nat /\ e.route_count \in Nat /\ e.games_reached \in Nat /\ e.games_deepest \in Nat
    BY DEF EntriesFit
  <2>2. EcoOf[e.label] \in Nat /\ NameOf[e.label] \in Nat
    BY CatalogueConstants DEF EntriesFit
  <2> QED
    BY <1>1, <2>1, <2>2 DEF Catalogue!Value
<1> QED
  BY <1>1, <1>2

LEMMA EntriesInOrder ==
  ASSUME NEW E, EntriesFit(E), NEW sort \in Catalogue!Sorts, NEW C \in SUBSET E
  PROVE  Orders({p \in C \X C : Catalogue!EntryBefore(p[1], p[2], sort)}, C)
<1> DEFINE R == {p \in C \X C : Catalogue!EntryBefore(p[1], p[2], sort)}
           v(e) == Catalogue!Value(e, sort[1])
<1>1. \A e \in C : v(e) \in Nat /\ e.label \in Nat
  BY ValueIs
<1>2. sort[2] \in {"asc", "desc"}
  BY ValueIs
<1>3. \A x, y \in C : <<x, y>> \in R <=> Catalogue!EntryBefore(x, y, sort)
  OBVIOUS
<1>4. \A x, y : Catalogue!EntryBefore(x, y, sort) <=>
                  IF v(x) = v(y) THEN x.label < y.label ELSE IF sort[2] = "asc" THEN v(x) < v(y) ELSE v(x) > v(y)
  BY DEF Catalogue!EntryBefore
<1>5. \A x, y \in C : x.label = y.label => x = y
  BY DEF EntriesFit
<1> HIDE DEF R, v
<1>6. \A x, y \in C : x # y => <<x, y>> \in R \/ <<y, x>> \in R
  <2> SUFFICES ASSUME NEW x \in C, NEW y \in C, x # y PROVE <<x, y>> \in R \/ <<y, x>> \in R
    OBVIOUS
  <2>1. v(x) \in Nat /\ v(y) \in Nat /\ x.label \in Nat /\ y.label \in Nat /\ x.label # y.label
    BY <1>1, <1>5
  <2> QED
    BY <1>3, <1>4, <2>1
<1>7. \A x, y \in C : <<x, y>> \in R => <<y, x>> \notin R
  <2> SUFFICES ASSUME NEW x \in C, NEW y \in C, <<x, y>> \in R PROVE <<y, x>> \notin R
    OBVIOUS
  <2>1. v(x) \in Nat /\ v(y) \in Nat /\ x.label \in Nat /\ y.label \in Nat
    BY <1>1
  <2> QED
    BY <1>3, <1>4, <2>1
<1>8. \A x, y, z \in C : <<x, y>> \in R /\ <<y, z>> \in R => <<x, z>> \in R
  <2> SUFFICES ASSUME NEW x \in C, NEW y \in C, NEW z \in C, <<x, y>> \in R, <<y, z>> \in R PROVE <<x, z>> \in R
    OBVIOUS
  <2>1. v(x) \in Nat /\ v(y) \in Nat /\ v(z) \in Nat /\ x.label \in Nat /\ y.label \in Nat /\ z.label \in Nat
    BY <1>1
  <2> QED
    BY <1>3, <1>4, <2>1
<1> QED
  BY <1>6, <1>7, <1>8 DEF Orders, R

LEMMA CatOrderedIs ==
  ASSUME NEW E, EntriesFit(E), NEW sort \in Catalogue!Sorts, NEW from, NEW to, NEW found
  PROVE  LET C == {e \in E : Catalogue!Matches(e, from, to, found)}
             q == Catalogue!Ordered(E, from, to, found, sort)
         IN  /\ q \in Seq(C) /\ \A x \in C : \E i \in 1 .. Len(q) : q[i] = x
             /\ \A i, j \in DOMAIN q : i < j => Catalogue!EntryBefore(q[i], q[j], sort)
<1> DEFINE C == {e \in E : Catalogue!Matches(e, from, to, found)}
           q == Catalogue!Ordered(E, from, to, found, sort)
           R == {p \in C \X C : Catalogue!EntryBefore(p[1], p[2], sort)}
           Q == {s \in SetToSeqs(C) : \A i, j \in DOMAIN s : i < j => <<s[i], s[j]>> \in R}
<1>1. C \in SUBSET E
  OBVIOUS
<1>2. Orders(R, C)
  BY <1>1, EntriesInOrder
<1>3. IsFiniteSet(C)
  BY <1>1, FS_Subset DEF EntriesFit
<1>4. Q # {}
  <2> HIDE DEF R
  <2> QED
    BY <1>2, <1>3, InOrderExists
<1>5. PICK s \in SetToSeqs(C) : \A i, j \in DOMAIN s : i < j => <<s[i], s[j]>> \in R
  BY <1>4
<1>6. \A i, j \in DOMAIN s : i < j => Catalogue!EntryBefore(s[i], s[j], sort)
  BY <1>5
<1>7. q = CHOOSE f \in Catalogue!SetToSeqs(C) : \A i, j \in DOMAIN f : i < j => Catalogue!EntryBefore(f[i], f[j], sort)
  BY DEF Catalogue!Ordered
<1>8. s \in Catalogue!SetToSeqs(C)
  BY CatSeqsAre
<1>9. q \in Catalogue!SetToSeqs(C) /\ \A i, j \in DOMAIN q : i < j => Catalogue!EntryBefore(q[i], q[j], sort)
  BY <1>6, <1>7, <1>8, Zenon
<1>10. q \in SetToSeqs(C)
  BY <1>9, CatSeqsAre
<1>11. q \in Seq(C) /\ \A x \in C : \E i \in 1 .. Len(q) : q[i] = x
  <2> HIDE DEF C, q
  <2> QED
    BY <1>3, <1>10, SeqsCover
<1> QED
  BY <1>9, <1>11

PagesCover(E, sort, from, to, found, size) ==
  LET ordered == Catalogue!Ordered(E, from, to, found, sort)
      chosen == {e \in E : Catalogue!Matches(e, from, to, found)}
      pages == Catalogue!TotalPages(Len(ordered), size)
      shown(p) == Catalogue!Page(ordered, p, size).items
      places == UNION {{p} \X DOMAIN shown(p) : p \in 1..pages}
      entry(x) == shown(x[1])[x[2]]
      sooner(x, y) == x[1] < y[1] \/ (x[1] = y[1] /\ x[2] < y[2])
  IN  /\ {entry(x) : x \in places} = chosen
      /\ \A p \in 1..(pages + 1) : Catalogue!Page(ordered, p, size).has_next <=> p < pages
      /\ \A p \in 1..pages : p < pages => Len(shown(p)) = size
      /\ \A x, y \in places :
           sooner(x, y) =>
             LET a == Catalogue!Value(entry(x), sort[1])
                 b == Catalogue!Value(entry(y), sort[1])
             IN  /\ entry(x) # entry(y) /\ IF sort[2] = "asc" THEN a <= b ELSE a >= b
                 /\ a = b => entry(x).label < entry(y).label

LEMMA PagesAreRight ==
  ASSUME NEW E, EntriesFit(E), NEW sort \in Catalogue!Sorts, NEW from, NEW to, NEW found, NEW size \in Nat \ {0}
  PROVE  PagesCover(E, sort, from, to, found, size)
<1> DEFINE ordered == Catalogue!Ordered(E, from, to, found, sort)
           chosen == {e \in E : Catalogue!Matches(e, from, to, found)}
           pages == Catalogue!TotalPages(Len(ordered), size)
           shown(p) == Catalogue!Page(ordered, p, size).items
           places == UNION {{p} \X DOMAIN shown(p) : p \in 1..pages}
           entry(x) == shown(x[1])[x[2]]
           sooner(x, y) == x[1] < y[1] \/ (x[1] = y[1] /\ x[2] < y[2])
           v(e) == Catalogue!Value(e, sort[1])
<1>1. /\ ordered \in Seq(chosen) /\ \A x \in chosen : \E i \in 1 .. Len(ordered) : ordered[i] = x
      /\ \A i, j \in DOMAIN ordered : i < j => Catalogue!EntryBefore(ordered[i], ordered[j], sort)
  BY CatOrderedIs
<1>2. \A p \in 1..(pages + 1) : Catalogue!Page(ordered, p, size).has_next <=> p < pages
  BY DEF Catalogue!Page
<1>3. \A x : x \in places <=> \E p \in 1 .. pages : \E k \in DOMAIN shown(p) : x = <<p, k>>
  OBVIOUS
<1>4. \A p, k : entry(<<p, k>>) = shown(p)[k]
  OBVIOUS
<1>5. ASSUME NEW p \in 1 .. pages
      PROVE  /\ p < pages => Len(shown(p)) = size
             /\ \A k \in DOMAIN shown(p) : shown(p)[k] \in chosen
  <2>1. /\ shown(p) \in Seq(chosen) /\ DOMAIN shown(p) = 1 .. Len(shown(p))
        /\ p < pages => Len(shown(p)) = size
    <3>1. pages = Catalogue!TotalPages(Len(ordered), size) /\ shown(p) = Catalogue!Page(ordered, p, size).items
      OBVIOUS
    <3> HIDE DEF chosen, ordered, pages, shown
    <3> QED
      BY <1>1, <3>1, CatPageIs
  <2> QED
    BY <2>1
<1>6. ASSUME NEW e \in chosen PROVE \E x \in places : entry(x) = e
  <2>1. PICK i \in 1 .. Len(ordered) : ordered[i] = e
    BY <1>1
  <2>2. \E p \in 1 .. pages : \E k \in DOMAIN shown(p) : shown(p)[k] = ordered[i]
    <3>1. Placed(ordered, size, i)
      <4> HIDE DEF chosen, ordered
      <4> QED
        BY <1>1, PlaceIs
    <3> QED
      BY <3>1, Zenon DEF Placed
  <2>3. PICK p \in 1 .. pages : \E k \in DOMAIN shown(p) : shown(p)[k] = ordered[i]
    BY <2>2
  <2>4. PICK k \in DOMAIN shown(p) : shown(p)[k] = ordered[i]
    BY <2>3
  <2>5. <<p, k>> \in places /\ entry(<<p, k>>) = e
    BY <1>3, <1>4, <2>1, <2>4
  <2> QED
    BY <2>5
<1>7. {entry(x) : x \in places} = chosen
  <2>1. ASSUME NEW x \in places PROVE entry(x) \in chosen
    <3>1. PICK p \in 1 .. pages : \E k \in DOMAIN shown(p) : x = <<p, k>>
      BY <1>3
    <3>2. PICK k \in DOMAIN shown(p) : x = <<p, k>>
      BY <3>1
    <3>3. shown(p)[k] \in chosen
      BY <1>5
    <3> QED
      BY <1>4, <3>2, <3>3
  <2> HIDE DEF entry, places, chosen
  <2> QED
    BY <1>6, <2>1
<1>8. ASSUME NEW x \in places, NEW y \in places, sooner(x, y)
      PROVE  LET a == v(entry(x))
                 b == v(entry(y))
             IN  /\ entry(x) # entry(y) /\ IF sort[2] = "asc" THEN a <= b ELSE a >= b
                 /\ a = b => entry(x).label < entry(y).label
  <2>1. PICK p \in 1 .. pages : \E k \in DOMAIN shown(p) : x = <<p, k>>
    BY <1>3
  <2>2. PICK k \in DOMAIN shown(p) : x = <<p, k>>
    BY <2>1
  <2>3. PICK r \in 1 .. pages : \E l \in DOMAIN shown(r) : y = <<r, l>>
    BY <1>3
  <2>4. PICK l \in DOMAIN shown(r) : y = <<r, l>>
    BY <2>3
  <2>5. p < r \/ (p = r /\ k < l)
    BY <1>8, <2>2, <2>4
  <2>6. \E i, j \in DOMAIN ordered : i < j /\ shown(p)[k] = ordered[i] /\ shown(r)[l] = ordered[j]
    <3> HIDE DEF chosen, ordered
    <3> QED
      BY <1>1, <2>5, SoonerIs
  <2>7. Catalogue!EntryBefore(entry(x), entry(y), sort)
    BY <1>1, <1>4, <2>2, <2>4, <2>6
  <2>8. entry(x) \in E /\ entry(y) \in E
    BY <1>7
  <2> DEFINE e == entry(x)
             f == entry(y)
  <2>9. IF v(e) = v(f) THEN e.label < f.label ELSE IF sort[2] = "asc" THEN v(e) < v(f) ELSE v(e) > v(f)
    BY <2>7 DEF Catalogue!EntryBefore
  <2>10. v(e) \in Nat /\ v(f) \in Nat /\ e.label \in Nat /\ f.label \in Nat
    BY <2>8, ValueIs
  <2> HIDE DEF e, f, v
  <2>11. /\ e # f /\ IF sort[2] = "asc" THEN v(e) <= v(f) ELSE v(e) >= v(f)
         /\ v(e) = v(f) => e.label < f.label
    BY <2>9, <2>10
  <2> QED
    BY <2>11 DEF e, f
<1>9. \A p \in 1..pages : p < pages => Len(shown(p)) = size
  BY <1>5
<1> HIDE DEF ordered, chosen, pages, shown, places, entry, sooner
<1> QED
  BY <1>2, <1>7, <1>8, <1>9 DEF PagesCover, ordered, chosen, pages, shown, places, entry, sooner, v

-----------------------------------------------------------------------------
(* What the pages count. *)

\* The openings that game g is in after n moves.
LabelsAt(g, n, s) == {x.label : x \in Catalogue!EndingAt(Catalogue!Along(Scores[g])[n], s)}

LEMMA LabelsOfGive ==
  ASSUME NEW s \in Sources
  PROVE  /\ DOMAIN LabelsOf(s) = 1 .. Len(LabelsOf(s)) /\ Len(LabelsOf(s)) \in Nat
         /\ Catalogue!ToSet(LabelsOf(s)) = {r.label : r \in s}
         /\ \A l : (\E r \in s : r.label = l) <=> \E id \in DOMAIN LabelsOf(s) : LabelsOf(s)[id] = l
         /\ \A id \in DOMAIN LabelsOf(s) : LabelsOf(s)[id] \in Nat
<1> DEFINE L == {r.label : r \in s}
           q == LabelsOf(s)
<1>1. q \in SetToSeqs(L) /\ IsFiniteSet(L)
  BY LabelsOfAre
<1>2. \A x \in L : x \in Nat
  BY CatalogueConstants DEF Route
<1>3. \A l : (\E r \in s : r.label = l) <=> l \in L
  OBVIOUS
<1> HIDE DEF L, q
<1>4. q \in Seq(L) /\ \A x \in L : \E i \in 1 .. Len(q) : q[i] = x
  BY <1>1, SeqsCover
<1>5. DOMAIN q = 1 .. Len(q) /\ Len(q) \in Nat /\ \A i \in 1 .. Len(q) : q[i] \in L
  BY <1>4
<1>6. Catalogue!ToSet(q) = {q[i] : i \in DOMAIN q}
  BY CatToSetIs
<1>7. {q[i] : i \in DOMAIN q} = L
  BY <1>4, <1>5
<1> QED
  BY <1>2, <1>3, <1>4, <1>5, <1>6, <1>7 DEF q, L

LEMMA UsageIs ==
  ASSUME NEW s \in Sources, NEW U, U = Catalogue!Usage(Catalogue!Tables(s))
  PROVE  /\ \A u \in U : /\ u.game \in DOMAIN Scores /\ u.ply \in DOMAIN Scores[u.game]
                         /\ u.id \in DOMAIN LabelsOf(s) /\ LabelsOf(s)[u.id] = u.label
                         /\ u.label \in LabelsAt(u.game, u.ply, s)
         /\ \A g \in DOMAIN Scores : \A n \in DOMAIN Scores[g] : \A l \in LabelsAt(g, n, s) :
              \E u \in U : u.game = g /\ u.ply = n /\ u.label = l
<1> DEFINE t == Catalogue!Tables(s)
           in(g, n, id) == \E x \in DOMAIN t.routes : t.routes[x].label = t.labels[id]
                                                       /\ t.routes[x].endpoint = Catalogue!Along(Scores[g])[n]
           use(g, n, id) == [game |-> g, ply |-> n, id |-> id, label |-> t.labels[id]]
<1>1. t.labels = LabelsOf(s) /\ t.routes = RowsOf(s)
  BY TablesAre
<1>2. U = UNION {{use(g, n, id) : n \in {k \in DOMAIN Scores[g] : in(g, k, id)}} : g \in DOMAIN Scores, id \in DOMAIN t.labels}
  BY DEF Catalogue!Usage
<1>3. \A u : u \in U <=> \E g \in DOMAIN Scores : \E id \in DOMAIN t.labels : \E n \in DOMAIN Scores[g] : in(g, n, id) /\ u = use(g, n, id)
  <2> DEFINE some(g, id) == {use(g, n, id) : n \in {k \in DOMAIN Scores[g] : in(g, k, id)}}
  <2>1. U = UNION {some(g, id) : g \in DOMAIN Scores, id \in DOMAIN t.labels}
    BY <1>2
  <2> HIDE DEF in, use, t
  <2>2. \A g, id, u : u \in some(g, id) <=> \E n \in DOMAIN Scores[g] : in(g, n, id) /\ u = use(g, n, id)
    OBVIOUS
  <2> HIDE DEF some
  <2>3. \A u : u \in U <=> \E g \in DOMAIN Scores : \E id \in DOMAIN t.labels : u \in some(g, id)
    BY <2>1
  <2> QED
    BY <2>2, <2>3
<1>4. \A g, n, id : in(g, n, id) <=> LabelsOf(s)[id] \in LabelsAt(g, n, s)
  <2> SUFFICES ASSUME NEW g, NEW n, NEW id PROVE in(g, n, id) <=> LabelsOf(s)[id] \in LabelsAt(g, n, s)
    OBVIOUS
  <2> DEFINE p == Catalogue!Along(Scores[g])[n]
             l == LabelsOf(s)[id]
             q == RoutesOf(s)
  <2>1. in(g, n, id) <=> \E x \in DOMAIN RowsOf(s) : RowsOf(s)[x].label = l /\ RowsOf(s)[x].endpoint = p
    BY <1>1
  <2>2. DOMAIN RowsOf(s) = DOMAIN q /\ \A x \in DOMAIN q : RowsOf(s)[x].label = q[x].label /\ RowsOf(s)[x].endpoint = Catalogue!Endpoint(q[x].moves)
    BY DEF RowsOf
  <2>3. (\A x \in DOMAIN q : q[x] \in s) /\ \A r \in s : \E x \in DOMAIN q : q[x] = r
    BY RoutesOfGive
  <2>4. l \in LabelsAt(g, n, s) <=> \E r \in s : r.label = l /\ Catalogue!Endpoint(r.moves) = p
    BY DEF LabelsAt, Catalogue!EndingAt
  <2> HIDE DEF in, p, l, q
  <2> QED
    BY <2>1, <2>2, <2>3, <2>4 DEF l
<1>5. \A g, n, id : use(g, n, id).game = g /\ use(g, n, id).ply = n /\ use(g, n, id).id = id /\ use(g, n, id).label = LabelsOf(s)[id]
  BY <1>1
<1> HIDE DEF in, use, t
<1>6. ASSUME NEW u \in U
      PROVE  /\ u.game \in DOMAIN Scores /\ u.ply \in DOMAIN Scores[u.game]
             /\ u.id \in DOMAIN LabelsOf(s) /\ LabelsOf(s)[u.id] = u.label
             /\ u.label \in LabelsAt(u.game, u.ply, s)
  <2>1. PICK g \in DOMAIN Scores : \E id \in DOMAIN t.labels : \E n \in DOMAIN Scores[g] : in(g, n, id) /\ u = use(g, n, id)
    BY <1>3
  <2>2. PICK id \in DOMAIN t.labels : \E n \in DOMAIN Scores[g] : in(g, n, id) /\ u = use(g, n, id)
    BY <2>1
  <2>3. PICK n \in DOMAIN Scores[g] : in(g, n, id) /\ u = use(g, n, id)
    BY <2>2
  <2> QED
    BY <1>1, <1>4, <1>5, <2>3
<1>7. ASSUME NEW g \in DOMAIN Scores, NEW n \in DOMAIN Scores[g], NEW l \in LabelsAt(g, n, s)
      PROVE  \E u \in U : u.game = g /\ u.ply = n /\ u.label = l
  <2>1. \E r \in s : r.label = l
    BY DEF LabelsAt, Catalogue!EndingAt
  <2>2. PICK id \in DOMAIN LabelsOf(s) : LabelsOf(s)[id] = l
    BY <2>1, LabelsOfGive
  <2>3. in(g, n, id)
    BY <1>4, <2>2
  <2>4. use(g, n, id) \in U
    BY <1>1, <1>3, <2>3
  <2> QED
    BY <1>5, <2>2, <2>4
<1> QED
  BY <1>6, <1>7

\* The entries made of the labels and routes of one publication and the openings of another.
EntriesOf(s, t) == Catalogue!Entries(LabelsOf(s), RowsOf(s), Catalogue!Usage(Catalogue!Tables(t)))

LEMMA EntriesOfAre ==
  ASSUME NEW s \in Sources, NEW t \in Sources, NEW U, U = Catalogue!Usage(Catalogue!Tables(t))
  PROVE  /\ EntriesFit(EntriesOf(s, t))
         /\ {e.label : e \in EntriesOf(s, t)} = {x.label : x \in s}
         /\ \A e \in EntriesOf(s, t) :
              /\ e.games_reached = Cardinality(Catalogue!GamesReached(e.label, U))
              /\ e.games_deepest = Cardinality({g \in {u.game : u \in U} : Catalogue!DeepestOf(g, U) = e.label})
         /\ \A l : IsFiniteSet(Catalogue!GamesReached(l, U))
<1> DEFINE E == EntriesOf(s, t)
           L == {r.label : r \in s}
           rows(l) == {id \in DOMAIN RowsOf(s) : RowsOf(s)[id].label = l}
           reached(l) == Catalogue!GamesReached(l, U)
           deepest(l) == {g \in {u.game : u \in U} : Catalogue!DeepestOf(g, U) = l}
           entry(l) == [label |-> l, route_count |-> Cardinality(rows(l)),
                        games_reached |-> Cardinality(reached(l)), games_deepest |-> Cardinality(deepest(l))]
           f == [l \in L |-> entry(l)]
<1>1. E = {entry(l) : l \in L}
  <2>1. Catalogue!ToSet(LabelsOf(s)) = L
    BY LabelsOfGive
  <2>2. E = {[label |-> l, route_count |-> Catalogue!Cardinality(rows(l)), games_reached |-> Catalogue!Cardinality(reached(l)),
              games_deepest |-> Catalogue!Cardinality(deepest(l))] : l \in Catalogue!ToSet(LabelsOf(s))}
    BY Zenon DEF EntriesOf, Catalogue!Entries
  <2> HIDE DEF rows, reached, deepest, L, E
  <2> QED
    BY <2>1, <2>2, CatSizeIs
<1>2. IsFiniteSet(DOMAIN Scores)
  BY CatalogueConstants
<1>3. \A u \in U : u.game \in DOMAIN Scores
  BY UsageIs
<1>4. ASSUME NEW l PROVE IsFiniteSet(rows(l)) /\ IsFiniteSet(reached(l)) /\ IsFiniteSet(deepest(l))
  <2>1. IsFiniteSet(DOMAIN RowsOf(s))
    <3>1. DOMAIN RowsOf(s) = DOMAIN RoutesOf(s)
      BY DEF RowsOf
    <3> QED
      BY <3>1, RoutesOfGive, FS_Interval
  <2>2. rows(l) \in SUBSET DOMAIN RowsOf(s)
    OBVIOUS
  <2>3. reached(l) \in SUBSET DOMAIN Scores /\ deepest(l) \in SUBSET DOMAIN Scores
    BY <1>3 DEF Catalogue!GamesReached
  <2> HIDE DEF rows, reached, deepest
  <2> QED
    BY <1>2, <2>1, <2>2, <2>3, FS_Subset
<1>5. \A l \in L : l \in Nat /\ l \in Labels
  BY CatalogueConstants DEF Route
<1>6. IsFiniteSet(L)
  BY LabelsOfAre
<1> HIDE DEF rows, reached, deepest, L, E
<1>7. \A l : /\ entry(l).label = l /\ entry(l).route_count = Cardinality(rows(l))
             /\ entry(l).games_reached = Cardinality(reached(l)) /\ entry(l).games_deepest = Cardinality(deepest(l))
  OBVIOUS
<1>8. \A l : Cardinality(rows(l)) \in Nat /\ Cardinality(reached(l)) \in Nat /\ Cardinality(deepest(l)) \in Nat
  BY <1>4, FS_CardinalityType
<1> HIDE DEF entry
<1>9. IsFiniteSet(E)
  <2>1. f \in Surjection(L, E)
    BY <1>1 DEF Surjection
  <2> HIDE DEF f
  <2> QED
    BY <1>6, <2>1, FS_Surjection
<1>10. EntriesFit(E)
  BY <1>1, <1>5, <1>7, <1>8, <1>9 DEF EntriesFit
<1>11. {e.label : e \in E} = L
  BY <1>1, <1>7
<1>12. \A e \in E : e.games_reached = Cardinality(reached(e.label)) /\ e.games_deepest = Cardinality(deepest(e.label))
  BY <1>1, <1>7
<1> QED
  BY <1>4, <1>10, <1>11, <1>12 DEF E, L, reached, deepest

\* A game counts for one of the openings it was last in.
LEMMA CountedIs ==
  ASSUME NEW s \in Sources, NEW g \in DOMAIN Scores
  PROVE  LET U == Catalogue!Usage(Catalogue!Tables(s))
             P == {n \in DOMAIN Scores[g] : Catalogue!EndingAt(Catalogue!Along(Scores[g])[n], s) # {}}
             l == Catalogue!DeepestOf(g, U)
         IN  /\ (\E u \in U : u.game = g) <=> P # {}
             /\ P # {} => /\ l \in LabelsAt(g, Catalogue!Max(P), s)
                          /\ \E r \in s : r.label = l
                          /\ \E u \in U : u.game = g /\ u.label = l
<1> DEFINE U == Catalogue!Usage(Catalogue!Tables(s))
           P == {n \in DOMAIN Scores[g] : Catalogue!EndingAt(Catalogue!Along(Scores[g])[n], s) # {}}
           l == Catalogue!DeepestOf(g, U)
           w == Scores[g]
           mine == {u \in U : u.game = g}
           deepest == {u \in mine : \A x \in mine : x.ply <= u.ply}
           L == {u.label : u \in deepest}
<1>1. Len(w) \in Nat /\ DOMAIN w = 1 .. Len(w)
  <2>1. w \in Seq(Nat)
    BY CatalogueConstants
  <2> HIDE DEF w
  <2> QED
    BY <2>1
<1>2. /\ \A u \in U : u.game \in DOMAIN Scores /\ u.ply \in DOMAIN Scores[u.game] /\ u.label \in LabelsAt(u.game, u.ply, s)
      /\ \A h \in DOMAIN Scores : \A n \in DOMAIN Scores[h] : \A k \in LabelsAt(h, n, s) :
           \E u \in U : u.game = h /\ u.ply = n /\ u.label = k
  BY UsageIs
<1>3. \A n : Catalogue!EndingAt(Catalogue!Along(w)[n], s) # {} <=> LabelsAt(g, n, s) # {}
  BY DEF LabelsAt
<1>4. l = CHOOSE k \in L : \A u \in deepest : k <= u.label
  BY DEF Catalogue!DeepestOf
<1> HIDE DEF U, l
<1>5. \A u \in mine : u.ply \in DOMAIN w /\ u.label \in LabelsAt(g, u.ply, s) /\ u \in U /\ u.game = g
  BY <1>2
<1>6. \A n : n \in P <=> \E u \in mine : u.ply = n
  <2>1. \A n : n \in P <=> n \in DOMAIN w /\ LabelsAt(g, n, s) # {}
    BY <1>3
  <2>2. \A n \in DOMAIN w : LabelsAt(g, n, s) # {} => \E u \in mine : u.ply = n
    BY <1>2
  <2> HIDE DEF P, mine, w
  <2> QED
    BY <1>5, <2>1, <2>2
<1>7. (\E u \in U : u.game = g) <=> P # {}
  <2> HIDE DEF P
  <2> QED
    BY <1>6
<1>8. P \in SUBSET (0 .. Len(w))
  BY <1>1
<1> HIDE DEF P, mine, w
<1>9. ASSUME P # {}
      PROVE  /\ l \in LabelsAt(g, Catalogue!Max(P), s)
             /\ \E r \in s : r.label = l
             /\ \E u \in U : u.game = g /\ u.label = l
  <2>1. PICK m \in P : \A y \in P : y <= m
    BY <1>1, <1>8, <1>9, GreatestIs
  <2>2. Catalogue!Max(P) = m
    <3>1. P \in SUBSET Nat
      BY <1>1, <1>8
    <3> QED
      BY <2>1, <3>1, CatMaxIs
  <2>3. \A u : u \in deepest <=> u \in mine /\ u.ply = m
    <3>3. \A n \in P : n \in Nat
      BY <1>1, <1>8
    <3>1. \A u \in mine : u.ply \in P /\ u.ply \in Nat
      BY <1>6, <3>3
    <3>2. PICK u \in mine : u.ply = m
      BY <1>6, <2>1
    <3> QED
      BY <2>1, <3>1, <3>2
  <2>4. L # {}
    BY <1>6, <2>1, <2>3
  <2>5. \A k \in L : \E u \in mine : u.ply = m /\ u.label = k
    BY <2>3
  <2>6. \A k \in L : k \in LabelsAt(g, m, s) /\ \E r \in s : r.label = k
    BY <1>5, <2>5 DEF LabelsAt, Catalogue!EndingAt
  <2>7. L \in SUBSET Nat
    BY <2>6, CatalogueConstants DEF Route
  <2>8. \A u \in deepest : u.label \in L
    OBVIOUS
  <2>9. l \in L
    <3>1. PICK k \in L : \A y \in L : k <= y
      <4> HIDE DEF L
      <4> QED
        BY <2>4, <2>7, LeastIs
    <3>2. \A u \in deepest : k <= u.label
      BY <2>8, <3>1
    <3> HIDE DEF L, deepest
    <3> QED
      BY <1>4, <3>2
  <2> HIDE DEF L
  <2> QED
    BY <1>5, <2>2, <2>5, <2>6, <2>9
<1> QED
  BY <1>7, <1>9 DEF U, P, l, w

LEMMA DeepestCounts ==
  ASSUME NEW s \in Sources
  PROVE  LET E == EntriesOf(s, s)
             plies(g) == {n \in DOMAIN Scores[g] : Catalogue!EndingAt(Catalogue!Along(Scores[g])[n], s) # {}}
             reaching == {g \in DOMAIN Scores : plies(g) # {}}
             last(g) == {x.label : x \in Catalogue!EndingAt(Catalogue!Along(Scores[g])[Catalogue!Max(plies(g))], s)}
             counted == UNION {{e} \X (1..e.games_deepest) : e \in E}
         IN  /\ Cardinality(counted) = Cardinality(reaching)
             /\ \A e \in E :
                  /\ e.games_deepest <= e.games_reached
                  /\ e.games_deepest <= Cardinality({g \in reaching : e.label \in last(g)})
<1> DEFINE E == EntriesOf(s, s)
           plies(g) == {n \in DOMAIN Scores[g] : Catalogue!EndingAt(Catalogue!Along(Scores[g])[n], s) # {}}
           reaching == {g \in DOMAIN Scores : plies(g) # {}}
           last(g) == {x.label : x \in Catalogue!EndingAt(Catalogue!Along(Scores[g])[Catalogue!Max(plies(g))], s)}
           counted == UNION {{e} \X (1..e.games_deepest) : e \in E}
           U == Catalogue!Usage(Catalogue!Tables(s))
           d(g) == Catalogue!DeepestOf(g, U)
           mine(e) == {g \in reaching : d(g) = e.label}
           C == [e \in E |-> mine(e)]
           num == [e \in E |-> e.games_deepest]
           own(g) == CHOOSE e \in E : e.label = d(g)
           f == [g \in reaching |-> <<own(g), g>>]
<1>1. \A g \in DOMAIN Scores : /\ (\E u \in U : u.game = g) <=> plies(g) # {}
                               /\ plies(g) # {} => /\ d(g) \in last(g)
                                                   /\ \E r \in s : r.label = d(g)
                                                   /\ \E u \in U : u.game = g /\ u.label = d(g)
  BY CountedIs DEF LabelsAt
<1>2. \A u \in U : u.game \in DOMAIN Scores
  BY UsageIs
<1>3. /\ EntriesFit(E)
      /\ {e.label : e \in E} = {x.label : x \in s}
      /\ \A e \in E : /\ e.games_reached = Cardinality(Catalogue!GamesReached(e.label, U))
                      /\ e.games_deepest = Cardinality({g \in {u.game : u \in U} : d(g) = e.label})
      /\ \A l : IsFiniteSet(Catalogue!GamesReached(l, U))
  BY EntriesOfAre
<1>4. IsFiniteSet(DOMAIN Scores)
  BY CatalogueConstants
<1>10. counted = Insight!Pairs(num)
  BY DEF Insight!Pairs
<1> HIDE DEF E, plies, last, U, d
<1>5. reaching = {u.game : u \in U}
  BY <1>1, <1>2
<1>6. reaching \in SUBSET DOMAIN Scores
  OBVIOUS
<1>15. \A g \in reaching : d(g) \in last(g) /\ (\E r \in s : r.label = d(g)) /\ \E u \in U : u.game = g /\ u.label = d(g)
  BY <1>1
<1> HIDE DEF reaching
<1>7. IsFiniteSet(reaching)
  BY <1>4, <1>6, FS_Subset
<1>8. ASSUME NEW e \in E
      PROVE  /\ IsFiniteSet(mine(e)) /\ e.games_deepest = Cardinality(mine(e))
             /\ e.games_deepest <= e.games_reached
             /\ e.games_deepest <= Cardinality({g \in reaching : e.label \in last(g)})
  <2>1. mine(e) \in SUBSET reaching
    OBVIOUS
  <2>2. mine(e) = {g \in {u.game : u \in U} : d(g) = e.label}
    BY <1>5
  <2>3. mine(e) \in SUBSET Catalogue!GamesReached(e.label, U)
    BY <1>15 DEF Catalogue!GamesReached
  <2>4. mine(e) \in SUBSET {g \in reaching : e.label \in last(g)}
    BY <1>15
  <2>5. IsFiniteSet({g \in reaching : e.label \in last(g)})
    BY <1>7, FS_Subset
  <2> DEFINE A == {g \in reaching : e.label \in last(g)}
  <2>6. e.games_deepest = Cardinality(mine(e))
    BY <1>3, <2>2
  <2> HIDE DEF mine, A
  <2>7. IsFiniteSet(mine(e)) /\ Cardinality(mine(e)) <= Cardinality(Catalogue!GamesReached(e.label, U))
    BY <1>3, <2>3, FS_Subset
  <2>8. Cardinality(mine(e)) <= Cardinality(A)
    BY <2>4, <2>5, FS_Subset DEF A
  <2> QED
    BY <1>3, <2>6, <2>7, <2>8 DEF A
<1> HIDE DEF mine
<1>9. /\ IsFiniteSet(DOMAIN C) /\ DOMAIN C = E /\ \A e \in DOMAIN C : IsFiniteSet(C[e]) /\ C[e] = mine(e)
      /\ DOMAIN num = DOMAIN C /\ \A e \in DOMAIN C : num[e] = Cardinality(C[e])
  BY <1>3, <1>8 DEF EntriesFit
<1>11. \A e : e \in E => \A g : g \in mine(e) <=> g \in reaching /\ d(g) = e.label
  BY DEF mine
<1> HIDE DEF C, num, counted
<1>12. Cardinality(counted) = Cardinality(Apart(C))
  BY <1>9, <1>10, ApartAreAll
<1>13. ASSUME NEW g \in reaching PROVE own(g) \in E /\ own(g).label = d(g)
  <2>1. \E e \in E : e.label = d(g)
    <3>1. PICK r \in s : r.label = d(g)
      BY <1>15
    <3>2. r.label \in {e.label : e \in E}
      BY <1>3
    <3> QED
      BY <3>1, <3>2
  <2> QED
    BY <2>1
<1> HIDE DEF own
<1>14. Cardinality(Apart(C)) = Cardinality(reaching)
  <2>1. f \in [reaching -> Apart(C)]
    <3> SUFFICES ASSUME NEW g \in reaching PROVE <<own(g), g>> \in Apart(C)
      OBVIOUS
    <3>1. own(g) \in E /\ g \in mine(own(g))
      BY <1>11, <1>13
    <3> QED
      BY <1>9, <3>1, ApartIs
  <2>2. \A x, y \in reaching : f[x] = f[y] => x = y
    OBVIOUS
  <2>3. ASSUME NEW z \in Apart(C) PROVE \E g \in reaching : f[g] = z
    <3>1. PICK e \in E : \E y \in mine(e) : z = <<e, y>>
      <4>1. PICK e \in DOMAIN C : \E y \in C[e] : z = <<e, y>>
        BY ApartIs
      <4> QED
        BY <1>9, <4>1
    <3>2. PICK g \in mine(e) : z = <<e, g>>
      BY <3>1
    <3>3. g \in reaching /\ d(g) = e.label
      BY <1>11, <3>2
    <3>4. own(g) = e
      BY <1>3, <1>13, <3>3 DEF EntriesFit
    <3> QED
      BY <3>2, <3>3, <3>4
  <2> HIDE DEF f
  <2> QED
    BY <1>7, <2>1, <2>2, <2>3, SameCount
<1>16. Cardinality(counted) = Cardinality(reaching)
  BY <1>12, <1>14
<1> QED
  BY <1>8, <1>16 DEF E, plies, reaching, last, counted

-----------------------------------------------------------------------------
(* What every visitor of the catalogue holds and has been told. *)

\* What was read first is that of one publication, of the current one as long as it was not replaced.
CatReaderFits(o, now) ==
  /\ o = [pc |-> o.pc, first |-> o.first, routes |-> o.routes, whole |-> o.whole]
  /\ o.pc \in {"idle", "routes", "labels"} /\ o.whole \in BOOLEAN
  /\ o.pc = "routes" => \E s \in Sources : o.first = RowsOf(s) /\ (o.whole => s = now)
  /\ o.pc = "labels" => \E s \in Sources : o.first = LabelsOf(s) /\ o.routes = RowsOf(s) /\ (o.whole => s = now)

\* An answer is made of two publications, of one and the same as long as it was not replaced in between.
CatAnswerFits(a) ==
  \/ /\ a.kind \in {"none", "error"} /\ a.routes = {} /\ a.entries = {}
     /\ a.kind = "error" /\ a.whole => \E x \in a.source : x.label \in Unnamed
  \/ /\ a.kind = "routes" /\ a.entries = {}
     /\ \E s \in Sources : \E t \in Sources :
          /\ Catalogue!Sane(RowsOf(s), PliesOf(t)) /\ a.routes = Catalogue!Materialized(RowsOf(s), PliesOf(t))
          /\ a.whole => s = t /\ a.source = s
  \/ /\ a.kind = "entries" /\ a.routes = {}
     /\ \E s \in Sources : \E t \in Sources :
          /\ a.entries = EntriesOf(s, t)
          /\ a.whole => s = t /\ a.source = s

CatInv ==
  /\ source \in Sources /\ tables = Catalogue!Tables(source)
  /\ reader = [r \in Visitors |-> reader[r]] /\ \A r \in Visitors : CatReaderFits(reader[r], source)
  /\ answer = [r \in Visitors |-> answer[r]] /\ \A r \in Visitors : CatAnswerFits(answer[r])

LEMMA RoutesAnswered ==
  ASSUME NEW a, CatAnswerFits(a)
  PROVE  /\ \A x \in a.routes : Route(x) /\ \E s \in Sources : \E y \in s :
                                  y.label = x.label /\ Catalogue!Endpoint(y.moves) = Catalogue!Endpoint(x.moves)
         /\ IsFiniteSet(a.routes)
         /\ a.kind = "routes" /\ a.whole => a.routes = a.source
<1>1. CASE a.kind = "routes"
  <2>1. PICK s \in Sources : \E t \in Sources :
          /\ Catalogue!Sane(RowsOf(s), PliesOf(t)) /\ a.routes = Catalogue!Materialized(RowsOf(s), PliesOf(t))
          /\ a.whole => s = t /\ a.source = s
    BY <1>1 DEF CatAnswerFits
  <2>2. PICK t \in Sources :
          /\ Catalogue!Sane(RowsOf(s), PliesOf(t)) /\ a.routes = Catalogue!Materialized(RowsOf(s), PliesOf(t))
          /\ a.whole => s = t /\ a.source = s
    BY <2>1
  <2>3. /\ IsFiniteSet(a.routes)
        /\ \A x \in a.routes : Route(x) /\ \E y \in s : y.label = x.label /\ Catalogue!Endpoint(y.moves) = Catalogue!Endpoint(x.moves)
    BY <2>2, JoinedAre
  <2>4. a.whole => a.routes = a.source
    BY <2>2, WholeAre
  <2> QED
    BY <2>3, <2>4
<1>2. CASE a.kind # "routes"
  <2>1. a.routes = {}
    BY <1>2 DEF CatAnswerFits
  <2> QED
    BY <1>2, <2>1, FS_EmptySet
<1> QED
  BY <1>1, <1>2

LEMMA EntriesAnswered ==
  ASSUME NEW a, CatAnswerFits(a), a.kind = "entries"
  PROVE  /\ EntriesFit(a.entries)
         /\ a.whole => a.source \in Sources /\ a.entries = EntriesOf(a.source, a.source)
<1>1. PICK s \in Sources : \E t \in Sources : a.entries = EntriesOf(s, t) /\ (a.whole => s = t /\ a.source = s)
  BY DEF CatAnswerFits
<1>2. PICK t \in Sources : a.entries = EntriesOf(s, t) /\ (a.whole => s = t /\ a.source = s)
  BY <1>1
<1> QED
  BY <1>2, EntriesOfAre

LEMMA RecognitionAnswered ==
  ASSUME CatInv
  PROVE  Catalogue!RoutesReplay /\ Catalogue!LookupNamesThePosition /\ Catalogue!ReplayNamesTheLast
<1>1. \A r \in Visitors : CatAnswerFits(answer[r])
  BY DEF CatInv
<1>2. Catalogue!RoutesReplay
  <2> SUFFICES ASSUME NEW r \in Visitors
               PROVE  /\ \A x \in answer[r].routes : Catalogue!Endpoint(x.moves) # NoPosition
                      /\ \A x \in answer[r].routes : \E s \in Sources : \E y \in s :
                           y.label = x.label /\ Catalogue!Endpoint(y.moves) = Catalogue!Endpoint(x.moves)
    BY DEF Catalogue!RoutesReplay
  <2>1. \A x \in answer[r].routes : Route(x) /\ \E s \in Sources : \E y \in s :
                                  y.label = x.label /\ Catalogue!Endpoint(y.moves) = Catalogue!Endpoint(x.moves)
    BY <1>1, RoutesAnswered
  <2> QED
    BY <2>1 DEF Route
<1>3. Catalogue!LookupNamesThePosition
  <2> SUFFICES ASSUME NEW r \in Visitors, NEW p
               PROVE  LET X == answer[r].routes
                          here == {x.label : x \in Catalogue!EndingAt(p, X)}
                          found == Catalogue!Current(Catalogue!LookupEvidence(p, X))
                      IN  IF here = {} THEN found = Catalogue!NoOpening
                          ELSE found.label \in here /\ \A l \in here : found.label <= l
    BY DEF Catalogue!LookupNamesThePosition
  <2> DEFINE X == answer[r].routes
  <2>1. IsFiniteSet(X) /\ \A x \in X : Route(x)
    BY <1>1, RoutesAnswered
  <2> HIDE DEF X
  <2>2. LookupNames(X, p)
    BY <2>1, LookupIs
  <2> QED
    BY <2>2, Zenon DEF X, LookupNames
<1>4. Catalogue!ReplayNamesTheLast
  <2> SUFFICES ASSUME NEW r \in Visitors, NEW g \in DOMAIN Scores
               PROVE  LET X == answer[r].routes
                          game == Scores[g]
                          found == Catalogue!Current(Catalogue!ReplayEvidence(game, X))
                          plies == {n \in DOMAIN game : Catalogue!EndingAt(Catalogue!Along(game)[n], X) # {}}
                          exact(n) == {x.label : x \in {y \in X : y.moves = SubSeq(game, 1, n)}}
                      IN  /\ (plies = {}) = (found = Catalogue!NoOpening)
                          /\ plies # {} =>
                               /\ found.ply = Catalogue!Max(plies)
                               /\ IF exact(found.ply) # {} THEN found.label = Catalogue!Min(exact(found.ply))
                                  ELSE found.label = Catalogue!Min({x.label : x \in Catalogue!EndingAt(Catalogue!Along(game)[found.ply], X)})
                          /\ \A n \in DOMAIN game :
                               Catalogue!ReplayEvidence(SubSeq(game, 1, n), X)
                                 = {e \in Catalogue!ReplayEvidence(game, X) : e.ply <= n}
    BY Zenon DEF Catalogue!ReplayNamesTheLast
  <2> DEFINE X == answer[r].routes
             w == Scores[g]
             c == Catalogue!Current(Catalogue!ReplayEvidence(w, X))
             P == {n \in DOMAIN w : Met(w, n, X) # {}}
  <2>1. IsFiniteSet(X) /\ \A x \in X : Route(x)
    BY <1>1, RoutesAnswered
  <2>2. w \in Seq(Nat)
    BY CatalogueConstants
  <2>3. P = {n \in DOMAIN w : Catalogue!EndingAt(Catalogue!Along(w)[n], X) # {}}
    BY DEF Met
  <2> HIDE DEF X, w
  <2>4. /\ P = {} <=> c = Catalogue!NoOpening
        /\ P # {} => /\ c.ply = Catalogue!Max(P)
                     /\ c.label = IF Gone(w, c.ply, X) # {} THEN Catalogue!Min(Gone(w, c.ply, X))
                                  ELSE Catalogue!Min({x.label : x \in Met(w, c.ply, X)})
    BY <2>1, <2>2, ReplayIs
  <2>5. \A n \in DOMAIN w : Catalogue!ReplayEvidence(SubSeq(w, 1, n), X) = {e \in Catalogue!ReplayEvidence(w, X) : e.ply <= n}
    BY <2>2, ReplayPrefix
  <2>6. Gone(w, c.ply, X) = {x.label : x \in {y \in X : y.moves = SubSeq(w, 1, c.ply)}}
    BY Zenon DEF Gone
  <2>7. {x.label : x \in Met(w, c.ply, X)} = {x.label : x \in Catalogue!EndingAt(Catalogue!Along(w)[c.ply], X)}
    BY Zenon DEF Met
  <2> HIDE DEF c, P
  <2>8. (P = {}) = (c = Catalogue!NoOpening)
    BY <2>4, Zenon
  <2>9. P # {} => /\ c.ply = Catalogue!Max(P)
                  /\ IF Gone(w, c.ply, X) # {} THEN c.label = Catalogue!Min(Gone(w, c.ply, X))
                     ELSE c.label = Catalogue!Min({x.label : x \in Met(w, c.ply, X)})
    BY <2>4
  <2> QED
    BY <2>3, <2>5, <2>6, <2>7, <2>8, <2>9, Zenon DEF X, w, c
<1> QED
  BY <1>2, <1>3, <1>4

LEMMA PagesAnswered ==
  ASSUME CatInv
  PROVE  Catalogue!TypeOK /\ Catalogue!UndisturbedIsExact /\ Catalogue!DeepestCountsOnce /\ Catalogue!PagesCoverOnce
<1>1. \A r \in Visitors : CatAnswerFits(answer[r]) /\ CatReaderFits(reader[r], source)
  BY DEF CatInv
<1>2. Catalogue!TypeOK
  <2>1. \A r \in Visitors : reader[r].pc \in {"idle", "routes", "labels"} /\ answer[r].kind \in {"none", "routes", "entries", "error"}
    BY <1>1 DEF CatReaderFits, CatAnswerFits
  <2> QED
    BY <2>1 DEF CatInv, Catalogue!TypeOK
<1>3. Catalogue!UndisturbedIsExact
  <2> SUFFICES ASSUME NEW r \in Visitors, answer[r].whole
               PROVE  CASE answer[r].kind = "routes" -> answer[r].routes = answer[r].source
                        [] answer[r].kind = "entries" ->
                             {e.label : e \in answer[r].entries} = {x.label : x \in answer[r].source}
                        [] answer[r].kind = "error" -> \E x \in answer[r].source : x.label \in Unnamed
                        [] OTHER -> TRUE
    BY DEF Catalogue!UndisturbedIsExact
  <2> DEFINE a == answer[r]
  <2>1. CatAnswerFits(a) /\ a.whole
    BY <1>1
  <2> HIDE DEF a
  <2>2. a.kind = "routes" => a.routes = a.source
    BY <2>1, RoutesAnswered
  <2>3. a.kind = "entries" => {e.label : e \in a.entries} = {x.label : x \in a.source}
    <3> SUFFICES ASSUME a.kind = "entries" PROVE {e.label : e \in a.entries} = {x.label : x \in a.source}
      OBVIOUS
    <3>1. a.source \in Sources /\ a.entries = EntriesOf(a.source, a.source)
      BY <2>1, EntriesAnswered
    <3>2. {e.label : e \in EntriesOf(a.source, a.source)} = {x.label : x \in a.source}
      BY <3>1, EntriesOfAre, Zenon
    <3> QED
      BY <3>1, <3>2
  <2>4. a.kind = "error" => \E x \in a.source : x.label \in Unnamed
    BY <2>1 DEF CatAnswerFits
  <2> QED
    BY <2>2, <2>3, <2>4 DEF a
<1>4. Catalogue!DeepestCountsOnce
  <2> SUFFICES ASSUME NEW r \in Visitors, answer[r].kind = "entries", answer[r].whole
               PROVE  LET plies(g) == {n \in DOMAIN Scores[g] : Catalogue!EndingAt(Catalogue!Along(Scores[g])[n], answer[r].source) # {}}
                          reaching == {g \in DOMAIN Scores : plies(g) # {}}
                          last(g) == {x.label : x \in Catalogue!EndingAt(Catalogue!Along(Scores[g])[Catalogue!Max(plies(g))], answer[r].source)}
                          counted == UNION {{e} \X (1..e.games_deepest) : e \in answer[r].entries}
                      IN  /\ Catalogue!Cardinality(counted) = Catalogue!Cardinality(reaching)
                          /\ \A e \in answer[r].entries :
                               /\ e.games_deepest <= e.games_reached
                               /\ e.games_deepest <= Catalogue!Cardinality({g \in reaching : e.label \in last(g)})
    BY Zenon DEF Catalogue!DeepestCountsOnce
  <2> DEFINE a == answer[r]
             s == a.source
             plies(g) == {n \in DOMAIN Scores[g] : Catalogue!EndingAt(Catalogue!Along(Scores[g])[n], s) # {}}
             reaching == {g \in DOMAIN Scores : plies(g) # {}}
             last(g) == {x.label : x \in Catalogue!EndingAt(Catalogue!Along(Scores[g])[Catalogue!Max(plies(g))], s)}
             counted == UNION {{e} \X (1..e.games_deepest) : e \in a.entries}
  <2>1. a.source \in Sources /\ a.entries = EntriesOf(a.source, a.source)
    BY <1>1, EntriesAnswered
  <2> HIDE DEF a
  <2>2. /\ Cardinality(counted) = Cardinality(reaching)
        /\ \A e \in a.entries :
             /\ e.games_deepest <= e.games_reached
             /\ e.games_deepest <= Cardinality({g \in reaching : e.label \in last(g)})
    BY <2>1, DeepestCounts, Zenon
  <2> HIDE DEF counted, reaching, last
  <2>3. /\ Catalogue!Cardinality(counted) = Catalogue!Cardinality(reaching)
        /\ \A e \in a.entries :
             /\ e.games_deepest <= e.games_reached
             /\ e.games_deepest <= Catalogue!Cardinality({g \in reaching : e.label \in last(g)})
    BY <2>2, CatSizeIs
  <2> QED
    BY <2>3, Zenon DEF a, counted, reaching, last
<1>5. Catalogue!PagesCoverOnce
  <2>1. ASSUME NEW r \in Visitors, answer[r].kind = "entries", NEW sort \in Catalogue!Sorts,
               NEW from \in {EcoOf[l] : l \in Labels}, NEW to \in {EcoOf[l] : l \in Labels},
               NEW found \in Texts, NEW size \in PageSizes
        PROVE  PagesCover(answer[r].entries, sort, from, to, found, size)
    <3>1. EntriesFit(answer[r].entries)
      BY <1>1, <2>1, EntriesAnswered
    <3>2. size \in Nat \ {0}
      BY CatalogueConstants
    <3> QED
      BY <3>1, <3>2, PagesAreRight
  <2> QED
    BY <2>1, Zenon DEF Catalogue!PagesCoverOnce, PagesCover
<1> QED
  BY <1>2, <1>3, <1>4, <1>5

LEMMA CatInvIsRight ==
  ASSUME CatInv
  PROVE  CatalogueIsRight
BY RecognitionAnswered, PagesAnswered DEF CatalogueIsRight, Catalogue!Right

-----------------------------------------------------------------------------
(* The steps of the catalogue and its visitors. *)

LEMMA CatalogueBegins == Catalogue!Init => CatInv
<1> SUFFICES ASSUME Catalogue!Init PROVE CatInv
  OBVIOUS
<1> DEFINE o == Catalogue!Idle
           a == Catalogue!Nothing
<1>1. /\ source \in Sources /\ tables = Catalogue!Tables(source)
      /\ reader = [r \in Visitors |-> o] /\ answer = [r \in Visitors |-> a]
  BY DEF Catalogue!Init
<1>2. CatReaderFits(o, source)
  BY DEF CatReaderFits, Catalogue!Idle
<1>3. CatAnswerFits(a)
  BY DEF CatAnswerFits, Catalogue!Nothing
<1> HIDE DEF o, a
<1>4. reader = [r \in Visitors |-> reader[r]] /\ \A r \in Visitors : CatReaderFits(reader[r], source)
  BY <1>1, <1>2
<1>5. answer = [r \in Visitors |-> answer[r]] /\ \A r \in Visitors : CatAnswerFits(answer[r])
  BY <1>1, <1>3
<1> QED
  BY <1>1, <1>4, <1>5 DEF CatInv

LEMMA CatalogueRests ==
  ASSUME CatInv, UNCHANGED openings
  PROVE  CatInv'
BY DEF CatInv, openings

LEMMA ReplaceKeeps ==
  ASSUME CatInv, NEW s \in Sources, Catalogue!Replace(s)
  PROVE  CatInv'
<1> DEFINE f(r) == [reader[r] EXCEPT !.whole = FALSE]
<1>1. /\ source' = s /\ tables' = Catalogue!Tables(s) /\ answer' = answer
      /\ reader' = [r \in Visitors |-> f(r)]
  BY DEF Catalogue!Replace
<1>2. /\ \A r \in Visitors : CatReaderFits(reader[r], source)
      /\ answer = [r \in Visitors |-> answer[r]] /\ \A r \in Visitors : CatAnswerFits(answer[r])
  BY DEF CatInv
<1>3. ASSUME NEW r \in Visitors PROVE CatReaderFits(f(r), s)
  <2> DEFINE o == reader[r]
             n == f(r)
  <2>1. CatReaderFits(o, source)
    BY <1>2
  <2>2. n = [o EXCEPT !.whole = FALSE]
    OBVIOUS
  <2> HIDE DEF o, n
  <2>3. o = [pc |-> o.pc, first |-> o.first, routes |-> o.routes, whole |-> o.whole]
    BY <2>1 DEF CatReaderFits
  <2>4. n = [pc |-> o.pc, first |-> o.first, routes |-> o.routes, whole |-> FALSE]
    BY <2>2, <2>3
  <2>5. n.pc = o.pc /\ n.first = o.first /\ n.routes = o.routes /\ n.whole = FALSE
    BY <2>4
  <2>6. CatReaderFits(n, s)
    BY <2>1, <2>4, <2>5 DEF CatReaderFits
  <2> QED
    BY <2>6 DEF n
<1> HIDE DEF f
<1>4. reader' = [r \in Visitors |-> reader'[r]] /\ \A r \in Visitors : CatReaderFits(reader'[r], source')
  BY <1>1, <1>3
<1>5. answer' = [r \in Visitors |-> answer'[r]] /\ \A r \in Visitors : CatAnswerFits(answer'[r])
  BY <1>1, <1>2
<1>6. source' \in Sources /\ tables' = Catalogue!Tables(source')
  BY <1>1
<1> QED
  BY <1>4, <1>5, <1>6 DEF CatInv

\* A reader moves on, and is told something.
LEMMA VisitKeeps ==
  ASSUME CatInv, NEW v \in Visitors, UNCHANGED <<source, tables>>,
         NEW o, reader' = [reader EXCEPT ![v] = o], CatReaderFits(o, source),
         NEW a, answer' = [answer EXCEPT ![v] = a], CatAnswerFits(a)
  PROVE  CatInv'
<1>1. /\ source \in Sources /\ tables = Catalogue!Tables(source)
      /\ reader = [r \in Visitors |-> reader[r]] /\ \A r \in Visitors : CatReaderFits(reader[r], source)
      /\ answer = [r \in Visitors |-> answer[r]] /\ \A r \in Visitors : CatAnswerFits(answer[r])
  BY DEF CatInv
<1>2. \A r \in Visitors : /\ reader'[r] = IF r = v THEN o ELSE reader[r]
                          /\ answer'[r] = IF r = v THEN a ELSE answer[r]
  BY <1>1
<1>3. reader' = [r \in Visitors |-> reader'[r]] /\ answer' = [r \in Visitors |-> answer'[r]]
  BY <1>1
<1>4. \A r \in Visitors : CatReaderFits(reader'[r], source') /\ CatAnswerFits(answer'[r])
  BY <1>1, <1>2
<1> QED
  BY <1>1, <1>3, <1>4 DEF CatInv

LEMMA ReadFirstKeeps ==
  ASSUME CatInv, NEW v \in Visitors, NEW what \in {"routes", "labels"}, Catalogue!ReadFirst(v, what)
  PROVE  CatInv'
<1> DEFINE o == [pc |-> what, first |-> IF what = "routes" THEN tables.routes ELSE tables.labels,
                 routes |-> tables.routes, whole |-> TRUE]
<1>1. reader' = [reader EXCEPT ![v] = o] /\ UNCHANGED <<source, tables>> /\ answer' = answer
  BY DEF Catalogue!ReadFirst
<1>2. source \in Sources /\ tables.labels = LabelsOf(source) /\ tables.routes = RowsOf(source)
  BY TablesAre DEF CatInv
<1>3. CatReaderFits(o, source)
  BY <1>2 DEF CatReaderFits
<1>4. answer' = [answer EXCEPT ![v] = answer[v]] /\ CatAnswerFits(answer[v])
  BY <1>1 DEF CatInv
<1> HIDE DEF o
<1> QED
  BY <1>1, <1>3, <1>4, VisitKeeps

LEMMA IdleFits == CatReaderFits(Catalogue!Idle, source)
BY DEF CatReaderFits, Catalogue!Idle

LEMMA ReadMovesKeeps ==
  ASSUME CatInv, NEW v \in Visitors, Catalogue!ReadMoves(v)
  PROVE  CatInv'
<1> DEFINE rows == reader[v].first
           w == reader[v].whole
           ok == Catalogue!Sane(rows, tables.moves)
           X == Catalogue!Materialized(rows, tables.moves)
           a == IF ok THEN [Catalogue!Nothing EXCEPT !.kind = "routes", !.routes = X, !.whole = w, !.source = source]
                ELSE [Catalogue!Nothing EXCEPT !.kind = "error", !.whole = w, !.source = source]
<1>1. /\ reader[v].pc = "routes" /\ UNCHANGED <<source, tables>>
      /\ reader' = [reader EXCEPT ![v] = Catalogue!Idle] /\ answer' = [answer EXCEPT ![v] = a]
  BY DEF Catalogue!ReadMoves
<1>2. source \in Sources /\ tables.moves = PliesOf(source)
  BY TablesAre DEF CatInv
<1>3. PICK s \in Sources : rows = RowsOf(s) /\ (w => s = source)
  BY <1>1 DEF CatInv, CatReaderFits
<1>4. ok <=> Catalogue!Sane(RowsOf(s), PliesOf(source))
  BY <1>2, <1>3
<1>5. X = Catalogue!Materialized(RowsOf(s), PliesOf(source))
  BY <1>2, <1>3
<1> HIDE DEF ok, X, w
<1>6. CatAnswerFits(a)
  <2>1. CASE ok
    <3>1. a = [Catalogue!Nothing EXCEPT !.kind = "routes", !.routes = X, !.whole = w, !.source = source]
      BY <2>1
    <3> HIDE DEF a
    <3>2. a.kind = "routes" /\ a.routes = X /\ a.entries = {} /\ a.whole = w /\ a.source = source
      BY <3>1 DEF Catalogue!Nothing
    <3> QED
      BY <1>2, <1>3, <1>4, <1>5, <2>1, <3>2 DEF CatAnswerFits
  <2>2. CASE ~ ok
    <3>1. a = [Catalogue!Nothing EXCEPT !.kind = "error", !.whole = w, !.source = source]
      BY <2>2
    <3> HIDE DEF a
    <3>2. a.kind = "error" /\ a.routes = {} /\ a.entries = {} /\ a.whole = w /\ a.source = source
      BY <3>1 DEF Catalogue!Nothing
    <3>3. ~ w
      BY <1>3, <1>4, <2>2, WholeAre
    <3> QED
      BY <3>2, <3>3 DEF CatAnswerFits
  <2> QED
    BY <2>1, <2>2
<1> HIDE DEF a
<1> QED
  BY <1>1, <1>6, IdleFits, VisitKeeps

LEMMA ReadUsageKeeps ==
  ASSUME CatInv, NEW v \in Visitors, Catalogue!ReadUsage(v)
  PROVE  CatInv'
<1> DEFINE L == reader[v].first
           w == reader[v].whole
           U == Catalogue!Usage(tables)
           ok == Catalogue!Readable(L, U)
           E == Catalogue!Entries(L, reader[v].routes, U)
           a == IF ok THEN [Catalogue!Nothing EXCEPT !.kind = "entries", !.entries = E, !.whole = w, !.source = source]
                ELSE [Catalogue!Nothing EXCEPT !.kind = "error", !.whole = w, !.source = source]
<1>1. /\ reader[v].pc = "labels" /\ UNCHANGED <<source, tables>>
      /\ reader' = [reader EXCEPT ![v] = Catalogue!Idle] /\ answer' = [answer EXCEPT ![v] = a]
  BY DEF Catalogue!ReadUsage
<1>2. source \in Sources /\ tables = Catalogue!Tables(source)
  BY DEF CatInv
<1>3. PICK s \in Sources : L = LabelsOf(s) /\ reader[v].routes = RowsOf(s) /\ (w => s = source)
  BY <1>1 DEF CatInv, CatReaderFits
<1>4. E = EntriesOf(s, source)
  BY <1>2, <1>3 DEF EntriesOf
<1>5. ~ ok /\ w => \E x \in source : x.label \in Unnamed
  <2> SUFFICES ASSUME ~ ok, w PROVE \E x \in source : x.label \in Unnamed
    OBVIOUS
  <2>1. L = LabelsOf(source)
    BY <1>3
  <2>2. U = Catalogue!Usage(Catalogue!Tables(source))
    BY <1>2
  <2>3. \A u \in U : u.id \in DOMAIN L /\ L[u.id] = u.label
    BY <1>2, <2>1, <2>2, UsageIs
  <2>4. Catalogue!ToSet(L) \cap Unnamed # {}
    BY <2>3 DEF Catalogue!Readable
  <2>5. Catalogue!ToSet(L) = {x.label : x \in source}
    BY <1>2, <2>1, LabelsOfGive
  <2> QED
    BY <2>4, <2>5
<1> HIDE DEF ok, E, w
<1>6. CatAnswerFits(a)
  <2>1. CASE ok
    <3>1. a = [Catalogue!Nothing EXCEPT !.kind = "entries", !.entries = E, !.whole = w, !.source = source]
      BY <2>1
    <3> HIDE DEF a
    <3>2. a.kind = "entries" /\ a.routes = {} /\ a.entries = E /\ a.whole = w /\ a.source = source
      BY <3>1 DEF Catalogue!Nothing
    <3> QED
      BY <1>2, <1>3, <1>4, <3>2 DEF CatAnswerFits
  <2>2. CASE ~ ok
    <3>1. a = [Catalogue!Nothing EXCEPT !.kind = "error", !.whole = w, !.source = source]
      BY <2>2
    <3> HIDE DEF a
    <3>2. a.kind = "error" /\ a.routes = {} /\ a.entries = {} /\ a.whole = w /\ a.source = source
      BY <3>1 DEF Catalogue!Nothing
    <3> QED
      BY <1>5, <2>2, <3>2 DEF CatAnswerFits
  <2> QED
    BY <2>1, <2>2
<1> HIDE DEF a
<1> QED
  BY <1>1, <1>6, IdleFits, VisitKeeps

LEMMA CatalogueKeeps ==
  ASSUME CatInv, Catalogue!Next
  PROVE  CatInv'
<1>1. ASSUME NEW s \in Sources, Catalogue!Replace(s) PROVE CatInv'
  BY <1>1, ReplaceKeeps
<1>2. ASSUME NEW r \in Visitors, Catalogue!ReadFirst(r, "routes") \/ Catalogue!ReadFirst(r, "labels") PROVE CatInv'
  BY <1>2, ReadFirstKeeps
<1>3. ASSUME NEW r \in Visitors, Catalogue!ReadMoves(r) PROVE CatInv'
  BY <1>3, ReadMovesKeeps
<1>4. ASSUME NEW r \in Visitors, Catalogue!ReadUsage(r) PROVE CatInv'
  BY <1>4, ReadUsageKeeps
<1> QED
  BY <1>1, <1>2, <1>3, <1>4 DEF Catalogue!Next

\* Whoever visits the catalogue while it is replaced, what is recognized can be played and
\* is named right, a reading that no replacement came into is exact, and the pages show
\* every entry once, whatever the openings, the games, the order and the page size are.
THEOREM CataloguesStayRight == ReadsSpec => []CatalogueIsRight
<1>1. ReadsInit => CatInv
  BY CatalogueBegins DEF ReadsInit
<1>2. CatInv /\ [ReadsNext]_reads => CatInv'
  <2> SUFFICES ASSUME CatInv, [ReadsNext]_reads PROVE CatInv'
    OBVIOUS
  <2>1. Catalogue!Next \/ UNCHANGED openings
    BY DEF ReadsNext, reads
  <2> QED
    BY <2>1, CatalogueKeeps, CatalogueRests
<1>3. CatInv => CatalogueIsRight
  BY CatInvIsRight
<1> QED
  BY <1>1, <1>2, <1>3, PTL DEF ReadsSpec

=============================================================================
