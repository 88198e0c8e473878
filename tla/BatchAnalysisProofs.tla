-------------------------- MODULE BatchAnalysisProofs --------------------------
(***************************************************************************)
(* The safety of the two programs that analyse many positions, for all     *)
(* constants.  The first half is about BatchAnalysis.  The batch keeps no  *)
(* account of its positions; the invariant is that account: every position *)
(* handed out is either in flight in one slot, or published, or listed, or *)
(* dropped by a forced stop, and the point the coordinator is at bounds    *)
(* what may still run.  The second half is about BulkTargets: what a page  *)
(* is, for any set of targets, and where the positions of the games are    *)
(* relative to the cursor while games are imported behind its back.        *)
(***************************************************************************)
EXTENDS BatchAnalysis, BulkTargets, FiniteSetTheorems, TLAPS

USE BatchAssumption DEF BatchAssumption

-----------------------------------------------------------------------------
(* The invariant. *)

Ats == {"idle", "check", "launch", "register", "analyse", "discard"} \cup Finished
Engines == {"none", "unregistered", "registered", "killed"}
Points == {"dispatch", "fill", "dispatched", "wait", "settle", "shutdown", "close",
           "record", "done", "abort", "abort close", "raised"}
Worker == [position : 0..Work, attempt : 0..MaxAttempts, at : Ats, engine : Engines]

\* Every variable has its type.
Types ==
  /\ next \in 1..Work + 1 /\ worker \in [Slots -> Worker]
  /\ returned \subseteq Slots /\ stored \subseteq Positions /\ failures \subseteq Positions
  /\ consecutive \in Nat /\ breaker \in BOOLEAN /\ pc \in Points
  /\ status \in {"none", "interrupted", "failed", "success"}
  /\ interrupts \in {"none", "first", "second", "hard", "forced"}
  /\ stop \in BOOLEAN /\ hard \in BOOLEAN /\ strays \in Nat /\ faults \in 0..MaxFaults

Busy(t) == worker[t].at # "idle"

\* A position in flight was taken up, has no outcome yet and is in one slot.
InOneSlot ==
  /\ \A t \in Slots : Busy(t) =>
       worker[t].position \in 1..next - 1 /\ worker[t].position \notin stored \cup failures
  /\ \A t, u \in Slots : t # u /\ Busy(t) /\ Busy(u) => worker[t].position # worker[u].position

\* Outcomes are of positions taken up, and of each at most one.
Outcomes == stored \cup failures \subseteq 1..next - 1 /\ stored \cap failures = {}

\* Without a forced stop, a position taken up has an outcome or is in flight.
Accounted ==
  hard \/ \A p \in 1..next - 1 :
            p \in stored \cup failures \/ \E t \in Slots : Busy(t) /\ worker[t].position = p

\* A forced stop is a stop, and only it interrupts an analysis.
Stopping ==
  /\ hard => stop
  /\ interrupts = "second" => stop
  /\ \A t \in Slots : worker[t].at = "forced" => hard

\* The breaker trips on failures, and never while slots are filled.
Tripped == breaker => failures # {} /\ pc # "fill"

\* What may still run when the coordinator has come to a point.
Phases ==
  /\ pc = "dispatched" => stop \/ breaker
  /\ pc \in {"shutdown", "close", "record", "done"} =>
       (\A t \in Slots : ~ Busy(t)) /\ (stop \/ breaker \/ next \notin Positions)
  /\ pc \in {"close", "abort close", "record", "done", "raised"} =>
       \A t \in Slots : worker[t].at \in Finished \cup {"idle"}
  /\ pc \in {"record", "done", "raised"} => \A t \in Slots : worker[t].engine = "none"
  /\ returned # {} => pc = "settle"
  /\ \A t \in returned : Busy(t)

\* The record is written last and tells the outcome.
Recorded == status # "none" => pc = "done" /\ status = Outcome

\* Every failure in a row is on the list; a stray process costs a fault.
Counted == consecutive <= Cardinality(failures) /\ (faults = 0 => strays = 0)

BInv ==
  /\ Types /\ InOneSlot /\ Outcomes /\ Accounted /\ Stopping
  /\ Tripped /\ Phases /\ Recorded /\ Counted

-----------------------------------------------------------------------------
(* Steps. *)

\* The list of failures is finite.
LEMMA ListIsFinite == ASSUME Types PROVE IsFiniteSet(failures)
<1>1. IsFiniteSet(1..Work)
  BY FS_Interval
<1> QED
  BY <1>1, FS_Subset DEF Types, Positions

\* A fault may happen below the bound, and is then counted.
LEMMA OneMore == \A n \in 0..MaxFaults : n < MaxFaults => n + 1 \in 0..MaxFaults /\ n + 1 # 0
OBVIOUS

\* Sums of naturals.
LEMMA SumIsNat == \A m, n \in Nat : m + n \in Nat
OBVIOUS

\* A fault is counted.
LEMMA FaultCounts == ASSUME Types, Fault PROVE faults' \in 0..MaxFaults /\ faults' # 0
<1>1. faults \in 0..MaxFaults /\ faults < MaxFaults /\ faults' = faults + 1
  BY DEF Types, Fault
<1> QED
  BY <1>1, OneMore, Zenon

\* Slot t goes on to another place with its position.
Moves(t, point) ==
  \E w \in Worker : worker' = [worker EXCEPT ![t] = w] /\ w.position = worker[t].position /\ w.at = point

\* Setting where a thread is moves its position there.
LEMMA SetMoves ==
  ASSUME Types, NEW t \in Slots, NEW point \in Ats, NEW engine \in Engines, Set(t, point, engine)
  PROVE  Moves(t, point)
<1> DEFINE w == [worker[t] EXCEPT !.at = point, !.engine = engine]
<1>1. worker[t] \in Worker
  BY DEF Types
<1>2. w \in Worker /\ w.position = worker[t].position /\ w.at = point
  BY <1>1 DEF Worker
<1>3. worker' = [worker EXCEPT ![t] = w]
  BY <1>1 DEF Set, Types, Worker
<1> QED
  BY <1>2, <1>3 DEF Moves

\* After a discard the position is tried again, or has failed, or was interrupted by force.
LEMMA DiscardMoves ==
  ASSUME Types, NEW t \in Slots, Discard(t)
  PROVE  \E point \in Ats \ {"idle", "ok"} : Moves(t, point) /\ (point = "forced" => hard)
<1> DEFINE w == AfterDiscard(worker[t])
<1>1. worker[t] \in Worker
  BY DEF Types
<1>2. /\ w \in Worker /\ w.position = worker[t].position
      /\ w.at \in {"forced", "check", "failure"} /\ (w.at = "forced" => hard)
  <2>1. CASE hard
    BY <1>1, <2>1 DEF AfterDiscard, Worker, Ats, Engines, Finished
  <2>2. CASE ~ hard /\ worker[t].attempt < MaxAttempts
    <3>1. worker[t].attempt + 1 \in 0..MaxAttempts
      BY <1>1, <2>2 DEF Worker
    <3> QED
      BY <1>1, <2>2, <3>1 DEF AfterDiscard, Worker, Ats, Engines, Finished
  <2>3. CASE ~ hard /\ ~ (worker[t].attempt < MaxAttempts)
    BY <1>1, <2>3 DEF AfterDiscard, Worker, Ats, Engines, Finished
  <2> QED
    BY <2>1, <2>2, <2>3
<1>3. worker' = [worker EXCEPT ![t] = w]
  BY DEF Discard
<1>4. Moves(t, w.at)
  BY <1>2, <1>3 DEF Moves
<1> QED
  BY <1>2, <1>4 DEF Ats, Finished

\* What a worker thread may do: it moves its own position on to another place.
ThreadStep(t) == Analyse(t) \/ WatchdogFails(t) \/ DiscardFails(t)

\* What any step of a worker thread does to its slot.
LEMMA ThreadEffect ==
  ASSUME Types, NEW t \in Slots, ThreadStep(t)
  PROVE  /\ worker[t].at \notin Finished \cup {"idle"}
         /\ \E point \in Ats \ {"idle"} : Moves(t, point) /\ (point = "forced" => hard) /\ (hard => point # "ok")
         /\ strays' \in Nat /\ faults' \in 0..MaxFaults
         /\ faults' = 0 => faults = 0 /\ strays' = strays
         /\ UNCHANGED <<coordinator, controller>>
<1> USE DEF Ats, Engines, Finished
<1>1. worker[t] \in Worker /\ strays \in Nat /\ faults \in 0..MaxFaults
  BY DEF Types
<1>2. CASE Check(t)
  <2>1. PICK point \in {"forced", "launch", "analyse"} : Set(t, point, worker[t].engine) /\ (point = "forced" => hard)
    BY <1>2 DEF Check
  <2>2. Moves(t, point)
    BY <1>1, <2>1, SetMoves DEF Worker
  <2> QED
    BY <1>1, <1>2, <2>1, <2>2 DEF Check
<1>3. CASE Launch(t) \/ Register(t)
  <2>1. PICK point \in {"register", "analyse"}, engine \in {"unregistered", "registered"} : Set(t, point, engine)
    BY <1>3 DEF Launch, Register
  <2>2. Moves(t, point)
    BY <2>1, SetMoves
  <2> QED
    BY <1>1, <1>3, <2>1, <2>2 DEF Launch, Register
<1>4. CASE AnalyseReturns(t)
  <2>1. PICK point \in {"forced", "ok"} : Set(t, point, "registered") /\ (point = "forced" => hard) /\ (hard => point # "ok")
    BY <1>4 DEF AnalyseReturns
  <2>2. Moves(t, point)
    BY <2>1, SetMoves
  <2> QED
    BY <1>1, <1>4, <2>1, <2>2 DEF AnalyseReturns
<1>5. CASE AnalyseRaises(t)
  <2>1. Moves(t, "discard")
    BY <1>1, <1>5, SetMoves DEF AnalyseRaises, Worker
  <2> QED
    BY <1>1, <1>5, <2>1 DEF AnalyseRaises
<1>6. CASE Discard(t)
  BY <1>1, <1>6, DiscardMoves DEF Discard
<1>7. CASE WatchdogFails(t)
  <2>1. Moves(t, "discard")
    BY <1>7, SetMoves DEF WatchdogFails
  <2> QED
    BY <1>1, <1>7, <2>1, FaultCounts DEF WatchdogFails
<1>8. CASE DiscardFails(t)
  <2>1. Moves(t, "lifecycle")
    BY <1>8, SetMoves DEF DiscardFails
  <2> QED
    BY <1>1, <1>8, <2>1, FaultCounts DEF DiscardFails
<1> QED
  BY <1>2, <1>3, <1>4, <1>5, <1>6, <1>7, <1>8 DEF ThreadStep, Analyse

\* A worker thread keeps its position, and a step of it takes no other's.
LEMMA ThreadKeeps ==
  ASSUME BInv, NEW t \in Slots, ThreadStep(t)
  PROVE  BInv'
<1> USE DEF BInv, Types, Ats, Engines, Points, Worker, Finished
<1>1. PICK w \in Worker :
        /\ worker' = [worker EXCEPT ![t] = w]
        /\ w.position = worker[t].position /\ w.at # "idle"
        /\ (w.at = "forced" => hard) /\ (hard => w.at # "ok")
  BY ThreadEffect DEF Moves
<1>2. /\ worker[t].at \notin Finished \cup {"idle"}
      /\ strays' \in Nat /\ faults' \in 0..MaxFaults
      /\ faults' = 0 => faults = 0 /\ strays' = strays
      /\ UNCHANGED <<next, returned, stored, failures, consecutive, breaker, pc, status>>
      /\ UNCHANGED <<interrupts, stop, hard>>
  BY ThreadEffect DEF coordinator, controller
<1>3. Types'
  BY <1>1, <1>2
<1>4. InOneSlot'
  BY <1>1, <1>2 DEF InOneSlot, Busy
<1>5. Outcomes'
  BY <1>2 DEF Outcomes
<1>6. Accounted'
  BY <1>1, <1>2 DEF Accounted, Busy
<1>7. Stopping'
  BY <1>1, <1>2 DEF Stopping
<1>8. Tripped'
  BY <1>2 DEF Tripped
<1>9. Phases'
  BY <1>1, <1>2 DEF Phases, Busy, Positions
<1>10. Recorded'
  BY <1>2 DEF Recorded, Outcome
<1>11. Counted'
  BY <1>2 DEF Counted
<1> QED
  BY <1>3, <1>4, <1>5, <1>6, <1>7, <1>8, <1>9, <1>10, <1>11

\* At the start nothing was taken up.
LEMMA InitInv == Init => BInv
<1> SUFFICES ASSUME Init PROVE BInv
  OBVIOUS
<1> USE DEF BInv, Types, Ats, Engines, Points, Worker, Finished
<1>1. Types
  <2>1. NoWork \in Worker
    BY DEF NoWork, NoPosition
  <2>2. worker \in [Slots -> Worker]
    BY <2>1 DEF Init
  <2>3. next \in 1..Work + 1 /\ faults \in 0..MaxFaults /\ strays \in Nat /\ consecutive \in Nat
    BY DEF Init
  <2> QED
    BY <2>2, <2>3 DEF Init
<1>2. InOneSlot
  BY DEF InOneSlot, Outcomes, Phases, Busy, Positions, Init, NoWork, NoPosition
<1>3. Outcomes
  BY DEF InOneSlot, Outcomes, Phases, Busy, Positions, Init, NoWork, NoPosition
<1>4. Accounted
  BY DEF Accounted, InOneSlot, Stopping, Phases, Busy, Positions, Init, NoWork, NoPosition
<1>5. Stopping
  BY DEF Stopping, Init, NoWork, NoPosition
<1>6. Tripped
  BY DEF Tripped, Init, NoWork, NoPosition
<1>7. Phases
  BY DEF Phases, Busy, InFlight, Threads, Positions, Registered, Ended, Init, NoWork, NoPosition
<1>8. Recorded
  BY DEF Recorded, Phases, Outcome, Ended, Busy, Init, NoWork, NoPosition
<1>9. Counted
  BY FS_EmptySet DEF Counted, Init
<1> QED
  BY <1>1, <1>2, <1>3, <1>4, <1>5, <1>6, <1>7, <1>8, <1>9

\* A submitted position is new, so it is in no other slot.
LEMMA SubmitKeeps ==
  ASSUME BInv, NEW t \in Slots, Submit(t)
  PROVE  BInv'
<1> USE DEF BInv, Types, Ats, Engines, Points, Worker, Finished
<1>1. Types'
  BY DEF Positions, Submit, controller
<1>2. InOneSlot'
  BY DEF InOneSlot, Outcomes, Phases, Busy, Positions, Submit, controller
<1>3. Outcomes'
  BY DEF InOneSlot, Outcomes, Phases, Busy, Positions, Submit, controller
<1>4. Accounted'
  BY DEF Accounted, InOneSlot, Stopping, Phases, Busy, Positions, Submit, controller
<1>5. Stopping'
  BY DEF Stopping, Submit, controller
<1>6. Tripped'
  BY DEF Tripped, Submit, controller
<1>7. Phases'
  BY DEF Phases, Busy, InFlight, Threads, Positions, Registered, Ended, Submit, controller
<1>8. Recorded'
  BY DEF Recorded, Phases, Outcome, Ended, Busy, Submit, controller
<1>9. Counted'
  BY DEF Counted, Submit, controller
<1> QED
  BY <1>1, <1>2, <1>3, <1>4, <1>5, <1>6, <1>7, <1>8, <1>9

\* A published position leaves its slot.
LEMMA PublishKeeps ==
  ASSUME BInv, NEW t \in Slots, Publish(t)
  PROVE  BInv'
<1> USE DEF BInv, Types, Ats, Engines, Points, Worker, Finished
<1>1. /\ pc = "settle" /\ t \in returned /\ returned' = returned \ {t}
      /\ worker' = [worker EXCEPT ![t] = [NoWork EXCEPT !.engine = worker[t].engine]]
      /\ pc' = IF returned' = {} THEN "dispatch" ELSE "settle"
      /\ UNCHANGED <<next, status, interrupts, stop, hard, strays>>
      /\ status = "none" /\ Busy(t)
  BY DEF Publish, Take, controller, Recorded, Phases
<1>2. /\ worker' \in [Slots -> Worker] /\ ~ Busy(t)'
      /\ \A u \in Slots \ {t} : worker'[u] = worker[u]
  BY <1>1 DEF NoWork, NoPosition, Busy
<1>3. /\ stored' = stored \cup {worker[t].position} /\ consecutive' = 0
      /\ UNCHANGED <<failures, breaker, faults>>
  BY DEF Publish
<1>4. worker[t].position \in 1..next - 1 /\ worker[t].position \notin stored \cup failures
  BY <1>1 DEF InOneSlot
<1>5. Cardinality(failures) \in Nat
  BY ListIsFinite, FS_CardinalityType
<1>6. Types'
  BY <1>1, <1>2, <1>3, <1>4 DEF Positions
<1>7. InOneSlot'
  BY <1>1, <1>2, <1>3 DEF InOneSlot, Busy
<1>8. Outcomes'
  BY <1>1, <1>3, <1>4 DEF Outcomes
<1>9. Accounted'
  BY <1>1, <1>2, <1>3 DEF Accounted, Busy
<1>10. Stopping'
  BY <1>1, <1>2 DEF Stopping, Busy
<1>11. Tripped'
  BY <1>1, <1>3 DEF Tripped
<1>12. Phases'
  BY <1>1, <1>2, <1>3 DEF Phases, Busy, Positions
<1>13. Recorded'
  BY <1>1 DEF Recorded
<1>14. Counted'
  BY <1>1, <1>3, <1>5 DEF Counted
<1> QED
  BY <1>6, <1>7, <1>8, <1>9, <1>10, <1>11, <1>12, <1>13, <1>14

\* A failed position was on neither list.
LEMMA FailureKeeps ==
  ASSUME BInv, NEW t \in Slots, RecordFailure(t) \/ PublishFails(t)
  PROVE  BInv'
<1> USE DEF BInv, Types, Ats, Engines, Points, Worker, Finished
<1>1. /\ pc = "settle" /\ t \in returned /\ returned' = returned \ {t}
      /\ worker' = [worker EXCEPT ![t] = [NoWork EXCEPT !.engine = worker[t].engine]]
      /\ pc' = IF returned' = {} THEN "dispatch" ELSE "settle"
      /\ UNCHANGED <<next, status, interrupts, stop, hard, strays>>
      /\ status = "none" /\ Busy(t)
  BY DEF RecordFailure, PublishFails, Take, controller, Recorded, Phases
<1>2. /\ worker' \in [Slots -> Worker] /\ ~ Busy(t)'
      /\ \A u \in Slots \ {t} : worker'[u] = worker[u]
  BY <1>1 DEF NoWork, NoPosition, Busy
<1>3. /\ failures' = failures \cup {worker[t].position} /\ consecutive' = consecutive + 1
      /\ breaker' \in BOOLEAN /\ UNCHANGED stored
  BY DEF RecordFailure, PublishFails, CountFailure
<1>4. faults' \in 0..MaxFaults /\ (faults' = 0 => faults = 0)
  BY FaultCounts DEF RecordFailure, PublishFails
<1>5. worker[t].position \in 1..next - 1 /\ worker[t].position \notin stored \cup failures
  BY <1>1 DEF InOneSlot
<1>6. Cardinality(failures') = Cardinality(failures) + 1 /\ Cardinality(failures) \in Nat
  BY <1>3, <1>5, ListIsFinite, FS_AddElement, FS_CardinalityType
<1>7. Types'
  BY <1>1, <1>2, <1>3, <1>4, <1>5 DEF Positions
<1>8. InOneSlot'
  BY <1>1, <1>2, <1>3 DEF InOneSlot, Busy
<1>9. Outcomes'
  BY <1>1, <1>3, <1>5 DEF Outcomes
<1>10. Accounted'
  BY <1>1, <1>2, <1>3 DEF Accounted, Busy
<1>11. Stopping'
  BY <1>1, <1>2 DEF Stopping, Busy
<1>12. Tripped'
  BY <1>1, <1>3 DEF Tripped
<1>13. Phases'
  BY <1>1, <1>2, <1>3 DEF Phases, Busy, Positions
<1>14. Recorded'
  BY <1>1 DEF Recorded
<1>15. Counted'
  BY <1>1, <1>3, <1>4, <1>6 DEF Counted
<1> QED
  BY <1>7, <1>8, <1>9, <1>10, <1>11, <1>12, <1>13, <1>14, <1>15

\* Only a forced stop loses a position.
LEMMA DropKeeps ==
  ASSUME BInv, NEW t \in Slots, DropForced(t)
  PROVE  BInv'
<1> USE DEF BInv, Types, Ats, Engines, Points, Worker, Finished
<1>1. Types'
  BY DEF Positions, DropForced, Take, controller, NoWork, NoPosition
<1>2. InOneSlot'
  BY DEF InOneSlot, Outcomes, Phases, Busy, Positions, DropForced, Take, controller, NoWork, NoPosition
<1>3. Outcomes'
  BY DEF InOneSlot, Outcomes, Phases, Busy, Positions, DropForced, Take, controller, NoWork, NoPosition
<1>4. Accounted'
  BY DEF Accounted, InOneSlot, Stopping, Phases, Busy, Positions, DropForced, Take, controller, NoWork, NoPosition
<1>5. Stopping'
  BY DEF Stopping, DropForced, Take, controller, NoWork, NoPosition
<1>6. Tripped'
  BY DEF Tripped, DropForced, Take, controller, NoWork, NoPosition
<1>7. Phases'
  BY DEF Phases, Busy, InFlight, Threads, Positions, Registered, Ended, DropForced, Take, controller, NoWork, NoPosition
<1>8. Recorded'
  BY DEF Recorded, Phases, Outcome, Ended, Busy, DropForced, Take, controller, NoWork, NoPosition
<1>9. Counted'
  BY DEF Counted, DropForced, Take, controller, NoWork, NoPosition
<1> QED
  BY <1>1, <1>2, <1>3, <1>4, <1>5, <1>6, <1>7, <1>8, <1>9

\* An engine that does not exit ends the batch.
LEMMA AbortKeeps ==
  ASSUME BInv, NEW t \in Slots, Abort(t)
  PROVE  BInv'
<1> USE DEF BInv, Types, Ats, Engines, Points, Worker, Finished
<1>1. Types'
  BY DEF Positions, Abort, controller
<1>2. InOneSlot'
  BY DEF InOneSlot, Outcomes, Phases, Busy, Positions, Abort, controller
<1>3. Outcomes'
  BY DEF InOneSlot, Outcomes, Phases, Busy, Positions, Abort, controller
<1>4. Accounted'
  BY DEF Accounted, InOneSlot, Stopping, Phases, Busy, Positions, Abort, controller
<1>5. Stopping'
  BY DEF Stopping, Abort, controller
<1>6. Tripped'
  BY DEF Tripped, Abort, controller
<1>7. Phases'
  BY DEF Phases, Busy, InFlight, Threads, Positions, Registered, Ended, Abort, controller
<1>8. Recorded'
  BY DEF Recorded, Phases, Outcome, Ended, Busy, Abort, controller
<1>9. Counted'
  BY DEF Counted, Abort, controller
<1> QED
  BY <1>1, <1>2, <1>3, <1>4, <1>5, <1>6, <1>7, <1>8, <1>9

\* The coordinator goes on only when no thread is left behind.
LEMMA PointKeeps ==
  ASSUME BInv, Dispatch \/ Dispatched \/ WaitReturns \/ Shutdown
  PROVE  BInv'
<1> USE DEF BInv, Types, Ats, Engines, Points, Worker, Finished
<1>1. /\ UNCHANGED <<next, stored, failures, consecutive, breaker, status, worker, interrupts, stop, hard, strays, faults>>
      /\ pc \in {"dispatch", "fill", "dispatched", "wait", "shutdown", "abort"} /\ status = "none"
  BY DEF Dispatch, Dispatched, WaitReturns, Shutdown, controller, Recorded
<1>2. Types'
  BY DEF Dispatch, Dispatched, WaitReturns, Shutdown, InFlight, Threads, controller
<1>3. InOneSlot'
  BY <1>1 DEF InOneSlot, Busy
<1>4. Outcomes'
  BY <1>1 DEF Outcomes
<1>5. Accounted'
  BY <1>1 DEF Accounted, Busy
<1>6. Stopping'
  BY <1>1 DEF Stopping
<1>7. Tripped'
  BY <1>1 DEF Tripped, Dispatch, Dispatched, WaitReturns, Shutdown
<1>8. Phases'
  <2>1. CASE Dispatch
    BY <1>1, <2>1 DEF Phases, Busy, Dispatch
  <2>2. CASE Dispatched
    <3>1. CASE InFlight = {}
      <4>1. stop \/ breaker \/ next \notin Positions
        BY <2>2, <3>1 DEF Dispatched, Phases
      <4>2. pc' = "shutdown" /\ returned' = returned /\ \A t \in Slots : ~ Busy(t)
        BY <2>2, <3>1 DEF Dispatched, InFlight, Busy
      <4> QED
        BY <1>1, <4>1, <4>2 DEF Phases, Busy, Positions
    <3>2. CASE InFlight # {}
      BY <1>1, <2>2, <3>2 DEF Phases, Busy, Dispatched
    <3> QED
      BY <3>1, <3>2
  <2>3. CASE WaitReturns
    BY <1>1, <2>3 DEF Phases, Busy, WaitReturns, InFlight, Threads
  <2>4. CASE Shutdown
    <3>1. \A t \in Slots : worker[t].at \in Finished \cup {"idle"}
      BY <2>4 DEF Shutdown, Threads
    <3>2. returned' = returned /\ (pc = "abort" => pc' = "abort close") /\ (pc = "shutdown" => pc' = "close") /\ pc \in {"shutdown", "abort"}
      BY <2>4 DEF Shutdown
    <3> QED
      BY <1>1, <3>1, <3>2 DEF Phases, Busy, Positions
  <2> QED
    BY <2>1, <2>2, <2>3, <2>4
<1>9. Recorded'
  BY <1>1 DEF Recorded
<1>10. Counted'
  BY <1>1 DEF Counted
<1> QED
  BY <1>2, <1>3, <1>4, <1>5, <1>6, <1>7, <1>8, <1>9, <1>10

\* Closing leaves every engine to itself and no thread to use one.
LEMMA CloseKeeps ==
  ASSUME BInv, CloseEngines \/ CloseFails
  PROVE  BInv'
<1> USE DEF BInv, Types, Ats, Engines, Points, Worker, Finished
<1>1. /\ pc \in {"close", "abort close"} /\ pc' \in {"record", "raised"} /\ (pc' = "record" => pc = "close")
      /\ UNCHANGED <<next, returned, stored, failures, consecutive, breaker, status, interrupts, stop, hard>>
  BY DEF CloseEngines, CloseFails, controller
<1>2. strays' \in Nat /\ faults' \in 0..MaxFaults /\ (faults' = 0 => faults = 0 /\ strays' = strays)
  <2>1. CASE CloseEngines
    BY <2>1 DEF CloseEngines
  <2>2. CASE CloseFails
    <3>1. PICK open \in SUBSET Registered : open # {} /\ strays' = strays + Cardinality(open)
      BY <2>2 DEF CloseFails
    <3>2. faults' \in 0..MaxFaults /\ faults' # 0
      BY <2>2, FaultCounts DEF CloseFails
    <3>3. Cardinality(open) \in Nat
      BY <3>1, FS_Subset, FS_CardinalityType DEF Registered
    <3>4. strays \in Nat
      OBVIOUS
    <3>5. strays' \in Nat
      BY <3>1, <3>3, <3>4, SumIsNat
    <3> QED
      BY <3>2, <3>5, Zenon
  <2> QED
    BY <2>1, <2>2
<1>3. /\ worker' \in [Slots -> Worker]
      /\ \A t \in Slots : worker'[t].position = worker[t].position /\ worker'[t].at = worker[t].at
                          /\ worker'[t].engine = "none"
  <2>1. worker' = [t \in Slots |-> [worker[t] EXCEPT !.engine = "none"]]
    BY DEF CloseEngines, CloseFails
  <2> QED
    BY <2>1
<1>4. Types'
  BY <1>1, <1>2, <1>3
<1>5. InOneSlot'
  <2>1. \A t \in Slots : (Busy(t)' <=> Busy(t)) /\ worker'[t].position = worker[t].position
    BY <1>3 DEF Busy
  <2>2. UNCHANGED <<next, stored, failures>>
    BY <1>1
  <2>3. InOneSlot
    OBVIOUS
  <2> QED
    BY <2>1, <2>2, <2>3, Zenon DEF InOneSlot
<1>6. Outcomes'
  BY <1>1 DEF Outcomes
<1>7. Accounted'
  <2>1. \A t \in Slots : (Busy(t)' <=> Busy(t)) /\ worker'[t].position = worker[t].position
    BY <1>3 DEF Busy
  <2>2. UNCHANGED <<next, stored, failures>> /\ (hard => hard')
    BY <1>1
  <2>3. Accounted
    OBVIOUS
  <2> QED
    BY <2>1, <2>2, <2>3, Zenon DEF Accounted
<1>8. Stopping'
  BY <1>1, <1>3 DEF Stopping
<1>9. Tripped'
  BY <1>1 DEF Tripped
<1>10. Phases'
  BY <1>1, <1>3 DEF Phases, Busy, Positions
<1>11. Recorded'
  BY <1>1 DEF Recorded
<1>12. Counted'
  BY <1>1, <1>2 DEF Counted
<1> QED
  BY <1>4, <1>5, <1>6, <1>7, <1>8, <1>9, <1>10, <1>11, <1>12

\* The record is appended, or not.
LEMMA AppendKeeps ==
  ASSUME BInv, AppendBatch \/ AppendFails
  PROVE  BInv'
<1> USE DEF BInv, Types, Ats, Engines, Points, Worker, Finished
<1>1. /\ pc = "record" /\ pc' \in {"done", "raised"} /\ (pc' = "done" => status' = Outcome) /\ (pc' = "raised" => status' = status)
      /\ UNCHANGED <<next, returned, stored, failures, consecutive, breaker, worker, interrupts, stop, hard, strays>>
  BY DEF AppendBatch, AppendFails, controller
<1>2. faults' \in 0..MaxFaults /\ (faults' = 0 => faults = 0)
  BY FaultCounts DEF AppendBatch, AppendFails
<1>3. status' \in {"none", "interrupted", "failed", "success"}
  BY <1>1 DEF Outcome
<1>4. Types'
  BY <1>1, <1>2, <1>3
<1>5. InOneSlot'
  BY <1>1 DEF InOneSlot, Busy
<1>6. Outcomes'
  BY <1>1 DEF Outcomes
<1>7. Accounted'
  BY <1>1 DEF Accounted, Busy
<1>8. Stopping'
  BY <1>1 DEF Stopping
<1>9. Tripped'
  BY <1>1 DEF Tripped
<1>10. Phases'
  BY <1>1 DEF Phases, Busy, Positions
<1>11. Recorded'
  BY <1>1 DEF Recorded, Outcome
<1>12. Counted'
  BY <1>1, <1>2 DEF Counted
<1> QED
  BY <1>4, <1>5, <1>6, <1>7, <1>8, <1>9, <1>10, <1>11, <1>12

\* Interrupts reach engines and the stop, and never after the record.
LEMMA InterruptKeeps ==
  ASSUME BInv, ~ Ended, Interrupt
  PROVE  BInv'
<1> USE DEF BInv, Types, Ats, Engines, Points, Worker, Finished
<1>1. /\ UNCHANGED <<next, returned, stored, failures, consecutive, breaker, pc, status>>
      /\ interrupts' \in {"first", "second", "hard", "forced"} /\ stop' \in BOOLEAN /\ hard' \in BOOLEAN
  BY DEF Interrupt, FirstInterrupt, SecondInterrupt, HardStop, ForceClose, ForceCloseFails, coordinator
<1>2. (stop => stop') /\ (hard => hard') /\ (hard' => stop') /\ (interrupts' = "second" => stop')
  <2>1. CASE FirstInterrupt \/ SecondInterrupt
    BY <2>1 DEF FirstInterrupt, SecondInterrupt, Stopping
  <2>2. CASE HardStop
    BY <2>2 DEF HardStop, Stopping
  <2>3. CASE ForceClose \/ ForceCloseFails
    <3>1. interrupts' = "forced" /\ UNCHANGED <<stop, hard>>
      BY <2>3 DEF ForceClose, ForceCloseFails
    <3> QED
      BY <3>1 DEF Stopping
  <2> QED
    BY <2>1, <2>2, <2>3 DEF Interrupt
<1>3. strays' \in Nat /\ faults' \in 0..MaxFaults /\ (faults' = 0 => faults = 0 /\ strays' = strays)
  <2>1. CASE ForceCloseFails
    <3>1. strays' = strays + 1 /\ strays \in Nat
      BY <2>1 DEF ForceCloseFails
    <3>2. faults' \in 0..MaxFaults /\ faults' # 0
      BY <2>1, FaultCounts DEF ForceCloseFails
    <3> QED
      BY <3>1, <3>2, SumIsNat
  <2>2. CASE UNCHANGED <<strays, faults>>
    BY <2>2
  <2> QED
    BY <2>1, <2>2 DEF Interrupt, FirstInterrupt, SecondInterrupt, HardStop, ForceClose
<1>4. /\ worker' \in [Slots -> Worker]
      /\ \A t \in Slots : /\ worker'[t].position = worker[t].position /\ worker'[t].at = worker[t].at
                          /\ worker[t].engine = "none" => worker'[t].engine = "none"
  <2>1. ASSUME NEW ts \in SUBSET Registered, Kill(ts)
        PROVE  /\ worker' \in [Slots -> Worker]
               /\ \A t \in Slots :
                    /\ worker'[t].position = worker[t].position /\ worker'[t].at = worker[t].at
                    /\ worker[t].engine = "none" => worker'[t].engine = "none"
    BY <2>1 DEF Kill, Registered
  <2>2. UNCHANGED worker \/ \E ts \in SUBSET Registered : Kill(ts)
    <3>1. CASE ForceCloseFails
      <4>1. PICK t \in Registered : \E killed \in SUBSET (Registered \ {t}) : Kill(killed \cup {t})
        BY <3>1 DEF ForceCloseFails
      <4> QED
        BY <4>1
    <3>2. CASE ForceClose
      BY <3>2 DEF ForceClose
    <3> QED
      BY <3>1, <3>2 DEF Interrupt, FirstInterrupt, SecondInterrupt, HardStop
  <2> QED
    BY <2>1, <2>2
<1>5. pc \notin {"done", "raised"}
  BY DEF Ended
<1>6. Types'
  BY <1>1, <1>3, <1>4
<1>7. InOneSlot'
  <2>1. \A t \in Slots : (Busy(t)' <=> Busy(t)) /\ worker'[t].position = worker[t].position
    BY <1>4 DEF Busy
  <2>2. UNCHANGED <<next, stored, failures>>
    BY <1>1
  <2>3. InOneSlot
    OBVIOUS
  <2> QED
    BY <2>1, <2>2, <2>3, Zenon DEF InOneSlot
<1>8. Outcomes'
  BY <1>1 DEF Outcomes
<1>9. Accounted'
  <2>1. \A t \in Slots : (Busy(t)' <=> Busy(t)) /\ worker'[t].position = worker[t].position
    BY <1>4 DEF Busy
  <2>2. UNCHANGED <<next, stored, failures>> /\ (hard => hard')
    BY <1>1, <1>2
  <2>3. Accounted
    OBVIOUS
  <2> QED
    BY <2>1, <2>2, <2>3, Zenon DEF Accounted
<1>10. Stopping'
  BY <1>2, <1>4 DEF Stopping
<1>11. Tripped'
  BY <1>1 DEF Tripped
<1>12. Phases'
  BY <1>1, <1>2, <1>4 DEF Phases, Busy, Positions
<1>13. Recorded'
  BY <1>1, <1>5 DEF Recorded
<1>14. Counted'
  BY <1>1, <1>3 DEF Counted
<1> QED
  BY <1>6, <1>7, <1>8, <1>9, <1>10, <1>11, <1>12, <1>13, <1>14

\* Nothing happens.
LEMMA StutterKeeps ==
  ASSUME BInv, UNCHANGED vars
  PROVE  BInv'
<1> USE DEF BInv, Types, Ats, Engines, Points, Worker, Finished
<1>1. Types'
  BY DEF Positions, vars, coordinator, controller
<1>2. InOneSlot'
  BY DEF InOneSlot, Outcomes, Phases, Busy, Positions, vars, coordinator, controller
<1>3. Outcomes'
  BY DEF InOneSlot, Outcomes, Phases, Busy, Positions, vars, coordinator, controller
<1>4. Accounted'
  BY DEF Accounted, InOneSlot, Stopping, Phases, Busy, Positions, vars, coordinator, controller
<1>5. Stopping'
  BY DEF Stopping, vars, coordinator, controller
<1>6. Tripped'
  BY DEF Tripped, vars, coordinator, controller
<1>7. Phases'
  BY DEF Phases, Busy, InFlight, Threads, Positions, Registered, Ended, vars, coordinator, controller
<1>8. Recorded'
  BY DEF Recorded, Phases, Outcome, Ended, Busy, vars, coordinator, controller
<1>9. Counted'
  BY DEF Counted, vars, coordinator, controller
<1> QED
  BY <1>1, <1>2, <1>3, <1>4, <1>5, <1>6, <1>7, <1>8, <1>9

\* Every step preserves the invariant.
LEMMA StepInv == BInv /\ [Next]_vars => BInv'
BY ThreadKeeps, SubmitKeeps, PublishKeeps, FailureKeeps, DropKeeps, AbortKeeps, PointKeeps, CloseKeeps,
   AppendKeeps, InterruptKeeps, StutterKeeps
   DEF Next, Coordinate, Breaks, ThreadStep

\* The invariant holds in every state of a batch.
LEMMA BatchInvariant == Spec => []BInv
BY InitInv, StepInv, PTL DEF Spec

-----------------------------------------------------------------------------
(* What follows. *)

\* The batch and its threads stay well formed.
THEOREM TypesAreCorrect == Spec => []TypeOK
<1>1. ASSUME BInv PROVE TypeOK
  <2>1. Types /\ Phases /\ consecutive <= Cardinality(failures)
    BY <1>1 DEF BInv, Counted
  <2>2. returned \subseteq InFlight
    BY <2>1 DEF Types, Phases, InFlight, Busy
  <2>3. IsFiniteSet(1..Work) /\ Cardinality(1..Work) = Work
    BY FS_Interval
  <2>4. Cardinality(failures) <= Work /\ Cardinality(failures) \in Nat
    BY <2>1, <2>3, FS_Subset, FS_CardinalityType DEF Types, Positions
  <2>5. consecutive \in 0..Work
    BY <2>1, <2>4 DEF Types
  <2> QED
    BY <2>1, <2>2, <2>5 DEF TypeOK, Types, Worker, Ats, Engines, Points
<1> QED
  BY <1>1, BatchInvariant, PTL

\* No position is both published and listed, however many analyses were in flight.
THEOREM OneOutcomeEach == Spec => []NotBothOutcomes
<1>1. BInv => NotBothOutcomes
  BY DEF BInv, Outcomes, NotBothOutcomes
<1> QED
  BY <1>1, BatchInvariant, PTL

\* Once the batch has ended, an engine process runs on only if one refused to exit.
THEOREM EnginesEnd == Spec => []NoEngineSurvives
<1>1. BInv => NoEngineSurvives
  BY DEF BInv, Phases, Counted, NoEngineSurvives, Ended
<1> QED
  BY <1>1, BatchInvariant, PTL

\* What the record of the batch says of its positions is so.
THEOREM RecordsAreTruthful == Spec => []RecordIsTruthful
<1>1. ASSUME BInv PROVE RecordIsTruthful
  <2> USE <1>1 DEF BInv, Types, Positions
  <2>1. ASSUME status = "success" PROVE stored = Positions
    <3>1. pc = "done" /\ ~ stop /\ failures = {}
      BY <2>1 DEF Recorded, Outcome
    <3>2. ~ hard /\ ~ breaker
      BY <3>1 DEF Stopping, Tripped
    <3>3. next = Work + 1 /\ \A t \in Slots : ~ Busy(t)
      BY <3>1, <3>2 DEF Phases
    <3>4. \A p \in 1..Work : p \in stored
      BY <3>1, <3>2, <3>3 DEF Accounted
    <3> QED
      BY <3>4
  <2>2. ASSUME status = "failed"
        PROVE  /\ Positions \cap (1..next - 1) = stored \cup failures
               /\ next \in Positions => breaker
    <3>1. pc = "done" /\ ~ stop /\ ~ hard
      BY <2>2 DEF Recorded, Outcome, Stopping
    <3>2. (next \in Positions => breaker) /\ \A t \in Slots : ~ Busy(t)
      BY <3>1 DEF Phases
    <3>3. \A p \in 1..next - 1 : p \in stored \cup failures
      BY <3>1, <3>2 DEF Accounted
    <3> QED
      BY <3>2, <3>3 DEF Outcomes
  <2> QED
    BY <2>1, <2>2 DEF RecordIsTruthful
<1> QED
  BY <1>1, BatchInvariant, PTL

\* Nothing is taken up once the breaker has tripped.
NothingTakenUp == breaker => next' = next

\* After the circuit breaker has tripped no further position is taken up, whatever
\* comes back from the analyses in flight (runner.py:229, 290).
THEOREM BreakersStopDispatch == Spec => BreakerStopsDispatch
<1>1. BInv /\ [Next]_vars => [NothingTakenUp]_vars
  <2> SUFFICES ASSUME BInv, [Next]_vars, breaker PROVE next' = next
    BY DEF NothingTakenUp
  <2>1. pc # "fill"
    BY DEF BInv, Tripped
  <2>2. ASSUME NEW t \in Slots, ThreadStep(t) PROVE next' = next
    BY <2>2, ThreadEffect DEF BInv, coordinator
  <2>3. ASSUME NEW t \in Slots, Submit(t) PROVE FALSE
    BY <2>1, <2>3 DEF Submit
  <2>4. ASSUME NEW t \in Slots, Publish(t) \/ PublishFails(t) \/ RecordFailure(t) \/ DropForced(t) \/ Abort(t)
        PROVE  next' = next
    BY <2>4 DEF Publish, PublishFails, RecordFailure, DropForced, Abort
  <2>5. CASE Dispatch \/ Dispatched \/ WaitReturns \/ Shutdown \/ CloseEngines \/ CloseFails \/ AppendBatch \/ AppendFails
    BY <2>5 DEF Dispatch, Dispatched, WaitReturns, Shutdown, CloseEngines, CloseFails, AppendBatch, AppendFails
  <2>6. CASE Interrupt \/ UNCHANGED vars
    BY <2>6 DEF Interrupt, FirstInterrupt, SecondInterrupt, HardStop, ForceClose, ForceCloseFails, coordinator, vars
  <2> QED
    BY <2>2, <2>3, <2>4, <2>5, <2>6 DEF Next, Coordinate, Breaks, ThreadStep
<1> QED
  BY <1>1, BatchInvariant, PTL DEF Spec, BreakerStopsDispatch, NothingTakenUp

\* What a forced stop may still publish: what is published, or had returned.
Results == stored \cup {worker[t].position : t \in {u \in Slots : worker[u].at = "ok"}}

\* Results, published or returned, are finitely many.
LEMMA ResultsFinite == BInv => IsFiniteSet(Results) /\ Cardinality(Results) \in Nat
<1> SUFFICES ASSUME BInv PROVE IsFiniteSet(Results)
  BY FS_CardinalityType
<1>1. Results \subseteq 0..Work
  <2>1. \A t \in Slots : worker[t].position \in 0..Work
    BY DEF BInv, Types, Worker
  <2>2. \A p \in Positions : p \in 0..Work
    BY DEF Positions
  <2>3. stored \subseteq Positions
    BY DEF BInv, Types
  <2> QED
    BY <2>1, <2>2, <2>3, Zenon DEF Results
<1>2. IsFiniteSet(0..Work)
  BY FS_Interval
<1> QED
  BY <1>1, <1>2, FS_Subset

\* After a forced stop no step adds a result.
LEMMA ForcedKeeps == ASSUME BInv, hard, [Next]_vars PROVE Results' \subseteq Results
<1> USE DEF BInv, Types, Worker, Results
<1>1. ASSUME NEW t \in Slots, ThreadStep(t) PROVE Results' \subseteq Results
  <2>1. PICK point \in Ats : Moves(t, point) /\ point # "ok"
    BY <1>1, ThreadEffect
  <2>2. stored' = stored
    BY <1>1, ThreadEffect DEF coordinator
  <2> QED
    BY <2>1, <2>2 DEF Moves
<1>2. ASSUME NEW t \in Slots, Submit(t) PROVE Results' \subseteq Results
  BY <1>2 DEF Submit
<1>3. ASSUME NEW t \in Slots, Publish(t) PROVE Results' \subseteq Results
  BY <1>3 DEF Publish, Take, NoWork
<1>4. ASSUME NEW t \in Slots, PublishFails(t) \/ RecordFailure(t) \/ DropForced(t)
      PROVE  Results' \subseteq Results
  BY <1>4 DEF PublishFails, RecordFailure, DropForced, Take, NoWork
<1>5. ASSUME NEW t \in Slots, Abort(t) PROVE Results' \subseteq Results
  BY <1>5 DEF Abort
<1>6. CASE Dispatch \/ Dispatched \/ WaitReturns \/ Shutdown \/ AppendBatch \/ AppendFails \/ UNCHANGED vars
  BY <1>6 DEF Dispatch, Dispatched, WaitReturns, Shutdown, AppendBatch, AppendFails, vars, coordinator
<1>7. CASE CloseEngines \/ CloseFails
  <2>1. stored' = stored /\ worker' = [t \in Slots |-> [worker[t] EXCEPT !.engine = "none"]]
    BY <1>7 DEF CloseEngines, CloseFails
  <2> QED
    BY <2>1
<1>8. CASE Interrupt
  <2>1. UNCHANGED worker \/ \E ts \in SUBSET Slots : Kill(ts)
    BY <1>8 DEF Interrupt, FirstInterrupt, SecondInterrupt, HardStop, ForceClose, ForceCloseFails, Registered
  <2>2. stored' = stored
    BY <1>8 DEF Interrupt, FirstInterrupt, SecondInterrupt, HardStop, ForceClose, ForceCloseFails, coordinator
  <2> QED
    BY <2>1, <2>2 DEF Kill
<1> QED
  BY <1>1, <1>2, <1>3, <1>4, <1>5, <1>6, <1>7, <1>8 DEF Next, Coordinate, Breaks, ThreadStep

FewerResults ==
  hard => Cardinality(stored' \cup {worker'[t].position : t \in {u \in Slots : worker'[u].at = "ok"}})
            <= Cardinality(stored \cup {worker[t].position : t \in {u \in Slots : worker[u].at = "ok"}})

\* After the forced stop no analysis becomes a result.
THEOREM ForcedStopsEndResults == Spec => ForcedStopEndsResults
<1>1. BInv /\ [Next]_vars => [FewerResults]_vars
  <2> SUFFICES ASSUME BInv, [Next]_vars, hard PROVE Cardinality(Results') <= Cardinality(Results)
    BY DEF FewerResults, Results
  <2>1. Results' \subseteq Results
    BY ForcedKeeps
  <2>2. IsFiniteSet(Results)
    BY ResultsFinite
  <2> QED
    BY <2>1, <2>2, FS_Subset
<1> QED
  BY <1>1, BatchInvariant, PTL DEF Spec, ForcedStopEndsResults, FewerResults

\* The record, the outcomes and the engines are right for any threads and positions.
THEOREM BatchesAreTruthful == Spec => []BatchIsTruthful
BY TypesAreCorrect, RecordsAreTruthful, OneOutcomeEach, EnginesEnd, PTL DEF BatchIsTruthful

\* Breaker and forced stop are heeded.
THEOREM StopsStayHeeded == Spec => StopsAreHeeded
BY BreakersStopDispatch, ForcedStopsEndResults DEF StopsAreHeeded

-----------------------------------------------------------------------------
(* Finite sets in an order, as sequences. *)

\* R puts the members of S in one order.
Orders(R, S) ==
  /\ \A x, y \in S : x # y => <<x, y>> \in R \/ <<y, x>> \in R
  /\ \A x, y \in S : <<x, y>> \in R => <<y, x>> \notin R
  /\ \A x, y, z \in S : <<x, y>> \in R /\ <<y, z>> \in R => <<x, z>> \in R

\* A finite set in an order is a sequence in that order.
LEMMA OrderExists ==
  ASSUME NEW S, IsFiniteSet(S), NEW R, Orders(R, S)
  PROVE  \E s \in [1 .. Cardinality(S) -> S] :
            \A i, j \in 1 .. Cardinality(S) : i < j => <<s[i], s[j]>> \in R
<1> DEFINE n == Cardinality(S)
           Down(x) == {y \in S : y = x \/ <<y, x>> \in R}
           place == [x \in S |-> Cardinality(Down(x))]
<1>0. n \in Nat
  BY FS_CardinalityType
<1>1. ASSUME NEW x \in S PROVE place[x] \in 1 .. n
  <2>1. Down(x) \in SUBSET S /\ x \in Down(x)
    OBVIOUS
  <2> HIDE DEF Down
  <2>2. IsFiniteSet(Down(x)) /\ Cardinality(Down(x)) <= n
    BY <2>1, FS_Subset
  <2>3. Cardinality(Down(x)) \in Nat /\ Cardinality(Down(x)) # 0
    BY <2>1, <2>2, FS_CardinalityType, FS_EmptySet
  <2> QED
    BY <2>2, <2>3, <1>0
<1>2. ASSUME NEW x \in S, NEW y \in S, <<x, y>> \in R PROVE place[x] < place[y]
  <2> DEFINE A == Down(x)
             B == Down(y)
  <2>1. A \in SUBSET B /\ y \in B /\ y \notin A /\ B \in SUBSET S
    BY <1>2 DEF Orders
  <2>4. place[x] = Cardinality(A) /\ place[y] = Cardinality(B)
    OBVIOUS
  <2> HIDE DEF A, B
  <2>2. IsFiniteSet(B)
    BY <2>1, FS_Subset
  <2>3. Cardinality(A) <= Cardinality(B) /\ Cardinality(B) # Cardinality(A)
    BY <2>1, <2>2, FS_Subset
  <2>5. Cardinality(A) \in Nat /\ Cardinality(B) \in Nat
    BY <2>1, <2>2, FS_Subset, FS_CardinalityType
  <2> QED
    BY <2>3, <2>4, <2>5
<1> HIDE DEF place
<1>3. place \in [S -> 1 .. n]
  BY <1>1 DEF place
<1>4. ASSUME NEW x \in S, NEW y \in S, place[x] = place[y] PROVE x = y
  <2>1. place[x] \in Int /\ ~(place[x] < place[y]) /\ ~(place[y] < place[x])
    BY <1>1, <1>4
  <2> QED
    BY <2>1, <1>2 DEF Orders
<1>5. \A i \in 1 .. n : \E x \in S : place[x] = i
  <2>1. place \in Injection(S, 1 .. n)
    BY <1>3, <1>4 DEF Injection, IsInjective
  <2>2. IsFiniteSet(1 .. n) /\ Cardinality(1 .. n) = n
    BY <1>0, FS_Interval
  <2>3. place \in Surjection(S, 1 .. n)
    BY <2>1, <2>2, <1>0, FS_Injection
  <2> QED
    BY <2>3 DEF Surjection
<1> DEFINE s == [i \in 1 .. n |-> CHOOSE x \in S : place[x] = i]
<1>6. \A i \in 1 .. n : s[i] \in S /\ place[s[i]] = i
  BY <1>5
<1>7. s \in [1 .. n -> S]
  BY <1>6
<1> HIDE DEF s
<1>8. ASSUME NEW i \in 1 .. n, NEW j \in 1 .. n, i < j PROVE <<s[i], s[j]>> \in R
  <2>1. s[i] \in S /\ s[j] \in S /\ place[s[i]] = i /\ place[s[j]] = j
    BY <1>6
  <2>2. s[i] # s[j] /\ ~(<<s[j], s[i]>> \in R)
    BY <2>1, <1>2, <1>8
  <2> QED
    BY <2>1, <2>2 DEF Orders
<1> QED
  BY <1>7, <1>8

\* What a finite set in an order is, read as a sequence.
LEMMA OrderedIs ==
  ASSUME NEW S, IsFiniteSet(S), NEW R, Orders(R, S), NEW s \in [1 .. Cardinality(S) -> S],
         \A i, j \in 1 .. Cardinality(S) : i < j => <<s[i], s[j]>> \in R
  PROVE  s \in SetToSeqs(S) /\ s \in Seq(S) /\ Len(s) = Cardinality(S)
<1> DEFINE n == Cardinality(S)
<1>0. n \in Nat
  BY FS_CardinalityType
<1> HIDE DEF n
<1>1. s \in [1 .. n -> S] /\ \A i, j \in 1 .. n : i < j => <<s[i], s[j]>> \in R
  BY DEF n
<1>2. ASSUME NEW i \in 1 .. n, NEW j \in 1 .. n, i # j PROVE s[i] # s[j]
  <2>1. s[i] \in S
    BY <1>1
  <2>3. i < j \/ j < i
    BY <1>0, <1>2
  <2>2. <<s[i], s[i]>> \notin R
    BY <2>1 DEF Orders
  <2> QED
    BY <1>1, <2>1, <2>2, <2>3
<1>3. s \in Seq(S) /\ Len(s) = n
  BY <1>0, <1>1
<1>4. s \in {f \in [1 .. n -> S] : \A i, j \in 1 .. n : i # j => f[i] # f[j]}
  BY <1>1, <1>2
<1> QED
  BY <1>3, <1>4 DEF n, SetToSeqs

\* A sequence of all members of a set has each of them.
LEMMA SeqsCover ==
  ASSUME NEW S, IsFiniteSet(S), NEW s \in SetToSeqs(S)
  PROVE  /\ s \in Seq(S) /\ Len(s) = Cardinality(S)
         /\ \A x \in S : \E i \in 1 .. Len(s) : s[i] = x
         /\ \A i, j \in 1 .. Len(s) : i # j => s[i] # s[j]
<1> DEFINE n == Cardinality(S)
<1>0. n \in Nat
  BY FS_CardinalityType
<1>1. s \in [1 .. n -> S] /\ \A i, j \in 1 .. n : i # j => s[i] # s[j]
  BY DEF SetToSeqs
<1>2. IsFiniteSet(1 .. n) /\ Cardinality(1 .. n) = n
  BY <1>0, FS_Interval
<1>3. s \in Injection(1 .. n, S)
  BY <1>1 DEF Injection, IsInjective
<1>4. s \in Surjection(1 .. n, S)
  BY <1>2, <1>3, FS_Injection
<1>5. \A x \in S : \E i \in 1 .. n : s[i] = x
  BY <1>4 DEF Surjection
<1> HIDE DEF n
<1>6. s \in Seq(S) /\ Len(s) = n
  BY <1>0, <1>1
<1> QED
  BY <1>1, <1>5, <1>6 DEF n

-----------------------------------------------------------------------------
(* The order of the targets, and pages. *)

USE TargetAssumption DEF TargetAssumption

AnyTarget == [position : Ids, frequency : Nat \ {0}]

\* Behind the cursor, as _load_game_page reads it.
Behind(last, t) == last = NoTarget \/ Before(last, t)

\* Targets are in one order: by falling frequency, then by position.
LEMMA BeforeOrders ==
  ASSUME NEW S \in SUBSET AnyTarget
  PROVE  Orders({o \in S \X S : Before(o[1], o[2])}, S)
<1> DEFINE R == {o \in S \X S : Before(o[1], o[2])}
<1>1. \A a, b \in S : <<a, b>> \in R <=> Before(a, b)
  OBVIOUS
<1>2. \A a \in AnyTarget : /\ a = [position |-> a.position, frequency |-> a.frequency]
                          /\ a.position \in Nat /\ a.frequency \in Nat
  <2>1. \A a \in AnyTarget : a = [position |-> a.position, frequency |-> a.frequency]
    BY DEF AnyTarget
  <2>2. \A a \in AnyTarget : a.position \in Ids /\ a.frequency \in Nat
    BY DEF AnyTarget
  <2> QED
    BY <2>1, <2>2
<1> HIDE DEF R
<1>3. \A a, b \in S : a # b => Before(a, b) \/ Before(b, a)
  BY <1>2 DEF Before
<1>4. \A a, b \in S : Before(a, b) => ~Before(b, a)
  BY <1>2 DEF Before
<1>5. \A a, b, c \in S : Before(a, b) /\ Before(b, c) => Before(a, c)
  BY <1>2 DEF Before
<1>6. Orders(R, S)
  BY <1>1, <1>3, <1>4, <1>5 DEF Orders
<1> QED
  BY <1>6 DEF R

\* Sorted returns all the targets, in that order.
LEMMA SortedIs ==
  ASSUME NEW S \in SUBSET AnyTarget, IsFiniteSet(S)
  PROVE  /\ Sorted(S) \in Seq(S) /\ Len(Sorted(S)) = Cardinality(S)
         /\ \A x \in S : \E i \in 1 .. Len(Sorted(S)) : Sorted(S)[i] = x
         /\ \A i, j \in 1 .. Len(Sorted(S)) : i < j => Before(Sorted(S)[i], Sorted(S)[j])
<1> DEFINE R == {o \in S \X S : Before(o[1], o[2])}
<1>1. Orders(R, S)
  BY BeforeOrders
<1>2. \A a, b \in S : <<a, b>> \in R => Before(a, b)
  OBVIOUS
<1> HIDE DEF R
<1>3. PICK s \in [1 .. Cardinality(S) -> S] :
              \A i, j \in 1 .. Cardinality(S) : i < j => <<s[i], s[j]>> \in R
  BY <1>1, OrderExists
<1>4. s \in SetToSeqs(S) /\ s \in Seq(S) /\ Len(s) = Cardinality(S)
  BY <1>1, <1>3, OrderedIs
<1>5. \A i, j \in 1 .. Cardinality(S) : i < j => Before(s[i], s[j])
  BY <1>2, <1>3
<1>6. DOMAIN s = 1 .. Cardinality(S)
  BY <1>3
<1>7. Sorted(S) \in SetToSeqs(S) /\
      \A i, j \in DOMAIN Sorted(S) : i < j => Before(Sorted(S)[i], Sorted(S)[j])
  BY <1>4, <1>5, <1>6 DEF Sorted
<1> QED
  BY <1>7, SeqsCover

\* ById returns all the positions, in the order of their ids.
LEMMA ByIdIs ==
  ASSUME NEW S \in SUBSET Ids
  PROVE  /\ ById(S) \in Seq(S)
         /\ \A x \in S : \E i \in 1 .. Len(ById(S)) : ById(S)[i] = x
         /\ \A i, j \in 1 .. Len(ById(S)) : i < j => ById(S)[i] < ById(S)[j]
<1> DEFINE R == {o \in S \X S : o[1] < o[2]}
<1>0. IsFiniteSet(S)
  BY FS_Subset
<1>1. \A a, b \in S : <<a, b>> \in R <=> a < b
  OBVIOUS
<1>2. S \subseteq Nat
  OBVIOUS
<1> HIDE DEF R
<1>3. Orders(R, S)
  BY <1>1, <1>2 DEF Orders
<1>4. PICK s \in [1 .. Cardinality(S) -> S] :
              \A i, j \in 1 .. Cardinality(S) : i < j => <<s[i], s[j]>> \in R
  BY <1>0, <1>3, OrderExists
<1>5. s \in SetToSeqs(S) /\ s \in Seq(S) /\ Len(s) = Cardinality(S)
  BY <1>0, <1>3, <1>4, OrderedIs
<1>6. \A i, j \in 1 .. Cardinality(S) : i < j => s[i] < s[j]
  BY <1>1, <1>4
<1>7. DOMAIN s = 1 .. Cardinality(S)
  BY <1>4
<1>8. ById(S) \in SetToSeqs(S) /\
      \A i, j \in DOMAIN ById(S) : i < j => ById(S)[i] < ById(S)[j]
  BY <1>5, <1>6, <1>7 DEF ById
<1> QED
  BY <1>0, <1>8, SeqsCover

\* How often a position occurs is a number.
LEMMA FrequencyIs ==
  ASSUME NEW games, NEW p
  PROVE  Frequency(games, p) \in Nat
<1> DEFINE All == Games \X (1 .. MaxPly + 1)
           O == {o \in All : o[2] \in DOMAIN games[o[1]] /\ games[o[1]][o[2]] = p}
<1>1. IsFiniteSet(1 .. MaxPly + 1)
  BY FS_Interval
<1>2. IsFiniteSet(All)
  BY <1>1, FS_Product
<1>3. O \in SUBSET All
  OBVIOUS
<1> HIDE DEF All, O
<1>4. Cardinality(O) \in Nat
  BY <1>2, <1>3, FS_Subset, FS_CardinalityType
<1> QED
  BY <1>4 DEF Frequency, O, All

\* The targets of the games are one for each position they hold.
LEMMA TargetsAre ==
  ASSUME NEW games
  PROVE  /\ Targets(games) \subseteq AnyTarget /\ IsFiniteSet(Targets(games))
         /\ \A t \in Targets(games) :
              t.position \in Held(games) /\ t.frequency = Frequency(games, t.position)
         /\ \A p \in Held(games) :
              [position |-> p, frequency |-> Frequency(games, p)] \in Targets(games)
<1> DEFINE F(p) == [position |-> p, frequency |-> Frequency(games, p)]
           f == [p \in Held(games) |-> F(p)]
<1>1. Held(games) \in SUBSET Ids /\ IsFiniteSet(Held(games))
  BY FS_Subset DEF Held
<1>2. \A p \in Held(games) : Frequency(games, p) \in Nat \ {0}
  BY FrequencyIs DEF Held
<1>3. Targets(games) = {F(p) : p \in Held(games)}
  BY DEF Targets
<1>4. f \in Surjection(Held(games), Targets(games))
  BY <1>3 DEF Surjection
<1>5. IsFiniteSet(Targets(games))
  BY <1>1, <1>4, FS_Surjection
<1> HIDE DEF f
<1>6. Targets(games) \subseteq AnyTarget
  BY <1>1, <1>2, <1>3 DEF AnyTarget
<1> QED
  BY <1>3, <1>5, <1>6

\* The first targets of a set: the page.
LEMMA FirstOfIs ==
  ASSUME NEW S \in SUBSET AnyTarget, IsFiniteSet(S)
  PROVE  LET P == FirstOf(S)
         IN  /\ P \in Seq(S) /\ Len(P) <= PageSize
             /\ P = << >> => S = {}
             /\ \A i, j \in 1 .. Len(P) : i < j => Before(P[i], P[j])
             /\ P # << >> => \A t \in S :
                  (\E i \in 1 .. Len(P) : P[i] = t) \/ Before(P[Len(P)], t)
<1> DEFINE all == Sorted(S)
           n == IF Len(all) < PageSize THEN Len(all) ELSE PageSize
           P == SubSeq(all, 1, n)
<1>1. /\ all \in Seq(S)
      /\ \A x \in S : \E i \in 1 .. Len(all) : all[i] = x
      /\ \A i, j \in 1 .. Len(all) : i < j => Before(all[i], all[j])
  BY SortedIs
<1>2. FirstOf(S) = P
  BY DEF FirstOf
<1> HIDE DEF all
<1>3. n \in Nat /\ n <= Len(all) /\ n <= PageSize /\ (n = 0 => Len(all) = 0)
  BY <1>1
<1> HIDE DEF n
<1>4. P \in Seq(S) /\ Len(P) = n
  BY <1>1, <1>3
<1>5. \A i \in 1 .. n : P[i] = all[i]
  BY <1>1, <1>3
<1> HIDE DEF P
<1>6. P = << >> => S = {}
  BY <1>1, <1>3, <1>4
<1>7. \A i, j \in 1 .. n : i < j => Before(P[i], P[j])
  <2>1. \A i \in 1 .. n : i \in 1 .. Len(all)
    BY <1>1, <1>3
  <2> QED
    BY <1>1, <1>5, <2>1
<1>8. ASSUME P # << >>, NEW t \in S
      PROVE  (\E i \in 1 .. n : P[i] = t) \/ Before(P[n], t)
  <2>1. n > 0
    BY <1>3, <1>4, <1>8
  <2>2. PICK i \in 1 .. Len(all) : all[i] = t
    BY <1>1
  <2>3. CASE i <= n
    BY <1>3, <1>5, <2>2, <2>3
  <2>4. CASE n < i
    <3>1. Before(all[n], all[i])
      BY <1>1, <1>3, <2>1, <2>4
    <3> QED
      BY <1>3, <1>5, <2>1, <2>2, <3>1
  <2> QED
    BY <1>3, <2>3, <2>4
<1>9. /\ \A i, j \in 1 .. Len(P) : i < j => Before(P[i], P[j])
      /\ P # << >> => \A t \in S :
           (\E i \in 1 .. Len(P) : P[i] = t) \/ Before(P[Len(P)], t)
  BY <1>4, <1>7, <1>8
<1>10. Len(P) <= PageSize
  BY <1>3, <1>4
<1> QED
  BY <1>2, <1>4, <1>6, <1>9, <1>10

\* A page is the targets next behind its cursor.
LEMMA PageIs ==
  ASSUME NEW games, NEW last
  PROVE  LET P == Page(games, last)
         IN  /\ P \in Seq(Targets(games)) /\ Len(P) <= PageSize
             /\ \A i \in 1 .. Len(P) : Behind(last, P[i])
             /\ \A i, j \in 1 .. Len(P) : i < j => Before(P[i], P[j])
             /\ \A t \in Targets(games) : Behind(last, t) =>
                  /\ P # << >>
                  /\ (\E i \in 1 .. Len(P) : P[i] = t) \/ Before(P[Len(P)], t)
<1> DEFINE S == {t \in Targets(games) : Behind(last, t)}
           P == FirstOf(S)
<1>1. S \in SUBSET AnyTarget /\ IsFiniteSet(S)
  BY TargetsAre, FS_Subset
<1>2. Page(games, last) = P
  BY DEF Page, Behind
<1>3. \A t \in S : t \in Targets(games) /\ Behind(last, t)
  OBVIOUS
<1>4. \A t \in Targets(games) : Behind(last, t) => t \in S
  OBVIOUS
<1> HIDE DEF S
<1>5. /\ P \in Seq(S) /\ Len(P) <= PageSize
      /\ P = << >> => S = {}
      /\ \A i, j \in 1 .. Len(P) : i < j => Before(P[i], P[j])
      /\ P # << >> => \A t \in S :
           (\E i \in 1 .. Len(P) : P[i] = t) \/ Before(P[Len(P)], t)
  BY <1>1, FirstOfIs
<1> HIDE DEF P
<1>6. \A i \in 1 .. Len(P) : P[i] \in S
  BY <1>5
<1>7. P \in Seq(Targets(games))
  BY <1>3, <1>5
<1> QED
  BY <1>2, <1>3, <1>4, <1>5, <1>6, <1>7

-----------------------------------------------------------------------------
(* The invariant of a bulk launch. *)

TargetPoints == {"off", "load", "page", "routes", "serve", "end", "error"}

\* The target that position p is now.
Target(p) == [position |-> p, frequency |-> Frequency(game, p)]

\* The pages have come past t, read or not.
Passed(t) == cursor # NoTarget /\ ~Before(cursor, t)

InPage == {page[i].position : i \in DOMAIN page}

\* Positions the launch is done with: by a result, a failure or its mixture.
Offered ==
  IF preset THEN ToSet(common) \cup ToSet(Technical) ELSE results \cup failed

\* Pages are read ...
Open == at \in {"load", "page"}

\* ... and have all been read, by a launch that no limit ended.
Through == at \in {"routes", "error"} \/ (at = "end" /\ ~preset /\ limit = NoLimit)

\* Every variable has its type.
TargetTypes ==
  /\ game \in [Games -> Variants \cup {<< >>}]
  /\ results \in SUBSET Ids /\ shown \in SUBSET Ids /\ failed \in SUBSET Ids
  /\ rose \in SUBSET Ids /\ fell \in SUBSET Ids
  /\ at \in TargetPoints /\ preset \in BOOLEAN /\ limit \in Limits
  /\ page \in Seq(AnyTarget) /\ Len(page) <= PageSize
  /\ cursor \in {NoTarget} \cup AnyTarget
  /\ routes \in Seq(RoutePositions) /\ common \in Seq(Ids) /\ serving \in Seq(Ids)
  /\ yielded \in Nat

\* What the point the iteration is at says of its lists and of its limit.
Stages ==
  /\ at = "page" => page # << >>
  /\ at \in {"load", "routes", "error"} => page = << >>
  /\ at = "error" \/ (Through /\ at = "end") => routes = << >>
  /\ at \in {"serve", "error"} => preset
  /\ preset => limit = NoLimit
  /\ limit # NoLimit =>
       yielded <= limit /\ (at \in {"load", "page", "routes"} => yielded < limit)

\* A position that is not behind the cursor was shown, or is in hand, or rose.
Covered ==
  /\ Open => \A p \in Held(game) \ rose : Passed(Target(p)) => p \in shown \cup InPage
  /\ Through => /\ Held(game) \ rose \subseteq shown
                /\ RoutePositions \subseteq shown \cup ToSet(routes) \cup Offered

\* What was shown was offered.
Treated == Open \/ Through => shown \subseteq Offered

\* What was shown, or is in hand, is not behind the cursor, unless it fell: so no
\* page shows it again.
Seen ==
  /\ Open => \A p \in (shown \cup InPage) \ fell : Passed(Target(p))
  /\ at = "page" =>
       /\ \A i, j \in DOMAIN page : i < j => page[i].position # page[j].position
       /\ \A i \in DOMAIN page : page[i].position \in shown => page[i].position \in fell

\* The routes bring what no page has shown, once.
RoutesApart ==
  at = "routes" =>
    /\ \A i, j \in DOMAIN routes : i < j => routes[i] < routes[j]
    /\ ToSet(routes) \cap (shown \cup ToSet(common)) = {}

\* The common positions of the initial preset.
Mixture ==
  /\ Open => ToSet(common) \subseteq shown
  /\ ToSet(common) \cap ToSet(Technical) = {}
  /\ \A i, j \in DOMAIN common : i < j /\ common[i] = common[j] => common[i] \in fell
  /\ Len(common) <= CommonCount
  /\ at \in {"load", "page", "routes", "error"} => Len(common) < CommonCount
  /\ at = "serve" => Len(common) = CommonCount

TargetInv ==
  /\ TargetTypes /\ Stages /\ Covered /\ Treated /\ Seen /\ RoutesApart /\ Mixture

-----------------------------------------------------------------------------
(* What the proofs of the steps share. *)

\* Routes reach positions.
LEMMA RoutePositionsAre == RoutePositions \in SUBSET Ids
<1>1. ASSUME NEW r \in Routes PROVE {Start} \cup {r[i] : i \in DOMAIN r \cap (1 .. MaxPly)} \subseteq Ids
  <2>1. r \in Seq(Ids)
    OBVIOUS
  <2> QED
    BY <2>1
<1> QED
  BY <1>1 DEF RoutePositions

\* A target has a position and a frequency, and is not the absent one.
LEMMA AnyTargetIs ==
  /\ NoTarget \notin AnyTarget
  /\ \A t \in AnyTarget : t.position \in Ids /\ t.position \in Nat /\ t.frequency \in Nat
<1>1. \A t \in AnyTarget : t.position \in Ids /\ t.frequency \in Nat \ {0}
  BY DEF AnyTarget
<1>2. NoTarget.frequency = 0
  BY DEF NoTarget
<1> QED
  BY <1>1, <1>2

\* A sequence that is not empty is its head, and then its tail.
LEMMA HeadAndTail ==
  ASSUME NEW S, NEW s \in Seq(S), s # << >>
  PROVE  /\ Head(s) = s[1] /\ 1 \in DOMAIN s /\ Head(s) \in S
         /\ Tail(s) \in Seq(S) /\ Len(s) \in Nat \ {0} /\ Len(Tail(s)) = Len(s) - 1
         /\ DOMAIN s = 1 .. Len(s) /\ DOMAIN Tail(s) = 1 .. Len(s) - 1
         /\ \A i \in DOMAIN Tail(s) : Tail(s)[i] = s[i + 1] /\ i + 1 \in DOMAIN s
         /\ \A i \in DOMAIN s : i # 1 => i - 1 \in DOMAIN Tail(s) /\ Tail(s)[i - 1] = s[i]
<1>1. Len(s) \in Nat \ {0} /\ DOMAIN s = 1 .. Len(s)
  OBVIOUS
<1>2. Head(s) = s[1] /\ 1 \in DOMAIN s /\ Head(s) \in S
  BY <1>1
<1>3. Tail(s) \in Seq(S) /\ Len(Tail(s)) = Len(s) - 1
  OBVIOUS
<1>4. DOMAIN Tail(s) = 1 .. Len(s) - 1
  BY <1>1, <1>3
<1>5. \A i \in 1 .. Len(s) - 1 : Tail(s)[i] = s[i + 1]
  BY <1>1
<1>6. \A i \in DOMAIN Tail(s) : Tail(s)[i] = s[i + 1] /\ i + 1 \in DOMAIN s
  BY <1>1, <1>4, <1>5
<1>7. ASSUME NEW i \in DOMAIN s, i # 1 PROVE i - 1 \in DOMAIN Tail(s) /\ Tail(s)[i - 1] = s[i]
  <2>1. i - 1 \in 1 .. Len(s) - 1 /\ (i - 1) + 1 = i
    BY <1>1, <1>7
  <2>2. Tail(s)[i - 1] = s[(i - 1) + 1]
    BY <1>5, <2>1
  <2> QED
    BY <1>4, <2>1, <2>2
<1> QED
  BY <1>1, <1>2, <1>3, <1>4, <1>6, <1>7

\* A sequence with one more element at its end.
LEMMA AppendIs ==
  ASSUME NEW S, NEW s \in Seq(S), NEW x \in S
  PROVE  /\ Append(s, x) \in Seq(S) /\ Len(Append(s, x)) = Len(s) + 1
         /\ ToSet(Append(s, x)) = ToSet(s) \cup {x}
         /\ DOMAIN s = 1 .. Len(s) /\ DOMAIN Append(s, x) = 1 .. Len(s) + 1
         /\ \A i \in DOMAIN s : Append(s, x)[i] = s[i]
         /\ Append(s, x)[Len(s) + 1] = x /\ Len(s) \in Nat
<1> DEFINE a == Append(s, x)
<1>1. a \in Seq(S) /\ Len(a) = Len(s) + 1 /\ Len(s) \in Nat
  OBVIOUS
<1>2. \A i \in 1 .. Len(s) : a[i] = s[i]
  OBVIOUS
<1>3. a[Len(s) + 1] = x
  OBVIOUS
<1> HIDE DEF a
<1>4. DOMAIN s = 1 .. Len(s) /\ DOMAIN a = 1 .. Len(s) + 1
  BY <1>1
<1>5. ToSet(a) = ToSet(s) \cup {x}
  <2>1. \A i \in DOMAIN a : i \in DOMAIN s \/ i = Len(s) + 1
    BY <1>1, <1>4
  <2>2. DOMAIN s \subseteq DOMAIN a /\ Len(s) + 1 \in DOMAIN a
    BY <1>1, <1>4
  <2>3. ToSet(a) = {a[i] : i \in DOMAIN a} /\ ToSet(s) = {s[i] : i \in DOMAIN s}
    BY DEF ToSet
  <2> QED
    BY <1>2, <1>3, <1>4, <2>1, <2>2, <2>3
<1> QED
  BY <1>1, <1>2, <1>3, <1>4, <1>5 DEF a

\* A target behind the cursor stays behind it when it becomes rarer.
LEMMA BeforeFalls ==
  ASSUME NEW c \in AnyTarget, NEW p, NEW m \in Nat, NEW n \in Nat, n <= m, p \in Nat,
         Before(c, [position |-> p, frequency |-> m])
  PROVE  Before(c, [position |-> p, frequency |-> n])
  BY AnyTargetIs DEF Before

\* The order of the targets is transitive ...
LEMMA BeforeChains ==
  ASSUME NEW a \in AnyTarget, NEW b \in AnyTarget, NEW c \in AnyTarget,
         Before(a, b), Before(b, c)
  PROVE  Before(a, c)
<1>1. \A t \in AnyTarget : t.position \in Nat /\ t.frequency \in Nat
  BY AnyTargetIs
<1> QED
  BY <1>1 DEF Before

\* ... irreflexive ...
LEMMA BeforeItself == ASSUME NEW a \in AnyTarget PROVE ~Before(a, a)
  BY AnyTargetIs DEF Before

\* ... and asymmetric.
LEMMA BeforeOneWay ==
  ASSUME NEW a \in AnyTarget, NEW b \in AnyTarget, Before(a, b) PROVE ~Before(b, a)
<1>1. \A t \in AnyTarget : t.position \in Nat /\ t.frequency \in Nat
  BY AnyTargetIs
<1> QED
  BY <1>1 DEF Before

\* A position that games hold has its target.
LEMMA HeldTargets ==
  /\ Held(game) \subseteq Ids
  /\ \A p \in Held(game) : Target(p) \in Targets(game) /\ Target(p) \in AnyTarget
  /\ \A t \in Targets(game) : t \in AnyTarget /\ t.position \in Held(game) /\ t = Target(t.position)
<1>1. Held(game) \subseteq Ids
  BY DEF Held
<1>2. /\ Targets(game) \subseteq AnyTarget
      /\ \A t \in Targets(game) :
           t.position \in Held(game) /\ t.frequency = Frequency(game, t.position)
      /\ \A p \in Held(game) :
           [position |-> p, frequency |-> Frequency(game, p)] \in Targets(game)
  BY TargetsAre
<1>3. \A p \in Held(game) : Target(p) \in Targets(game) /\ Target(p) \in AnyTarget
  BY <1>2 DEF Target
<1>4. \A t \in AnyTarget : t = [position |-> t.position, frequency |-> t.frequency]
  BY DEF AnyTarget
<1>5. \A t \in Targets(game) : t = Target(t.position)
  BY <1>2, <1>4 DEF Target
<1> QED
  BY <1>1, <1>2, <1>3, <1>5

\* Nothing that the pages depend on changes.
LEMMA SamePages ==
  ASSUME game' = game, cursor' = cursor
  PROVE  /\ \A p : Passed(Target(p))' <=> Passed(Target(p))
         /\ Held(game)' = Held(game)
<1>1. \A p : Target(p)' = Target(p)
  BY DEF Target
<1> QED
  BY DEF Passed, Target

\* What offering p, or counting it as common, does to the lists.
Treats(p, then) ==
  /\ results \subseteq results' /\ failed \subseteq failed' /\ ToSet(common) \subseteq ToSet(common')
  /\ results' \in SUBSET Ids /\ failed' \in SUBSET Ids
  /\ common' \in Seq(Ids) /\ serving' \in Seq(Ids) /\ yielded' \in Nat
  /\ IF preset THEN p \in ToSet(common') \cup ToSet(Technical) ELSE p \in results' \cup failed'
  /\ ToSet(common') \subseteq ToSet(common) \cup {p}
  /\ ToSet(common') \cap ToSet(Technical) = {}
  /\ \A i, j \in DOMAIN common' : i < j /\ common'[i] = common'[j] =>
       common'[i] \in fell \/ (common'[i] = p /\ p \in ToSet(common))
  /\ \/ at' = then /\ Len(common') < CommonCount /\ (limit # NoLimit => yielded' < limit)
     \/ at' = "end" /\ Len(common') < CommonCount /\ limit # NoLimit /\ yielded' <= limit
     \/ at' = "serve" /\ preset /\ Len(common') = CommonCount
  /\ UNCHANGED <<game, rose, fell, imports>>

\* A limit is a number.
LEMMA LimitIs == ASSUME TargetTypes, limit # NoLimit PROVE limit \in Nat \ {0}
  BY DEF TargetTypes

\* An ineligible target is skipped, another one offered.
LEMMA OfferIs ==
  ASSUME TargetTypes, Stages, Mixture, at \in {"page", "routes"},
         NEW p \in Ids, NEW then, Offer(p, then)
  PROVE  Treats(p, then)
<1>1. ~preset /\ common' = common /\ serving' = serving
  BY DEF Offer
<1>2. game' = game /\ rose' = rose /\ fell' = fell /\ imports' = imports
  BY DEF Offer, Consume, Skip, table, history
<1>3. /\ common \in Seq(Ids) /\ serving \in Seq(Ids) /\ Len(common) < CommonCount
      /\ ToSet(common) \cap ToSet(Technical) = {}
      /\ \A i, j \in DOMAIN common : i < j /\ common[i] = common[j] => common[i] \in fell
  BY DEF TargetTypes, Mixture
<1>4. /\ results \in SUBSET Ids /\ failed \in SUBSET Ids /\ yielded \in Nat
      /\ limit # NoLimit => yielded < limit
  BY DEF TargetTypes, Stages
<1>5. CASE Eligible(p)
  <2>1. Consume(p, then)
    BY <1>5 DEF Offer
  <2>2. /\ results \subseteq results' /\ failed \subseteq failed'
        /\ results' \in SUBSET Ids /\ failed' \in SUBSET Ids
        /\ p \in results' \cup failed'
    BY <1>4, <2>1 DEF Consume
  <2>3. yielded' = yielded + 1 /\ at' = IF LimitReached(yielded') THEN "end" ELSE then
    BY <2>1 DEF Consume
  <2>4. CASE limit = NoLimit
    BY <1>1, <1>2, <1>3, <1>4, <2>2, <2>3, <2>4 DEF Treats, LimitReached
  <2>5. CASE limit # NoLimit
    <3>1. limit \in Nat /\ yielded < limit
      BY <1>4, <2>5, LimitIs
    <3>2. yielded' \in Nat /\ yielded' <= limit /\ (yielded' >= limit \/ yielded' < limit)
      BY <1>4, <2>3, <3>1
    <3>3. at' = IF yielded' >= limit THEN "end" ELSE then
      BY <2>3, <2>5 DEF LimitReached
    <3> QED
      BY <1>1, <1>2, <1>3, <2>2, <2>5, <3>2, <3>3 DEF Treats
  <2> QED
    BY <2>4, <2>5
<1>6. CASE ~Eligible(p)
  <2>1. at' = then /\ results' = results /\ yielded' = yielded /\ failed' = failed /\ p \in results
    BY <1>6 DEF Offer, Skip, table, history, Eligible
  <2> QED
    BY <1>1, <1>2, <1>3, <1>4, <2>1 DEF Treats
<1> QED
  BY <1>5, <1>6

\* The initial preset collects what is not technical.
LEMMA CollectIs ==
  ASSUME TargetTypes, Stages, Mixture, at \in {"page", "routes"},
         NEW p \in Ids, NEW then, Collect(p, then)
  PROVE  Treats(p, then)
<1>1. preset /\ limit = NoLimit
  BY DEF Collect, Stages
<1>2. /\ game' = game /\ results' = results /\ yielded' = yielded
      /\ rose' = rose /\ fell' = fell /\ failed' = failed /\ imports' = imports
  BY DEF Collect, Skip, table, history
<1>3. /\ common \in Seq(Ids) /\ serving \in Seq(Ids) /\ Len(common) < CommonCount
      /\ ToSet(common) \cap ToSet(Technical) = {}
      /\ \A i, j \in DOMAIN common : i < j /\ common[i] = common[j] => common[i] \in fell
  BY DEF TargetTypes, Mixture
<1>4. results \in SUBSET Ids /\ failed \in SUBSET Ids /\ yielded \in Nat
  BY DEF TargetTypes
<1>5. /\ common' = IF p \in ToSet(Technical) THEN common ELSE Append(common, p)
      /\ Len(common') = CommonCount => at' = "serve" /\ serving' = common' \o Technical
      /\ Len(common') # CommonCount => at' = then /\ serving' = serving
  BY DEF Collect, Skip
<1>6. /\ common' \in Seq(Ids) /\ ToSet(common) \subseteq ToSet(common')
      /\ p \in ToSet(common') \cup ToSet(Technical)
      /\ ToSet(common') \subseteq ToSet(common) \cup {p}
      /\ ToSet(common') \cap ToSet(Technical) = {}
      /\ Len(common') \in Nat /\ Len(common') <= CommonCount
      /\ \A i, j \in DOMAIN common' : i < j /\ common'[i] = common'[j] =>
           common'[i] \in fell \/ (common'[i] = p /\ p \in ToSet(common))
  <2>1. CASE p \in ToSet(Technical)
    BY <1>3, <1>5, <2>1
  <2>2. CASE p \notin ToSet(Technical)
    <3> DEFINE a == Append(common, p)
    <3>1. /\ a \in Seq(Ids) /\ Len(a) = Len(common) + 1 /\ ToSet(a) = ToSet(common) \cup {p}
          /\ DOMAIN common = 1 .. Len(common) /\ DOMAIN a = 1 .. Len(common) + 1
          /\ \A i \in DOMAIN common : a[i] = common[i]
          /\ a[Len(common) + 1] = p /\ Len(common) \in Nat
      BY <1>3, AppendIs
    <3>2. common' = a
      BY <1>5, <2>2
    <3> HIDE DEF a
    <3>3. Len(a) \in Nat /\ Len(a) <= CommonCount
      BY <1>3, <3>1
    <3>4. ASSUME NEW i \in DOMAIN a, NEW j \in DOMAIN a, i < j, a[i] = a[j]
          PROVE  a[i] \in fell \/ (a[i] = p /\ p \in ToSet(common))
      <4>1. i \in DOMAIN common
        BY <3>1, <3>4
      <4>2. j \in DOMAIN common \/ j = Len(common) + 1
        BY <3>1
      <4>3. CASE j \in DOMAIN common
        BY <1>3, <3>1, <3>4, <4>1, <4>3
      <4>4. CASE j = Len(common) + 1
        <5>1. a[i] = p /\ common[i] = p
          BY <3>1, <3>4, <4>1, <4>4
        <5> QED
          BY <4>1, <5>1 DEF ToSet
      <4> QED
        BY <4>2, <4>3, <4>4
    <3> QED
      BY <1>3, <2>2, <3>1, <3>2, <3>3, <3>4
  <2> QED
    BY <2>1, <2>2
<1>7. serving' \in Seq(Ids)
  <2>1. Technical \in Seq(Ids)
    OBVIOUS
  <2>2. common' \o Technical \in Seq(Ids)
    BY <1>6, <2>1
  <2> QED
    BY <1>3, <1>5, <2>2
<1>8. \/ at' = then /\ Len(common') < CommonCount
      \/ at' = "serve" /\ Len(common') = CommonCount
  BY <1>5, <1>6
<1> QED
  BY <1>1, <1>2, <1>4, <1>6, <1>7, <1>8 DEF Treats

-----------------------------------------------------------------------------
(* The steps of the iteration. *)

\* The invariant holds before any launch.
LEMMA TargetInitInv == TargetInit => TargetInv
<1> SUFFICES ASSUME TargetInit PROVE TargetInv
  OBVIOUS
<1> USE DEF TargetInit
<1>1. TargetTypes
  <2>1. \A S : << >> \in Seq(S)
    OBVIOUS
  <2>2. Len(page) <= PageSize
    OBVIOUS
  <2> QED
    BY <2>1, <2>2 DEF TargetTypes, TargetPoints
<1>2. Stages /\ Covered /\ Treated /\ Seen /\ RoutesApart
  BY DEF Stages, Covered, Treated, Seen, RoutesApart, Open, Through
<1>3. Mixture
  <2>1. Len(common) = 0 /\ DOMAIN common = {} /\ ToSet(common) = {}
    BY DEF ToSet
  <2> QED
    BY <2>1 DEF Mixture, Open
<1> QED
  BY <1>1, <1>2, <1>3 DEF TargetInv

\* A launch begins with nothing shown.
LEMMA BeginKeeps ==
  ASSUME TargetInv, NEW initial \in BOOLEAN, NEW most \in Limits, Begin(initial, most)
  PROVE  TargetInv'
<1> USE DEF TargetInv
<1>1. TargetTypes'
  BY DEF TargetTypes, TargetPoints, Begin, table
<1>2. Stages'
  <2>1. most # NoLimit => most \in Nat \ {0}
    OBVIOUS
  <2> QED
    BY <2>1 DEF Stages, Begin, Through
<1>3. Covered' /\ Treated' /\ Seen' /\ RoutesApart'
  BY DEF Begin, Covered, Treated, Seen, RoutesApart, Open, Through, Passed, InPage
<1>4. Mixture'
  <2>1. common' = << >> /\ Len(common') = 0 /\ DOMAIN common' = {} /\ ToSet(common') = {}
    BY DEF ToSet, Begin
  <2> QED
    BY <2>1 DEF Mixture, Open, Begin
<1> QED
  BY <1>1, <1>2, <1>3, <1>4

\* The next page is what is next behind the cursor; behind an empty page is nothing.
LEMMA LoadPageKeeps == ASSUME TargetInv, LoadPage PROVE TargetInv'
<1> DEFINE P == Page(game, cursor)
<1>0. TargetTypes /\ Stages /\ Covered /\ Treated /\ Seen /\ RoutesApart /\ Mixture
  BY DEF TargetInv
<1>1. /\ P \in Seq(Targets(game)) /\ Len(P) <= PageSize
      /\ \A i \in 1 .. Len(P) : Behind(cursor, P[i])
      /\ \A i, j \in 1 .. Len(P) : i < j => Before(P[i], P[j])
      /\ \A t \in Targets(game) : Behind(cursor, t) =>
           /\ P # << >>
           /\ (\E i \in 1 .. Len(P) : P[i] = t) \/ Before(P[Len(P)], t)
  BY PageIs
<1>2. /\ at = "load" /\ page' = P
      /\ P = << >> => at' = "routes" /\ routes' = RouteOnly(shown) /\ cursor' = cursor
      /\ P # << >> => at' = "page" /\ cursor' = Last(P) /\ routes' = routes
      /\ game' = game /\ results' = results /\ preset' = preset /\ limit' = limit
      /\ shown' = shown /\ common' = common /\ serving' = serving /\ yielded' = yielded
      /\ rose' = rose /\ fell' = fell /\ failed' = failed /\ imports' = imports
  BY DEF LoadPage, table, history
<1> HIDE DEF P
<1>3. /\ Targets(game) \subseteq AnyTarget
      /\ \A p \in Held(game) : Target(p) \in Targets(game) /\ Target(p) \in AnyTarget
      /\ \A t \in Targets(game) : t.position \in Held(game) /\ t = Target(t.position)
  BY HeldTargets
<1>4. DOMAIN P = 1 .. Len(P) /\ Len(P) \in Nat /\ P \in Seq(AnyTarget)
  BY <1>1, <1>3
<1>5. \A i \in 1 .. Len(P) : P[i] \in Targets(game) /\ P[i] \in AnyTarget
  BY <1>1, <1>3
<1>6. P # << >> => Len(P) \in 1 .. Len(P) /\ Last(P) = P[Len(P)]
  BY <1>4 DEF Last
<1>7. page = << >> /\ Open /\ InPage = {}
  BY <1>0, <1>2 DEF Stages, Open, InPage
<1>8. \A p : Target(p)' = Target(p)
  BY <1>2 DEF Target
<1>9. Held(game)' = Held(game)
  BY <1>2
<1>10. RouteOnly(shown) \in Seq(RoutePositions \ shown)
       /\ (\A x \in RoutePositions \ shown : \E i \in 1 .. Len(RouteOnly(shown)) : RouteOnly(shown)[i] = x)
       /\ (\A i, j \in 1 .. Len(RouteOnly(shown)) : i < j => RouteOnly(shown)[i] < RouteOnly(shown)[j])
  <2>1. RoutePositions \ shown \in SUBSET Ids
    BY RoutePositionsAre
  <2> QED
    BY <2>1, ByIdIs DEF RouteOnly
<1>11. TargetTypes'
  <2>1. routes' \in Seq(RoutePositions)
    BY <1>0, <1>2, <1>10 DEF TargetTypes
  <2>2. cursor' \in {NoTarget} \cup AnyTarget
    BY <1>0, <1>2, <1>5, <1>6 DEF TargetTypes
  <2>3. at' \in TargetPoints
    BY <1>2 DEF TargetPoints
  <2> QED
    BY <1>0, <1>1, <1>2, <1>4, <2>1, <2>2, <2>3 DEF TargetTypes
<1>12. Stages'
  BY <1>0, <1>2 DEF Stages, Through
<1>13. CASE P = << >>
  <2>1. \A p \in Held(game) : Passed(Target(p))
    <3>1. \A p \in Held(game) : ~Behind(cursor, Target(p))
      BY <1>1, <1>3, <1>13
    <3> QED
      BY <3>1 DEF Behind, Passed
  <2>2. Held(game) \ rose \subseteq shown
    BY <1>0, <1>7, <2>1 DEF Covered
  <2>3. at' = "routes" /\ routes' = RouteOnly(shown)
    BY <1>2, <1>13
  <2>4. DOMAIN routes' = 1 .. Len(routes')
    BY <1>10, <2>3
  <2>5. ToSet(routes') = RoutePositions \ shown
    <3>1. \A i \in DOMAIN routes' : routes'[i] \in RoutePositions \ shown
      BY <1>10, <2>3, <2>4
    <3>2. \A x \in RoutePositions \ shown : \E i \in DOMAIN routes' : routes'[i] = x
      BY <1>10, <2>3, <2>4
    <3> QED
      BY <3>1, <3>2 DEF ToSet
  <2>6. Covered'
    BY <1>2, <1>9, <2>2, <2>3, <2>5 DEF Covered, Open, Through
  <2>7. Treated'
    BY <1>0, <1>2, <1>7 DEF Treated, Offered, Open, Through
  <2>8. Seen'
    BY <2>3 DEF Seen, Open
  <2>9. RoutesApart'
    <3>1. ToSet(common) \subseteq shown
      BY <1>0, <1>7 DEF Mixture
    <3>2. \A i, j \in DOMAIN routes' : i < j => routes'[i] < routes'[j]
      BY <1>10, <2>3, <2>4
    <3> QED
      BY <1>2, <2>5, <3>1, <3>2 DEF RoutesApart
  <2>10. Mixture'
    BY <1>0, <1>2, <2>3 DEF Mixture, Open
  <2> QED
    BY <1>11, <1>12, <2>6, <2>7, <2>8, <2>9, <2>10 DEF TargetInv
<1>14. CASE P # << >>
  <2>1. /\ at' = "page" /\ cursor' = P[Len(P)] /\ Len(P) \in 1 .. Len(P)
        /\ cursor' \in AnyTarget /\ cursor' # NoTarget
    BY <1>2, <1>5, <1>6, <1>14, AnyTargetIs
  <2>2. InPage' = {P[i].position : i \in 1 .. Len(P)}
    BY <1>2, <1>4 DEF InPage
  <2>3. Covered'
    <3>1. ASSUME NEW p \in Held(game) \ rose, Passed(Target(p))'
          PROVE  p \in shown \cup InPage'
      <4>1. ~Before(cursor', Target(p))
        BY <1>8, <3>1 DEF Passed
      <4>2. CASE Behind(cursor, Target(p))
        <5>1. PICK i \in 1 .. Len(P) : P[i] = Target(p)
          BY <1>1, <1>3, <2>1, <4>1, <4>2
        <5>2. Target(p).position = p
          BY DEF Target
        <5> QED
          BY <2>2, <5>1, <5>2
      <4>3. CASE ~Behind(cursor, Target(p))
        BY <1>0, <1>7, <4>3 DEF Covered, Passed, Behind
      <4> QED
        BY <4>2, <4>3
    <3> QED
      BY <1>2, <1>9, <2>1, <3>1 DEF Covered, Open, Through
  <2>4. Treated'
    BY <1>0, <1>2, <1>7, <2>1 DEF Treated, Offered, Open, Through
  <2>5. \A i \in 1 .. Len(P) : P[i] = cursor' \/ Before(P[i], cursor')
    BY <1>1, <1>4, <2>1
  <2>6. ASSUME NEW p \in (shown \cup InPage') \ fell PROVE Passed(Target(p))'
    <3>1. CASE p \in shown
      <4>1. Passed(Target(p))
        BY <1>0, <1>7, <2>6, <3>1 DEF Seen
      <4>2. cursor \in AnyTarget /\ ~Before(cursor, Target(p))
        BY <1>0, <4>1 DEF Passed, TargetTypes
      <4>3. Before(cursor, cursor')
        BY <1>1, <2>1, <4>1 DEF Behind, Passed
      <4>4. p \in Ids
        BY <1>0, <3>1 DEF TargetTypes
      <4>5. ~Before(cursor', Target(p))
        <5>1. Frequency(game, p) \in Nat
          BY FrequencyIs
        <5>2. Target(p).position = p /\ Target(p).frequency = Frequency(game, p) /\ p \in Nat
          BY <4>4 DEF Target
        <5>3. /\ cursor.position \in Nat /\ cursor.frequency \in Nat
              /\ cursor'.position \in Nat /\ cursor'.frequency \in Nat
          BY <2>1, <4>2, AnyTargetIs
        <5> QED
          BY <4>2, <4>3, <5>1, <5>2, <5>3 DEF Before
      <4> QED
        BY <1>8, <2>1, <4>5 DEF Passed
    <3>2. CASE p \in InPage'
      <4>1. PICK i \in 1 .. Len(P) : P[i].position = p
        BY <2>2, <3>2
      <4>2. P[i] = Target(p) /\ P[i] \in AnyTarget
        BY <1>3, <1>5, <4>1
      <4>3. ~Before(cursor', P[i])
        BY <2>1, <2>5, <4>2, BeforeItself, BeforeOneWay
      <4> QED
        BY <1>8, <2>1, <4>2, <4>3 DEF Passed
    <3> QED
      BY <2>6, <3>1, <3>2
  <2>7. ASSUME NEW i \in 1 .. Len(P), NEW j \in 1 .. Len(P), i < j
        PROVE  P[i].position # P[j].position
    <3>1. Before(P[i], P[j]) /\ ~Before(P[i], P[i])
      BY <1>1, <1>5, <2>7, BeforeItself
    <3>2. P[i] = Target(P[i].position) /\ P[j] = Target(P[j].position)
      BY <1>3, <1>5
    <3> QED
      BY <3>1, <3>2
  <2>8. ASSUME NEW i \in 1 .. Len(P), P[i].position \in shown PROVE P[i].position \in fell
    <3>1. P[i] = Target(P[i].position) /\ Behind(cursor, P[i])
      BY <1>1, <1>3, <1>5
    <3>2. ~Passed(Target(P[i].position))
      BY <3>1 DEF Passed, Behind
    <3> QED
      BY <1>0, <1>7, <2>8, <3>2 DEF Seen
  <2>9. Seen'
    BY <1>2, <1>4, <2>6, <2>7, <2>8 DEF Seen
  <2>10. RoutesApart'
    BY <2>1 DEF RoutesApart
  <2>11. Mixture'
    BY <1>0, <1>2, <1>7, <2>1 DEF Mixture, Open
  <2> QED
    BY <1>11, <1>12, <2>3, <2>4, <2>9, <2>10, <2>11 DEF TargetInv
<1> QED
  BY <1>13, <1>14

\* A target of the page is shown and treated.
LEMMA PageTargetKeeps == ASSUME TargetInv, PageTarget PROVE TargetInv'
<1> DEFINE p == Head(page).position
           then == IF Len(page) = 1 THEN "load" ELSE "page"
<1>0. TargetTypes /\ Stages /\ Covered /\ Treated /\ Seen /\ RoutesApart /\ Mixture
  BY DEF TargetInv
<1>1. /\ at = "page" /\ shown' = shown \cup {p} /\ (Offer(p, then) \/ Collect(p, then))
      /\ page' = Tail(page)
      /\ preset' = preset /\ limit' = limit /\ cursor' = cursor /\ routes' = routes
  BY DEF PageTarget
<1>2. page \in Seq(AnyTarget) /\ page # << >> /\ Len(page) <= PageSize
  BY <1>0, <1>1 DEF TargetTypes, Stages
<1>3. /\ Head(page) = page[1] /\ 1 \in DOMAIN page /\ Head(page) \in AnyTarget
      /\ page' \in Seq(AnyTarget) /\ Len(page) \in Nat \ {0} /\ Len(page') = Len(page) - 1
      /\ DOMAIN page = 1 .. Len(page) /\ DOMAIN page' = 1 .. Len(page) - 1
      /\ \A i \in DOMAIN page' : page'[i] = page[i + 1] /\ i + 1 \in DOMAIN page
      /\ \A i \in DOMAIN page : i # 1 => i - 1 \in DOMAIN page' /\ page'[i - 1] = page[i]
  BY <1>1, <1>2, HeadAndTail
<1>4. p \in Ids
  BY <1>3, AnyTargetIs
<1>5. p = page[1].position
  BY <1>3
<1>6. then \in {"load", "page"} /\ (then = "load" => page' = << >>) /\ (then = "page" => page' # << >>)
  <2>1. Len(page') = 0 <=> page' = << >>
    BY <1>3
  <2> QED
    BY <1>3, <2>1
<1> HIDE DEF p, then
<1>7. Treats(p, then)
  BY <1>0, <1>1, <1>4, OfferIs, CollectIs
<1>8. Open /\ (Open' <=> at' = then) /\ ~Through' /\ at' # "routes" /\ at' # "error"
  BY <1>1, <1>6, <1>7 DEF Open, Through, Treats
<1>9. InPage = {p} \cup InPage' /\ shown \cup InPage = shown' \cup InPage'
  <2>1. \A i \in DOMAIN page : page[i].position = p \/ \E j \in DOMAIN page' : page'[j] = page[i]
    BY <1>3, <1>5
  <2>2. \A j \in DOMAIN page' : \E i \in DOMAIN page : page'[j] = page[i]
    BY <1>3
  <2>4. \A x : x \in InPage <=> \E i \in DOMAIN page : page[i].position = x
    BY DEF InPage
  <2>5. \A x : x \in InPage' <=> \E i \in DOMAIN page' : page'[i].position = x
    BY DEF InPage
  <2>6. p \in InPage
    BY <1>3, <1>5, <2>4
  <2>7. ASSUME NEW x PROVE x \in InPage <=> x = p \/ x \in InPage'
    BY <2>1, <2>2, <2>4, <2>5, <2>6
  <2>3. InPage = {p} \cup InPage'
    BY <2>7
  <2> QED
    BY <1>1, <2>3
<1>10. /\ \A q : Passed(Target(q))' <=> Passed(Target(q))
       /\ Held(game)' = Held(game)
  BY <1>1, <1>7, SamePages DEF Treats
<1>11. TargetTypes'
  <2>1. Len(page') <= PageSize
    BY <1>2, <1>3
  <2>2. at' \in TargetPoints
    BY <1>6, <1>7 DEF Treats, TargetPoints
  <2> QED
    BY <1>0, <1>1, <1>3, <1>4, <1>7, <2>1, <2>2 DEF TargetTypes, Treats
<1>12. Stages'
  <2>1. limit # NoLimit => limit \in Nat
    BY <1>0, LimitIs
  <2> QED
    BY <1>0, <1>1, <1>6, <1>7, <1>8, <2>1 DEF Stages, Treats, TargetTypes
<1>13. Covered'
  BY <1>0, <1>7, <1>8, <1>9, <1>10 DEF Covered, Treats
<1>14. Treated'
  BY <1>0, <1>1, <1>7, <1>8 DEF Treated, Offered, Treats
<1>15. Seen'
  <2>1. \A q \in (shown' \cup InPage') \ fell' : Passed(Target(q))'
    BY <1>0, <1>7, <1>8, <1>9, <1>10 DEF Seen, Treats
  <2>2. ASSUME NEW i \in DOMAIN page', NEW j \in DOMAIN page', i < j
        PROVE  page'[i].position # page'[j].position
    <3>1. i + 1 \in DOMAIN page /\ j + 1 \in DOMAIN page /\ i + 1 < j + 1
      BY <1>3, <2>2
    <3> QED
      BY <1>0, <1>1, <1>3, <3>1 DEF Seen
  <2>3. ASSUME NEW i \in DOMAIN page', page'[i].position \in shown'
        PROVE  page'[i].position \in fell'
    <3>1. i + 1 \in DOMAIN page /\ 1 < i + 1 /\ page'[i] = page[i + 1]
      BY <1>3
    <3>2. page[i + 1].position # p
      BY <1>0, <1>1, <1>3, <1>5, <3>1 DEF Seen
    <3> QED
      BY <1>0, <1>1, <1>7, <2>3, <3>1, <3>2 DEF Seen, Treats
  <2> QED
    BY <2>1, <2>2, <2>3 DEF Seen
<1>16. RoutesApart'
  BY <1>8 DEF RoutesApart
<1>17. Mixture'
  <2>1. ToSet(common') \subseteq shown'
    BY <1>0, <1>1, <1>7, <1>8 DEF Mixture, Treats
  <2>2. p \in ToSet(common) => p \in fell
    BY <1>0, <1>1, <1>3, <1>5, <1>8 DEF Seen, Mixture
  <2>3. \A i, j \in DOMAIN common' : i < j /\ common'[i] = common'[j] => common'[i] \in fell'
    BY <1>7, <2>2 DEF Treats
  <2>4. Len(common') <= CommonCount /\ (at' = then => Len(common') < CommonCount)
        /\ (at' = "serve" => Len(common') = CommonCount)
    <3>1. common' \in Seq(Ids)
      BY <1>7 DEF Treats
    <3>2. Len(common') \in Nat
      BY <3>1
    <3> QED
      BY <1>6, <1>7, <3>2 DEF Treats
  <2> QED
    BY <1>7, <1>8, <2>1, <2>3, <2>4 DEF Mixture, Treats, Open
<1> QED
  BY <1>11, <1>12, <1>13, <1>14, <1>15, <1>16, <1>17 DEF TargetInv

\* A position of the routes is treated.
LEMMA RouteTargetKeeps == ASSUME TargetInv, RouteTarget PROVE TargetInv'
<1> DEFINE p == Head(routes)
<1>0. TargetTypes /\ Stages /\ Covered /\ Treated /\ Seen /\ RoutesApart /\ Mixture
  BY DEF TargetInv
<1>1. /\ at = "routes" /\ routes # << >>
      /\ (Offer(p, "routes") \/ Collect(p, "routes"))
      /\ routes' = Tail(routes)
      /\ preset' = preset /\ limit' = limit /\ page' = page /\ cursor' = cursor /\ shown' = shown
  BY DEF RouteTarget
<1>2. routes \in Seq(RoutePositions)
  BY <1>0 DEF TargetTypes
<1>3. /\ p = routes[1] /\ 1 \in DOMAIN routes /\ p \in RoutePositions
      /\ routes' \in Seq(RoutePositions) /\ Len(routes) \in Nat \ {0}
      /\ DOMAIN routes = 1 .. Len(routes) /\ DOMAIN routes' = 1 .. Len(routes) - 1
      /\ \A i \in DOMAIN routes' : routes'[i] = routes[i + 1] /\ i + 1 \in DOMAIN routes
      /\ \A i \in DOMAIN routes : i # 1 => i - 1 \in DOMAIN routes' /\ routes'[i - 1] = routes[i]
  BY <1>1, <1>2, HeadAndTail
<1>4. p \in Ids
  BY <1>3, RoutePositionsAre
<1> HIDE DEF p
<1>5. Treats(p, "routes")
  BY <1>0, <1>1, <1>4, OfferIs, CollectIs
<1>6. Through /\ ~Open /\ ~Open' /\ (Through' <=> at' = "routes") /\ at' # "error"
  BY <1>1, <1>5 DEF Open, Through, Treats
<1>7. /\ \A q : Passed(Target(q))' <=> Passed(Target(q))
      /\ Held(game)' = Held(game)
  BY <1>1, <1>5, SamePages DEF Treats
<1>8. ASSUME NEW i \in DOMAIN routes' PROVE routes'[i] # p
  <2>1. i + 1 \in DOMAIN routes /\ 1 < i + 1 /\ routes'[i] = routes[i + 1]
    BY <1>3
  <2>2. routes[1] < routes[i + 1]
    BY <1>0, <1>1, <1>3, <2>1 DEF RoutesApart
  <2>3. \A x \in RoutePositions : x \in Nat
    BY RoutePositionsAre
  <2> QED
    BY <1>3, <2>1, <2>2, <2>3
<1>9. ToSet(routes) = {p} \cup ToSet(routes') /\ p \notin ToSet(routes')
  <2>1. \A x : x \in ToSet(routes) <=> \E i \in DOMAIN routes : routes[i] = x
    BY DEF ToSet
  <2>2. \A x : x \in ToSet(routes') <=> \E i \in DOMAIN routes' : routes'[i] = x
    BY DEF ToSet
  <2>3. ASSUME NEW x PROVE x \in ToSet(routes) <=> x = p \/ x \in ToSet(routes')
    BY <1>3, <2>1, <2>2
  <2> QED
    BY <1>8, <2>2, <2>3
<1>10. TargetTypes'
  <2>1. at' \in TargetPoints
    BY <1>5 DEF Treats, TargetPoints
  <2> QED
    BY <1>0, <1>1, <1>3, <1>5, <2>1 DEF TargetTypes, Treats
<1>11. Stages'
  <2>1. limit # NoLimit => limit \in Nat
    BY <1>0, LimitIs
  <2> QED
    BY <1>0, <1>1, <1>5, <1>6, <2>1 DEF Stages, Treats, TargetTypes
<1>12. Covered'
  <2>1. at' = "routes" => Held(game)' \ rose' \subseteq shown'
    BY <1>0, <1>1, <1>5, <1>6, <1>7 DEF Covered, Treats
  <2>2. RoutePositions \subseteq shown' \cup ToSet(routes') \cup Offered'
    BY <1>0, <1>1, <1>5, <1>6, <1>9 DEF Covered, Treats, Offered
  <2> QED
    BY <1>6, <2>1, <2>2 DEF Covered
<1>13. Treated'
  BY <1>0, <1>1, <1>5, <1>6 DEF Treated, Offered, Treats
<1>14. Seen'
  BY <1>5, <1>6 DEF Seen, Treats
<1>15. RoutesApart'
  <2>1. ASSUME NEW i \in DOMAIN routes', NEW j \in DOMAIN routes', i < j PROVE routes'[i] < routes'[j]
    <3>1. i + 1 \in DOMAIN routes /\ j + 1 \in DOMAIN routes /\ i + 1 < j + 1
      BY <1>3, <2>1
    <3> QED
      BY <1>0, <1>1, <1>3, <3>1 DEF RoutesApart
  <2>2. ToSet(routes') \cap (shown' \cup ToSet(common')) = {}
    BY <1>0, <1>1, <1>5, <1>9 DEF RoutesApart, Treats
  <2> QED
    BY <2>1, <2>2 DEF RoutesApart
<1>16. Mixture'
  <2>1. p \notin ToSet(common)
    BY <1>0, <1>1, <1>9 DEF RoutesApart
  <2>2. \A i, j \in DOMAIN common' : i < j /\ common'[i] = common'[j] => common'[i] \in fell'
    BY <1>5, <2>1 DEF Treats
  <2>3. Len(common') <= CommonCount /\ (at' = "routes" => Len(common') < CommonCount)
        /\ (at' = "serve" => Len(common') = CommonCount)
    <3>1. common' \in Seq(Ids)
      BY <1>5 DEF Treats
    <3>2. Len(common') \in Nat
      BY <3>1
    <3> QED
      BY <1>5, <3>2 DEF Treats
  <2> QED
    BY <1>5, <1>6, <2>2, <2>3 DEF Mixture, Treats, Open
<1> QED
  BY <1>10, <1>11, <1>12, <1>13, <1>14, <1>15, <1>16 DEF TargetInv

\* The iteration comes to another point, and leaves its lists alone.
LEMMA ComesTo ==
  ASSUME TargetInv, at' \in {"end", "error", "off"},
         UNCHANGED <<table, preset, limit, page, cursor, shown, routes, common, serving, yielded, history>>,
         at' = "error" => at = "routes" /\ preset /\ page = << >>,
         at' # "off" /\ Through' => Through /\ routes = << >>
  PROVE  TargetInv'
<1>0. TargetTypes /\ Stages /\ Covered /\ Treated /\ Seen /\ RoutesApart /\ Mixture
  BY DEF TargetInv
<1>1. /\ game' = game /\ results' = results /\ preset' = preset /\ limit' = limit /\ page' = page
      /\ cursor' = cursor /\ shown' = shown /\ routes' = routes /\ common' = common
      /\ serving' = serving /\ yielded' = yielded
      /\ rose' = rose /\ fell' = fell /\ failed' = failed /\ imports' = imports
  BY DEF table, history
<1>2. ~Open' /\ (Through' => at' \in {"end", "error"})
  BY DEF Open, Through
<1>3. TargetTypes' /\ Stages'
  <2>1. at' \in TargetPoints
    BY DEF TargetPoints
  <2>2. TargetTypes'
    BY <1>0, <1>1, <2>1 DEF TargetTypes
  <2>3. at' = "error" => routes = << >>
    BY DEF Through
  <2>4. Stages'
    BY <1>0, <1>1, <2>3 DEF Stages, Through
  <2> QED
    BY <2>2, <2>4
<1>4. Covered' /\ Treated'
  BY <1>0, <1>1, <1>2 DEF Covered, Treated, Offered
<1>5. Seen' /\ RoutesApart' /\ Mixture'
  BY <1>0, <1>1, <1>2 DEF Seen, RoutesApart, Mixture
<1> QED
  BY <1>3, <1>4, <1>5 DEF TargetInv

\* The routes come to their end.
LEMMA ExhaustedKeeps == ASSUME TargetInv, Exhausted PROVE TargetInv'
<1>1. /\ at = "routes" /\ routes = << >> /\ at' = IF preset THEN "error" ELSE "end"
      /\ UNCHANGED <<table, preset, limit, page, cursor, shown, routes, common, serving, yielded, history>>
  BY DEF Exhausted
<1>2. Through /\ page = << >>
  BY <1>1 DEF Through, TargetInv, Stages
<1> QED
  BY <1>1, <1>2, ComesTo

\* The initial preset comes to its end.
LEMMA ServedKeeps == ASSUME TargetInv, Served PROVE TargetInv'
<1>1. /\ at = "serve" /\ at' = "end"
      /\ UNCHANGED <<table, preset, limit, page, cursor, shown, routes, common, serving, yielded, history>>
  BY DEF Served
<1>2. ~Through'
  BY <1>1 DEF Through, TargetInv, Stages
<1> QED
  BY <1>1, <1>2, ComesTo

\* The launch is over.
LEMMA EndKeeps == ASSUME TargetInv, End PROVE TargetInv'
<1>1. /\ at' = "off"
      /\ UNCHANGED <<table, preset, limit, page, cursor, shown, routes, common, serving, yielded, history>>
  BY DEF End
<1> QED
  BY <1>1, ComesTo

\* The initial preset serves a position it has collected.
LEMMA ServeKeeps == ASSUME TargetInv, Serve PROVE TargetInv'
<1> DEFINE p == Head(serving)
<1>0. TargetTypes /\ Stages /\ Covered /\ Treated /\ Seen /\ RoutesApart /\ Mixture
  BY DEF TargetInv
<1>1. /\ at = "serve" /\ serving # << >> /\ serving' = Tail(serving)
      /\ (Consume(p, "serve") \/ Skip("serve"))
      /\ preset' = preset /\ limit' = limit /\ page' = page /\ cursor' = cursor
      /\ shown' = shown /\ routes' = routes /\ common' = common
  BY DEF Serve
<1>2. preset /\ limit = NoLimit
  BY <1>0, <1>1 DEF Stages
<1>3. p \in Ids /\ serving' \in Seq(Ids)
  <2>1. serving \in Seq(Ids)
    BY <1>0 DEF TargetTypes
  <2> QED
    BY <1>1, <2>1, HeadAndTail
<1> HIDE DEF p
<1>4. /\ at' = "serve" /\ game' = game /\ rose' = rose /\ fell' = fell /\ imports' = imports
      /\ results' \in SUBSET Ids /\ failed' \in SUBSET Ids /\ yielded' \in Nat
  <2>1. results \in SUBSET Ids /\ failed \in SUBSET Ids /\ yielded \in Nat
    BY <1>0 DEF TargetTypes
  <2>2. CASE Consume(p, "serve")
    <3>1. /\ results' = results \cup {p} \/ results' = results
          /\ failed' = failed \cup {p} \/ failed' = failed
          /\ yielded' = yielded + 1 /\ at' = IF LimitReached(yielded') THEN "end" ELSE "serve"
          /\ game' = game /\ rose' = rose /\ fell' = fell /\ imports' = imports
      BY <2>2 DEF Consume
    <3>2. yielded' \in Nat /\ at' = "serve"
      BY <1>2, <2>1, <3>1 DEF LimitReached
    <3> QED
      BY <1>3, <2>1, <3>1, <3>2
  <2>3. CASE Skip("serve")
    BY <1>1, <2>1, <2>3 DEF Skip, table, history
  <2> QED
    BY <1>1, <2>2, <2>3
<1>5. TargetTypes'
  BY <1>0, <1>1, <1>3, <1>4 DEF TargetTypes, TargetPoints
<1>6. Stages'
  BY <1>1, <1>2, <1>4 DEF Stages, Through
<1>7. Covered' /\ Treated' /\ Seen' /\ RoutesApart'
  BY <1>4 DEF Covered, Treated, Seen, RoutesApart, Open, Through
<1>8. Mixture'
  BY <1>0, <1>1, <1>4 DEF Mixture, Open
<1> QED
  BY <1>5, <1>6, <1>7, <1>8 DEF TargetInv

\* Another program publishes a result.
LEMMA StoreResultKeeps == ASSUME TargetInv, NEW p \in Ids, StoreResult(p) PROVE TargetInv'
<1>0. TargetTypes /\ Stages /\ Covered /\ Treated /\ Seen /\ RoutesApart /\ Mixture
  BY DEF TargetInv
<1>1. /\ results' = results \cup {p} /\ game' = game /\ preset' = preset /\ limit' = limit
      /\ page' = page /\ cursor' = cursor /\ shown' = shown /\ routes' = routes /\ at' = at
      /\ common' = common /\ serving' = serving /\ yielded' = yielded
      /\ rose' = rose /\ fell' = fell /\ failed' = failed /\ imports' = imports
  BY DEF StoreResult, iteration, history
<1>2. /\ \A q : Passed(Target(q))' <=> Passed(Target(q))
      /\ Held(game)' = Held(game)
  BY <1>1, SamePages
<1>3. (Open' <=> Open) /\ (Through' <=> Through) /\ InPage' = InPage
  BY <1>1 DEF Open, Through, InPage
<1>4. TargetTypes'
  BY <1>0, <1>1 DEF TargetTypes
<1>5. Stages'
  BY <1>0, <1>1, <1>3 DEF Stages
<1>6. Covered' /\ Treated'
  <2>1. Offered \subseteq Offered'
    BY <1>1 DEF Offered
  <2> QED
    BY <1>0, <1>1, <1>2, <1>3, <2>1 DEF Covered, Treated
<1>7. Seen'
  BY <1>0, <1>1, <1>2, <1>3 DEF Seen
<1>8. RoutesApart' /\ Mixture'
  BY <1>0, <1>1, <1>3 DEF RoutesApart, Mixture
<1> QED
  BY <1>4, <1>5, <1>6, <1>7, <1>8 DEF TargetInv

\* A game is imported or corrected: what did not rise does not come before the cursor,
\* and what did not fall stays there.
LEMMA ImportGameKeeps ==
  ASSUME TargetInv, NEW g \in Games, NEW v \in Variants, ImportGame(g, v)
  PROVE  TargetInv'
<1>0. TargetTypes /\ Stages /\ Covered /\ Treated /\ Seen /\ RoutesApart /\ Mixture
  BY DEF TargetInv
<1>1. /\ game' = [game EXCEPT ![g] = v]
      /\ rose' = rose \cup {p \in Ids : Frequency(game', p) > Frequency(game, p)}
      /\ fell' = fell \cup {p \in Ids : Frequency(game', p) < Frequency(game, p)}
      /\ results' = results /\ failed' = failed /\ preset' = preset /\ limit' = limit
      /\ page' = page /\ cursor' = cursor /\ shown' = shown /\ routes' = routes /\ at' = at
      /\ common' = common /\ serving' = serving /\ yielded' = yielded
  BY DEF ImportGame, iteration
<1>2. \A p \in Ids : Frequency(game, p) \in Nat /\ Frequency(game', p) \in Nat /\ p \in Nat
  BY FrequencyIs
<1>3. ASSUME NEW p \in Ids, p \notin rose' PROVE Frequency(game', p) <= Frequency(game, p)
  <2>1. ~(Frequency(game', p) > Frequency(game, p))
    BY <1>1, <1>3
  <2> QED
    BY <1>2, <2>1
<1>4. ASSUME NEW p \in Ids, p \notin fell' PROVE Frequency(game, p) <= Frequency(game', p)
  <2>1. ~(Frequency(game', p) < Frequency(game, p))
    BY <1>1, <1>4
  <2> QED
    BY <1>2, <2>1
<1>5. /\ \A p : Target(p) = [position |-> p, frequency |-> Frequency(game, p)]
      /\ \A p : Target(p)' = [position |-> p, frequency |-> Frequency(game', p)]
  BY DEF Target
<1>6. (cursor # NoTarget => cursor \in AnyTarget) /\ (\A p : Passed(Target(p)) <=> cursor # NoTarget /\ ~Before(cursor, Target(p)))
      /\ (\A p : Passed(Target(p))' <=> cursor # NoTarget /\ ~Before(cursor, Target(p)'))
  BY <1>0, <1>1 DEF TargetTypes, Passed
<1>7. ASSUME NEW p \in Ids, p \notin rose', Passed(Target(p))' PROVE Passed(Target(p))
  BY <1>2, <1>3, <1>5, <1>6, <1>7, BeforeFalls
<1>8. ASSUME NEW p \in Ids, p \notin fell', Passed(Target(p)) PROVE Passed(Target(p))'
  BY <1>2, <1>4, <1>5, <1>6, <1>8, BeforeFalls
<1>9. ASSUME NEW p \in Held(game)', p \notin rose' PROVE p \in Held(game) \ rose
  <2>1. p \in Ids /\ Frequency(game', p) > 0
    BY <1>9 DEF Held
  <2>2. Frequency(game, p) > 0
    BY <1>2, <1>3, <1>9, <2>1
  <2> QED
    BY <1>1, <1>9, <2>1, <2>2 DEF Held
<1>10. (Open' <=> Open) /\ (Through' <=> Through) /\ InPage' = InPage /\ Offered' = Offered
  BY <1>1 DEF Open, Through, InPage, Offered
<1>11. TargetTypes'
  <2>1. game' \in [Games -> Variants \cup {<< >>}]
    BY <1>0, <1>1 DEF TargetTypes
  <2>2. rose' \in SUBSET Ids /\ fell' \in SUBSET Ids
    BY <1>0, <1>1 DEF TargetTypes
  <2> QED
    BY <1>0, <1>1, <2>1, <2>2 DEF TargetTypes
<1>12. Stages'
  BY <1>0, <1>1, <1>10 DEF Stages
<1>13. Covered'
  <2>1. ASSUME Open, NEW p \in Held(game)' \ rose', Passed(Target(p))' PROVE p \in shown' \cup InPage'
    <3>1. p \in Held(game) \ rose /\ p \in Ids
      BY <1>9, <2>1 DEF Held
    <3>2. Passed(Target(p))
      BY <1>7, <2>1, <3>1
    <3> QED
      BY <1>0, <1>1, <1>10, <2>1, <3>1, <3>2 DEF Covered
  <2>2. Through => Held(game)' \ rose' \subseteq shown'
    BY <1>0, <1>1, <1>9 DEF Covered
  <2>3. Through => RoutePositions \subseteq shown' \cup ToSet(routes') \cup Offered'
    BY <1>0, <1>1, <1>10 DEF Covered
  <2> QED
    BY <1>10, <2>1, <2>2, <2>3 DEF Covered
<1>14. Treated'
  BY <1>0, <1>1, <1>10 DEF Treated
<1>15. Seen'
  <2>1. ASSUME Open, NEW p \in (shown' \cup InPage') \ fell' PROVE Passed(Target(p))'
    <3>1. p \in (shown \cup InPage) \ fell
      BY <1>1, <1>10, <2>1
    <3>2. InPage \subseteq Ids
      <4>1. \A i \in DOMAIN page : page[i] \in AnyTarget
        BY <1>0 DEF TargetTypes
      <4> QED
        BY <4>1, AnyTargetIs DEF InPage
    <3>3. p \in Ids /\ Passed(Target(p))
      BY <1>0, <2>1, <3>1, <3>2 DEF Seen, TargetTypes
    <3> QED
      BY <1>8, <2>1, <3>3
  <2> QED
    BY <1>0, <1>1, <1>10, <2>1 DEF Seen
<1>16. RoutesApart' /\ Mixture'
  BY <1>0, <1>1, <1>10 DEF RoutesApart, Mixture
<1> QED
  BY <1>11, <1>12, <1>13, <1>14, <1>15, <1>16 DEF TargetInv

\* Nothing happens.
LEMMA TargetStutterKeeps == ASSUME TargetInv, UNCHANGED targeting PROVE TargetInv'
<1>0. TargetTypes /\ Stages /\ Covered /\ Treated /\ Seen /\ RoutesApart /\ Mixture
  BY DEF TargetInv
<1>1. /\ results' = results /\ game' = game /\ preset' = preset /\ limit' = limit
      /\ page' = page /\ cursor' = cursor /\ shown' = shown /\ routes' = routes /\ at' = at
      /\ common' = common /\ serving' = serving /\ yielded' = yielded
      /\ rose' = rose /\ fell' = fell /\ failed' = failed /\ imports' = imports
  BY DEF targeting, table, iteration, history
<1>2. /\ \A q : Passed(Target(q))' <=> Passed(Target(q))
      /\ Held(game)' = Held(game)
  BY <1>1, SamePages
<1>3. (Open' <=> Open) /\ (Through' <=> Through) /\ InPage' = InPage /\ Offered' = Offered
  BY <1>1 DEF Open, Through, InPage, Offered
<1>4. TargetTypes'
  BY <1>0, <1>1 DEF TargetTypes
<1>5. Stages'
  BY <1>0, <1>1, <1>3 DEF Stages
<1>6. Covered' /\ Treated'
  BY <1>0, <1>1, <1>2, <1>3 DEF Covered, Treated
<1>7. Seen'
  BY <1>0, <1>1, <1>2, <1>3 DEF Seen
<1>8. RoutesApart' /\ Mixture'
  BY <1>0, <1>1, <1>3 DEF RoutesApart, Mixture
<1> QED
  BY <1>4, <1>5, <1>6, <1>7, <1>8 DEF TargetInv

\* Every step preserves the invariant.
LEMMA TargetStep == TargetInv /\ [TargetNext]_targeting => TargetInv'
<1> SUFFICES ASSUME TargetInv, [TargetNext]_targeting PROVE TargetInv'
  OBVIOUS
<1>1. CASE \E initial \in BOOLEAN, most \in Limits : Begin(initial, most)
  BY <1>1, BeginKeeps
<1>2. CASE Iterate
  BY <1>2, LoadPageKeeps, PageTargetKeeps, RouteTargetKeeps, ExhaustedKeeps, ServeKeeps,
     ServedKeeps, EndKeeps DEF Iterate
<1>3. CASE \E g \in Games, v \in Variants : ImportGame(g, v)
  BY <1>3, ImportGameKeeps
<1>4. CASE \E p \in Ids : StoreResult(p)
  BY <1>4, StoreResultKeeps
<1>5. CASE UNCHANGED targeting
  BY <1>5, TargetStutterKeeps
<1> QED
  BY <1>1, <1>2, <1>3, <1>4, <1>5 DEF TargetNext

\* The invariant holds in every state of a launch.
LEMMA TargetInvariant == TargetSpec => []TargetInv
  BY TargetInitInv, TargetStep, PTL DEF TargetSpec

-----------------------------------------------------------------------------
(* What follows from it. *)

\* A sequence has no more members than places.
LEMMA NoMoreMembers ==
  ASSUME NEW S, NEW s \in Seq(S)
  PROVE  IsFiniteSet(ToSet(s)) /\ Cardinality(ToSet(s)) <= Len(s) /\ Cardinality(ToSet(s)) \in Nat
<1>1. Len(s) \in Nat /\ DOMAIN s = 1 .. Len(s)
  OBVIOUS
<1>2. \A n \in Nat : IsFiniteSet(1 .. n) /\ Cardinality(1 .. n) = n
  BY FS_Interval
<1>3. \A i \in 1 .. Len(s) : s[i] \in ToSet(s)
  BY <1>1 DEF ToSet
<1>4. \A x \in ToSet(s) : \E i \in 1 .. Len(s) : s[i] = x
  BY <1>1 DEF ToSet
<1> DEFINE f == [i \in 1 .. Len(s) |-> s[i]]
<1>5. f \in Surjection(1 .. Len(s), ToSet(s))
  BY <1>3, <1>4 DEF Surjection
<1> HIDE DEF f
<1>6. IsFiniteSet(ToSet(s)) /\ Cardinality(ToSet(s)) <= Len(s)
  BY <1>2, <1>5, FS_Surjection
<1> QED
  BY <1>6, FS_CardinalityType

\* The invariant says what TargetsAreRight says.
LEMMA TargetsFollow == TargetInv => TargetsAreRight
<1> SUFFICES ASSUME TargetInv PROVE TargetsAreRight
  OBVIOUS
<1>0. TargetTypes /\ Stages /\ Covered /\ Treated /\ Seen /\ RoutesApart /\ Mixture
  BY DEF TargetInv
<1>1. TargetTypeOK
  <2>1. /\ game \in [Games -> Variants \cup {<< >>}]
        /\ results \cup shown \cup rose \cup fell \cup failed \subseteq Ids
        /\ at \in {"off", "load", "page", "routes", "serve", "end", "error"}
        /\ limit \in Limits
    BY <1>0 DEF TargetTypes, TargetPoints
  <2>2. at = "page" => Len(page) \in 1 .. PageSize
    <3>1. page \in Seq(AnyTarget) /\ Len(page) <= PageSize
      BY <1>0 DEF TargetTypes
    <3>2. page # << >> => Len(page) \in Nat \ {0}
      BY <3>1
    <3> QED
      BY <1>0, <3>1, <3>2 DEF Stages
  <2>3. cursor \in {NoTarget} \cup [position : Ids, frequency : Nat \ {0}]
    BY <1>0 DEF TargetTypes, AnyTarget
  <2>4. ToSet(routes) \subseteq RoutePositions
    <3>1. routes \in Seq(RoutePositions)
      BY <1>0 DEF TargetTypes
    <3> QED
      BY <3>1 DEF ToSet
  <2>5. Len(common) <= CommonCount /\ (limit # NoLimit => yielded <= limit)
    BY <1>0 DEF Mixture, Stages
  <2> QED
    BY <2>1, <2>2, <2>3, <2>4, <2>5 DEF TargetTypeOK
<1>2. EndMeansDone
  <2> SUFFICES ASSUME at = "end", ~preset, limit = NoLimit
               PROVE  (Held(game) \cup RoutePositions) \ results \subseteq rose \cup failed
    BY DEF EndMeansDone
  <2>1. Through
    BY DEF Through
  <2>2. ToSet(routes) = {}
    BY <1>0, <2>1 DEF Stages, ToSet
  <2>3. Offered = results \cup failed
    BY DEF Offered
  <2> QED
    BY <1>0, <2>1, <2>2, <2>3 DEF Covered, Treated
<1>3. InitialMixture
  BY <1>0 DEF Mixture, InitialMixture
<1>4. ErrorMeansTooFew
  <2> SUFFICES ASSUME at = "error"
               PROVE  Cardinality((Held(game) \cup RoutePositions) \ (ToSet(Technical) \cup rose)) < CommonCount
    BY DEF ErrorMeansTooFew
  <2> DEFINE Missing == (Held(game) \cup RoutePositions) \ (ToSet(Technical) \cup rose)
  <2>1. Through /\ preset
    BY <1>0 DEF Through, Stages
  <2>2. ToSet(routes) = {}
    BY <1>0 DEF Stages, ToSet
  <2>3. Missing \subseteq ToSet(common)
    BY <1>0, <2>1, <2>2 DEF Covered, Treated, Offered
  <2> HIDE DEF Missing
  <2>4. common \in Seq(Ids) /\ Len(common) < CommonCount
    BY <1>0 DEF TargetTypes, Mixture
  <2>5. /\ IsFiniteSet(ToSet(common)) /\ Cardinality(ToSet(common)) <= Len(common)
        /\ Cardinality(ToSet(common)) \in Nat
    BY <2>4, NoMoreMembers
  <2>6. Cardinality(Missing) \in Nat /\ Cardinality(Missing) <= Cardinality(ToSet(common))
    BY <2>3, <2>5, FS_Subset, FS_CardinalityType
  <2>7. Len(common) \in Nat
    BY <2>4
  <2>8. Cardinality(Missing) < CommonCount
    BY <2>4, <2>5, <2>6, <2>7
  <2> QED
    BY <2>8 DEF Missing
<1> QED
  BY <1>1, <1>2, <1>3, <1>4 DEF TargetsAreRight

\* Whatever is imported, corrected or published between two pages: a launch that ran
\* through has left out no position of a game or a route, but those that rose or
\* failed (targets.py:145, 148); the initial preset serves its mixture (327), and
\* fails only when there are too few common positions (333).
THEOREM TargetsStayRight == TargetSpec => []TargetsAreRight
  BY TargetInvariant, TargetsFollow, PTL

\* One step of an iteration.
NoRepeat ==
  /\ (at = "page" /\ page # page') =>
       (Head(page).position \in shown => Head(page).position \in fell)
  /\ (at = "routes" /\ routes # routes') => Head(routes) \notin shown

\* No launch offers a position twice that did not become rarer meanwhile
\* (targets.py:138, 152).
THEOREM RepeatsOnlyByFalling == TargetSpec => RepeatedOnlyByFalling
<1>1. ASSUME TargetInv, TargetNext PROVE NoRepeat
  <2>0. TargetTypes /\ Stages /\ Seen /\ RoutesApart
    BY <1>1 DEF TargetInv
  <2>1. ASSUME at = "page", Head(page).position \in shown PROVE Head(page).position \in fell
    <3>1. page \in Seq(AnyTarget) /\ page # << >>
      BY <2>0, <2>1 DEF TargetTypes, Stages
    <3>2. Head(page) = page[1] /\ 1 \in DOMAIN page
      BY <3>1, HeadAndTail
    <3> QED
      BY <2>0, <2>1, <3>2 DEF Seen
  <2>2. ASSUME at = "routes", routes # routes' PROVE Head(routes) \notin shown
    <3>1. routes # << >>
      BY <1>1, <2>2 DEF TargetNext, Iterate, Begin, LoadPage, PageTarget, RouteTarget, Exhausted,
         Serve, Served, End, ImportGame, StoreResult, iteration
    <3>2. routes \in Seq(RoutePositions)
      BY <2>0 DEF TargetTypes
    <3>3. Head(routes) = routes[1] /\ 1 \in DOMAIN routes
      BY <3>1, <3>2, HeadAndTail
    <3>4. Head(routes) \in ToSet(routes)
      BY <3>3 DEF ToSet
    <3> QED
      BY <2>0, <2>2, <3>4 DEF RoutesApart
  <2> QED
    BY <2>1, <2>2 DEF NoRepeat
<1>2. TargetInv /\ [TargetNext]_targeting => [NoRepeat]_targeting
  BY <1>1
<1> QED
  BY <1>2, TargetInvariant, PTL DEF TargetSpec, RepeatedOnlyByFalling, NoRepeat

================================================================================
