------------------------ MODULE StockfishLaunchesProofs ------------------------
(***************************************************************************)
(* Launches, their mutex and their queue together, for every number of     *)
(* processes, positions, tokens, faults and interrupts.  The steps of the  *)
(* queue are those proved about in AnalysisQueueProofs; what is proved     *)
(* here is how the launches use it and the mutex: where a process is tells *)
(* what it has of the mutex, so at most one launch is inside, and only a   *)
(* launch inside touches a ticket.                                         *)
(***************************************************************************)
EXTENDS StockfishLaunches, FiniteSetTheorems, TLAPS

P == INSTANCE AnalysisQueueProofs WITH Callers <- Workers

USE LaunchAssumption DEF LaunchAssumption, evars

-----------------------------------------------------------------------------
(* The components. *)

\* The queue of this module is the queue the proofs are about.
LEMMA SameTypes == Q!TypeOK <=> P!TypeOK
BY DEF Q!TypeOK, P!TypeOK, Q!Row, P!Row, Q!NoRow, P!NoRow, Q!Result, P!Result, Q!NoResult, P!NoResult,
       Q!Claims, P!Claims, Q!NoClaim, P!NoClaim, Q!Quality, P!Quality, Q!Version, P!Version

LEMMA SameStep == Q!Next => P!ApiNext
BY DEF P!ApiNext,
       Q!Next, P!Next, Q!Request, P!Request, Q!Enqueue, P!Enqueue, Q!Publish, P!Publish,
       Q!Claim, P!Claim, Q!Release, P!Release, Q!Fail, P!Fail, Q!Complete, P!Complete, Q!Drop,
       P!Drop, Q!Tick, P!Tick, Q!NeedsWork, P!NeedsWork, Q!Enqueued, P!Enqueued, Q!Live, P!Live,
       Q!NewRow, P!NewRow, Q!Higher, P!Higher, Q!Rank, P!Rank, Q!Published, P!Published,
       Q!NotSaved, P!NotSaved, Q!Fresh, P!Fresh, Q!Satisfies, P!Satisfies, Q!NoResult,
       P!NoResult, Q!ClaimRow, P!ClaimRow, Q!Claimable, P!Claimable, Q!Oldest, P!Oldest,
       Q!NotAfter, P!NotAfter, Q!FreshToken, P!FreshToken, Q!Running, P!Running, Q!Stale,
       P!Stale, Q!MayDrop, P!MayDrop, Q!ReleaseTicket, P!ReleaseTicket, Q!FailTicket,
       P!FailTicket, Q!CompleteTicket, P!CompleteTicket, Q!Owns, P!Owns, Q!Settled, P!Settled,
       Q!Requeued, P!Requeued, Q!NoClaim, P!NoClaim, Q!NoRow, P!NoRow, Q!Aged, P!Aged, Q!Older,
       P!Older, Q!Quality, P!Quality

LEMMA QueueKeeps ==
  ASSUME Q!TypeOK, Q!Next \/ UNCHANGED qvars
  PROVE  Q!TypeOK'
<1>1. P!QueueAssumption
  BY DEF P!QueueAssumption
<1>2. CASE Q!Next
  <2>1. P!TypeOK'
    BY <1>1, <1>2, SameTypes, SameStep, P!StepTypes
  <2> QED
    BY <2>1 DEF Q!TypeOK, P!TypeOK, Q!Row, P!Row, Q!NoRow, P!NoRow, Q!Result, P!Result, Q!NoResult, P!NoResult,
         Q!Claims, P!Claims, Q!NoClaim, P!NoClaim, Q!Quality, P!Quality, Q!Version, P!Version
<1>3. CASE UNCHANGED qvars
  BY <1>3 DEF qvars, Q!TypeOK
<1> QED
  BY <1>2, <1>3

\* As in DatabaseProofs: who believes to own the mutex owns it, and an abandoned
\* object stems from a death not yet reported.
MutexInv ==
  /\ M!TypeOK
  /\ M!BeliefIsOwnership
  /\ abandoned => orphaned

LEMMA MutexKeeps ==
  ASSUME MutexInv, M!Next \/ UNCHANGED mvars
  PROVE  MutexInv'
<1>1. NoProcess \notin Processes
  BY DEF Processes
<1> USE DEF MutexInv, M!TypeOK, M!BeliefIsOwnership
<1>2. ASSUME NEW p \in Processes, M!Open(p) PROVE MutexInv'
  BY <1>1, <1>2 DEF M!Open
<1>7. ASSUME NEW p \in Processes, M!Acquire(p) PROVE MutexInv'
  BY <1>1, <1>7 DEF M!Acquire
<1>3. ASSUME NEW p \in Processes, M!Busy(p) \/ M!WaitFails(p) PROVE MutexInv'
  BY <1>1, <1>3 DEF M!Busy, M!WaitFails, M!CloseHandle, M!HandleElsewhere
<1>4. ASSUME NEW p \in Processes, M!Release(p) PROVE MutexInv'
  BY <1>1, <1>4 DEF M!Release, M!CloseHandle, M!HandleElsewhere
<1>5. ASSUME NEW p \in Processes, M!Crash(p) PROVE MutexInv'
  BY <1>1, <1>5 DEF M!Crash, M!CloseHandle, M!HandleElsewhere
<1>6. CASE UNCHANGED mvars
  BY <1>6 DEF mvars
<1> QED
  BY <1>2, <1>3, <1>4, <1>5, <1>6, <1>7 DEF M!Next

-----------------------------------------------------------------------------
(* The invariant. *)

Places == Stages \cup {"selected", "running"}

\* What a process at a place has of the mutex.
Status(place) ==
  IF place \in {"off", "selected"} THEN "closed" ELSE IF place = "opening" THEN "open" ELSE "owned"

TicketPlaces == InHand \cup {"releasing", "finishing"}

Shapes ==
  /\ pc \in [Processes -> Places] /\ engine \in [Processes -> BOOLEAN]
  /\ excluded \in [Workers -> SUBSET Positions]
  /\ target \in [Bulks -> Positions \cup {NoTarget}]

Held == \A i \in Processes : instance[i] = Status(pc[i])

EnginesInside ==
  \A i \in Processes : engine[i] => pc[i] \notin {"off", "selected", "opening", "unlocking"}

Tickets == \A w \in Workers : claim[w] # Q!NoClaim => pc[w] \in TicketPlaces

LInv ==
  /\ Q!TypeOK /\ MutexInv /\ Shapes
  /\ Held /\ EnginesInside /\ Tickets /\ WorkStaysOwned

\* At most one process is inside.
LEMMA OneInside ==
  ASSUME LInv, NEW i \in Processes, NEW j \in Processes, Status(pc[i]) = "owned", Status(pc[j]) = "owned"
  PROVE  i = j /\ owner = i
BY DEF LInv, Held, MutexInv, M!BeliefIsOwnership

LEMMA TicketOf ==
  ASSUME LInv, NEW w \in Workers, claim[w] # Q!NoClaim
  PROVE  claim[w].position \in Positions
BY DEF LInv, Q!TypeOK, Q!Claims

-----------------------------------------------------------------------------
(* What the steps do to the mutex and to the queue. *)

USE DEF Processes

LEMMA MutexStep ==
  ASSUME [Next]_vars
  PROVE  M!Next \/ UNCHANGED mvars
<1>1. ASSUME NEW w \in Workers, WorkerOpen(w) \/ WorkerStep(w)
      PROVE  M!Next \/ UNCHANGED mvars
  BY <1>1 DEF WorkerStep, WorkerOpen, WorkerAcquire, WorkerBusy, ClaimOldest, ClaimNone, ObserveDeadline,
       PollSleep, PollAgain, PollGiveUp, StartEngine, Analyzed, WorkFails, CompleteClaim,
       FailClaim, ReleaseClaim, FinishClaim, CloseEngine, ReleaseMutex, M!Next, mvars
<1>2. ASSUME NEW w \in Workers, WorkerMishap(w)
      PROVE  M!Next \/ UNCHANGED mvars
  BY <1>2 DEF WorkerMishap, WorkerWaitFails, ClaimRaises, FailRaises, ReleaseRaises, FinishRaises,
       InterruptClaim, ClaimLost, InterruptWork, InterruptHandler, InterruptFinally, M!Next, mvars
<1>3. ASSUME NEW b \in Bulks, BulkStep(b)
      PROVE  M!Next \/ UNCHANGED mvars
  BY <1>3 DEF BulkStep, BulkSelect, BulkOpen, BulkAcquire, BulkBusy, BulkWaitFails, BulkPublish,
       BulkFails, BulkNext, BulkStop, BulkInterrupted, CloseEngine, ReleaseMutex, M!Next, mvars
<1>4. ASSUME NEW i \in Processes, Crash(i)
      PROVE  M!Next \/ UNCHANGED mvars
  BY <1>4 DEF Crash, M!Next
<1>5. ASSUME NEW p \in Positions, NEW q \in Q!Quality, RequestAnalysis(p, q)
      PROVE  M!Next \/ UNCHANGED mvars
  BY <1>5 DEF RequestAnalysis, mvars
<1>6. CASE Tick \/ UNCHANGED vars
  BY <1>6 DEF Tick, vars, mvars
<1> QED
  BY <1>1, <1>2, <1>3, <1>4, <1>5, <1>6 DEF Next

-----------------------------------------------------------------------------
(* What a step of one process does to its place. *)

Outside == {"off", "selected", "opening", "unlocking"}

Dropped(i) == claim' \in {claim, [claim EXCEPT ![i] = Q!NoClaim]}

\* Process i goes from where it is to another place, and has there what it may
\* have: of the mutex, of the engine and of its ticket.
Goes(i, to, e) ==
  /\ to \in Places /\ e \in BOOLEAN
  /\ pc' = [pc EXCEPT ![i] = to]
  /\ engine' = [engine EXCEPT ![i] = e]
  /\ instance' = [instance EXCEPT ![i] = Status(to)]
  /\ e => to \notin Outside
  /\ excluded' \in [Workers -> SUBSET Positions]
  /\ target' \in [Bulks -> Positions \cup {NoTarget}]

\* It keeps its ticket, or lets go of it, or gets one.
Hands(i, to) ==
  \/ /\ Dropped(i) /\ queue' = queue
     /\ i \in Workers => /\ claim'[i] # Q!NoClaim => to \in TicketPlaces
                         /\ to \in InHand => pc[i] \in InHand /\ claim' = claim
  \/ /\ Dropped(i) /\ Status(pc[i]) = "owned" /\ to \notin InHand
     /\ i \in Workers => (claim'[i] # Q!NoClaim => to \in TicketPlaces)
  \/ i \in Workers /\ ClaimOldest(i) /\ to = "working"

LEMMA Same ==
  ASSUME LInv, NEW i \in Processes
  PROVE  /\ engine = [engine EXCEPT ![i] = engine[i]]
         /\ engine[i] \in BOOLEAN
         /\ \A to \in Places : Status(to) = Status(pc[i]) =>
              instance = [instance EXCEPT ![i] = Status(to)]
         /\ excluded \in [Workers -> SUBSET Positions]
         /\ target \in [Bulks -> Positions \cup {NoTarget}]
         /\ claim \in [Workers -> Q!Claims \cup {Q!NoClaim}]
         /\ engine[i] => pc[i] \notin Outside
         /\ i \in Workers /\ claim[i] # Q!NoClaim => pc[i] \in TicketPlaces
<1>1. instance \in [Processes -> {"closed", "open", "owned"}] /\ instance[i] = Status(pc[i])
  BY DEF LInv, MutexInv, M!TypeOK, Held
<1>2. \A to \in Places : Status(to) = Status(pc[i]) => instance = [instance EXCEPT ![i] = Status(to)]
  BY <1>1
<1> QED
  BY <1>2 DEF LInv, Shapes, EnginesInside, Tickets, Outside, Q!TypeOK

LEMMA WorkerStarts ==
  ASSUME LInv, NEW i \in Workers
  PROVE  /\ WorkerOpen(i) => Goes(i, "opening", engine[i]) /\ Hands(i, "opening")
         /\ WorkerAcquire(i) => Goes(i, "claiming", engine[i]) /\ Hands(i, "claiming")
         /\ WorkerBusy(i) => Goes(i, "off", engine[i]) /\ Hands(i, "off")
         /\ WorkerWaitFails(i) => Goes(i, "off", engine[i]) /\ Hands(i, "off")
<1> USE Same DEF Goes, Hands, Dropped, Move, Places, Stages, TicketPlaces, InHand, Outside, qvars, wvars, bvars, Status
<1>1. ASSUME WorkerOpen(i) PROVE Goes(i, "opening", engine[i]) /\ Hands(i, "opening")
  BY <1>1 DEF WorkerOpen, M!Open
<1>2. ASSUME WorkerAcquire(i) PROVE Goes(i, "claiming", engine[i]) /\ Hands(i, "claiming")
  BY <1>2 DEF WorkerAcquire, M!Acquire
<1>3. ASSUME WorkerBusy(i) PROVE Goes(i, "off", engine[i]) /\ Hands(i, "off")
  BY <1>3 DEF WorkerBusy, M!Busy, M!CloseHandle
<1>4. ASSUME WorkerWaitFails(i) PROVE Goes(i, "off", engine[i]) /\ Hands(i, "off")
  BY <1>4 DEF WorkerWaitFails, M!WaitFails, M!CloseHandle
<1> QED
  BY <1>1, <1>2, <1>3, <1>4

LEMMA WorkerClaims ==
  ASSUME LInv, NEW i \in Workers
  PROVE  /\ ClaimRaises(i) => Goes(i, "finishing", engine[i]) /\ Hands(i, "finishing")
         /\ InterruptClaim(i) => Goes(i, "finishing", engine[i]) /\ Hands(i, "finishing")
         /\ ClaimLost(i) => Goes(i, "finishing", engine[i]) /\ Hands(i, "finishing")
         /\ PollSleep(i) => Goes(i, "sleeping", engine[i]) /\ Hands(i, "sleeping")
         /\ PollAgain(i) => Goes(i, "polling", engine[i]) /\ Hands(i, "polling")
         /\ PollGiveUp(i) => Goes(i, "finishing", engine[i]) /\ Hands(i, "finishing")
<1> USE Same DEF Goes, Hands, Dropped, Move, Places, Stages, TicketPlaces, InHand, Outside, qvars, wvars, bvars, mvars, Status
<1>1. ASSUME ClaimRaises(i) PROVE Goes(i, "finishing", engine[i]) /\ Hands(i, "finishing")
  BY <1>1 DEF ClaimRaises, CallsClaim, SetVerdict
<1>2. ASSUME InterruptClaim(i) PROVE Goes(i, "finishing", engine[i]) /\ Hands(i, "finishing")
  BY <1>2 DEF InterruptClaim, SetVerdict
<1>3. ASSUME ClaimLost(i) PROVE Goes(i, "finishing", engine[i]) /\ Hands(i, "finishing")
  BY <1>3 DEF ClaimLost, SetVerdict
<1>4. ASSUME PollSleep(i) PROVE Goes(i, "sleeping", engine[i]) /\ Hands(i, "sleeping")
  BY <1>4 DEF PollSleep
<1>5. ASSUME PollAgain(i) PROVE Goes(i, "polling", engine[i]) /\ Hands(i, "polling")
  BY <1>5 DEF PollAgain
<1>6. ASSUME PollGiveUp(i) PROVE Goes(i, "finishing", engine[i]) /\ Hands(i, "finishing")
  BY <1>6 DEF PollGiveUp
<1> QED
  BY <1>1, <1>2, <1>3, <1>4, <1>5, <1>6

LEMMA ClaimGoes ==
  ASSUME LInv, NEW i \in Workers, ClaimOldest(i)
  PROVE  Goes(i, "working", engine[i]) /\ Hands(i, "working")
BY Same DEF ClaimOldest, CallsClaim, Goes, Hands, Places, Stages, InHand, Outside, Status, mvars, bvars

LEMMA ClaimNoneGoes ==
  ASSUME LInv, NEW i \in Workers, ClaimNone(i)
  PROVE  \E to \in Places : Goes(i, to, engine[i]) /\ Hands(i, to)
<1> USE Same DEF ClaimNone, Goes, Hands, Dropped, Move, Places, Stages, TicketPlaces, InHand, Outside, qvars, wvars, bvars, mvars, Status
<1>1. CASE recovered[i]
  <2>1. Goes(i, "observing", engine[i]) /\ Hands(i, "observing")
    BY <1>1
  <2> QED
    BY <2>1
<1>2. CASE ~recovered[i]
  <2>1. Goes(i, "finishing", engine[i]) /\ Hands(i, "finishing")
    BY <1>2
  <2> QED
    BY <2>1
<1> QED
  BY <1>1, <1>2

LEMMA ObserveGoes ==
  ASSUME LInv, NEW i \in Workers, ObserveDeadline(i)
  PROVE  \E to \in Places : Goes(i, to, engine[i]) /\ Hands(i, to)
<1>1. \/ pc' = [pc EXCEPT ![i] = "polling"]
      \/ pc' = [pc EXCEPT ![i] = "finishing"]
  BY Zenon DEF ObserveDeadline
<1>2. pc[i] = "observing" /\ UNCHANGED <<qvars, mvars, engine, excluded, bvars>>
  BY DEF ObserveDeadline
<1> USE <1>2, Same DEF Goes, Hands, Dropped, Places, Stages, TicketPlaces, InHand, Outside, qvars, bvars, mvars, Status
<1>3. CASE pc' = [pc EXCEPT ![i] = "polling"]
  <2>1. Goes(i, "polling", engine[i]) /\ Hands(i, "polling")
    BY <1>3
  <2> QED
    BY <2>1
<1>4. CASE pc' = [pc EXCEPT ![i] = "finishing"]
  <2>1. Goes(i, "finishing", engine[i]) /\ Hands(i, "finishing")
    BY <1>4
  <2> QED
    BY <2>1
<1> QED
  BY <1>1, <1>3, <1>4

LEMMA WorkerWorks ==
  ASSUME LInv, NEW i \in Workers
  PROVE  /\ StartEngine(i) => Goes(i, "analyzing", TRUE) /\ Hands(i, "analyzing")
         /\ Analyzed(i) => Goes(i, "completing", engine[i]) /\ Hands(i, "completing")
         /\ WorkFails(i) => Goes(i, "failing", (engine[i] /\ pc[i] # "analyzing")) /\ Hands(i, "failing")
         /\ CompleteClaim(i) => Goes(i, "claiming", engine[i]) /\ Hands(i, "claiming")
         /\ FailClaim(i) => Goes(i, "claiming", engine[i]) /\ Hands(i, "claiming")
         /\ FailRaises(i) => Goes(i, "claiming", engine[i]) /\ Hands(i, "claiming")
         /\ InterruptWork(i) => Goes(i, "releasing", (engine[i] /\ pc[i] # "analyzing")) /\ Hands(i, "releasing")
         /\ InterruptHandler(i) => Goes(i, "finishing", engine[i]) /\ Hands(i, "finishing")
         /\ ReleaseClaim(i) => Goes(i, "finishing", engine[i]) /\ Hands(i, "finishing")
         /\ ReleaseRaises(i) => Goes(i, "finishing", engine[i]) /\ Hands(i, "finishing")
<1> USE Same DEF Goes, Hands, Dropped, Move, Places, Stages, TicketPlaces, InHand, Outside, qvars, wvars, bvars, mvars, Status
<1>1. ASSUME StartEngine(i) PROVE Goes(i, "analyzing", TRUE) /\ Hands(i, "analyzing")
  BY <1>1 DEF StartEngine
<1>2. ASSUME Analyzed(i) PROVE Goes(i, "completing", engine[i]) /\ Hands(i, "completing")
  BY <1>2 DEF Analyzed
<1>3. ASSUME WorkFails(i) PROVE Goes(i, "failing", (engine[i] /\ pc[i] # "analyzing")) /\ Hands(i, "failing")
  <2>1. claim[i].position \in Positions
    BY <1>3, TicketOf DEF WorkFails, LInv, WorkStaysOwned, Q!Owns
  <2>2. excluded' \in [Workers -> SUBSET Positions]
    BY <1>3, <2>1 DEF WorkFails
  <2> QED
    BY <1>3, <2>2 DEF WorkFails
<1>4. ASSUME CompleteClaim(i) PROVE Goes(i, "claiming", engine[i]) /\ Hands(i, "claiming")
  BY <1>4 DEF CompleteClaim
<1>5. ASSUME FailClaim(i) PROVE Goes(i, "claiming", engine[i]) /\ Hands(i, "claiming")
  BY <1>5 DEF FailClaim
<1>6. ASSUME FailRaises(i) PROVE Goes(i, "claiming", engine[i]) /\ Hands(i, "claiming")
  BY <1>6 DEF FailRaises
<1>7. ASSUME InterruptWork(i) PROVE Goes(i, "releasing", (engine[i] /\ pc[i] # "analyzing")) /\ Hands(i, "releasing")
  BY <1>7 DEF InterruptWork
<1>8. ASSUME InterruptHandler(i) PROVE Goes(i, "finishing", engine[i]) /\ Hands(i, "finishing")
  BY <1>8 DEF InterruptHandler
<1>9. ASSUME ReleaseClaim(i) PROVE Goes(i, "finishing", engine[i]) /\ Hands(i, "finishing")
  BY <1>9 DEF ReleaseClaim
<1>10. ASSUME ReleaseRaises(i) PROVE Goes(i, "finishing", engine[i]) /\ Hands(i, "finishing")
  BY <1>10 DEF ReleaseRaises
<1> QED
  BY <1>1, <1>2, <1>3, <1>4, <1>5, <1>6, <1>7, <1>8, <1>9, <1>10

LEMMA WorkerEnds ==
  ASSUME LInv, NEW i \in Workers
  PROVE  /\ FinishClaim(i) => Goes(i, "closing", engine[i]) /\ Hands(i, "closing")
         /\ FinishRaises(i) => Goes(i, "closing", engine[i]) /\ Hands(i, "closing")
         /\ InterruptFinally(i) => Goes(i, "off", FALSE) /\ Hands(i, "off")
<1> USE Same DEF Goes, Hands, Dropped, Move, Places, Stages, TicketPlaces, InHand, Outside, qvars, wvars, bvars, mvars, Status
<1>1. ASSUME FinishClaim(i) PROVE Goes(i, "closing", engine[i]) /\ Hands(i, "closing")
  BY <1>1 DEF FinishClaim
<1>2. ASSUME FinishRaises(i) PROVE Goes(i, "closing", engine[i]) /\ Hands(i, "closing")
  BY <1>2 DEF FinishRaises
<1>3. ASSUME InterruptFinally(i) PROVE Goes(i, "off", FALSE) /\ Hands(i, "off")
  <2>1. instance' = [instance EXCEPT ![i] = "closed"]
    BY <1>3 DEF InterruptFinally, M!Release, M!Crash, M!CloseHandle
  <2> QED
    BY <1>3, <2>1 DEF InterruptFinally
<1> QED
  BY <1>1, <1>2, <1>3

LEMMA AllEnd ==
  ASSUME LInv, NEW i \in Processes
  PROVE  /\ CloseEngine(i) => Goes(i, "unlocking", FALSE) /\ Hands(i, "unlocking")
         /\ ReleaseMutex(i) => Goes(i, "off", engine[i]) /\ Hands(i, "off")
         /\ Crash(i) => Goes(i, "off", FALSE) /\ Hands(i, "off")
<1> USE Same DEF Goes, Hands, Dropped, Move, Places, Stages, TicketPlaces, InHand, Outside, qvars, wvars, bvars, mvars, Status
<1>1. ASSUME CloseEngine(i) PROVE Goes(i, "unlocking", FALSE) /\ Hands(i, "unlocking")
  BY <1>1 DEF CloseEngine
<1>2. ASSUME ReleaseMutex(i) PROVE Goes(i, "off", engine[i]) /\ Hands(i, "off")
  BY <1>2 DEF ReleaseMutex, M!Release, M!CloseHandle
<1>3. ASSUME Crash(i) PROVE Goes(i, "off", FALSE) /\ Hands(i, "off")
  BY <1>3 DEF Crash, M!Crash, M!CloseHandle
<1> QED
  BY <1>1, <1>2, <1>3

LEMMA BulkWorks ==
  ASSUME LInv, NEW i \in Bulks
  PROVE  /\ BulkSelect(i) => Goes(i, "selected", engine[i]) /\ Hands(i, "selected")
         /\ BulkOpen(i) => Goes(i, "opening", engine[i]) /\ Hands(i, "opening")
         /\ BulkAcquire(i) => Goes(i, "running", TRUE) /\ Hands(i, "running")
         /\ BulkBusy(i) => Goes(i, "off", engine[i]) /\ Hands(i, "off")
         /\ BulkWaitFails(i) => Goes(i, "off", engine[i]) /\ Hands(i, "off")
         /\ BulkStop(i) => Goes(i, "closing", engine[i]) /\ Hands(i, "closing")
         /\ BulkInterrupted(i) =>
              \/ Goes(i, "closing", engine[i]) /\ Hands(i, "closing")
              \/ Goes(i, "unlocking", FALSE) /\ Hands(i, "unlocking")
              \/ Goes(i, "off", engine[i]) /\ Hands(i, "off")
<1> USE Same DEF Goes, Hands, Dropped, Move, Places, Stages, TicketPlaces, InHand, Outside, qvars, wvars, bvars, mvars, Status
<1>1. ASSUME BulkSelect(i) PROVE Goes(i, "selected", engine[i]) /\ Hands(i, "selected")
  BY <1>1 DEF BulkSelect
<1>2. ASSUME BulkOpen(i) PROVE Goes(i, "opening", engine[i]) /\ Hands(i, "opening")
  BY <1>2 DEF BulkOpen, M!Open
<1>3. ASSUME BulkAcquire(i) PROVE Goes(i, "running", TRUE) /\ Hands(i, "running")
  BY <1>3 DEF BulkAcquire, M!Acquire
<1>4. ASSUME BulkBusy(i) PROVE Goes(i, "off", engine[i]) /\ Hands(i, "off")
  BY <1>4 DEF BulkBusy, M!Busy, M!CloseHandle
<1>5. ASSUME BulkWaitFails(i) PROVE Goes(i, "off", engine[i]) /\ Hands(i, "off")
  BY <1>5 DEF BulkWaitFails, M!WaitFails, M!CloseHandle
<1>6. ASSUME BulkStop(i) PROVE Goes(i, "closing", engine[i]) /\ Hands(i, "closing")
  BY <1>6 DEF BulkStop
<1>7. ASSUME BulkInterrupted(i)
      PROVE  \/ Goes(i, "closing", engine[i]) /\ Hands(i, "closing")
             \/ Goes(i, "unlocking", FALSE) /\ Hands(i, "unlocking")
             \/ Goes(i, "off", engine[i]) /\ Hands(i, "off")
  <2>1. UNCHANGED <<qvars, excluded>> /\ target' \in [Bulks -> Positions \cup {NoTarget}]
    BY <1>7 DEF BulkInterrupted
  <2>2. CASE pc[i] = "running" /\ Move(i, "running", "closing") /\ UNCHANGED <<engine, mvars>>
    BY <2>1, <2>2
  <2>3. CASE /\ Move(i, "closing", "unlocking")
             /\ engine' = [engine EXCEPT ![i] = FALSE]
             /\ UNCHANGED mvars
    BY <2>1, <2>3
  <2>4. CASE Move(i, "unlocking", "off") /\ UNCHANGED engine /\ (M!Release(i) \/ M!Crash(i))
    BY <2>1, <2>4 DEF M!Release, M!Crash, M!CloseHandle
  <2> QED
    BY <1>7, <2>2, <2>3, <2>4 DEF BulkInterrupted
<1> QED
  BY <1>1, <1>2, <1>3, <1>4, <1>5, <1>6, <1>7

\* Running rows stay running, with their tokens, and no other row starts to run.
RowsKept ==
  \A p \in Positions :
    /\ queue'[p].state = "running" <=> queue[p].state = "running"
    /\ queue[p].state = "running" => queue'[p].token = queue[p].token

Still ==
  /\ UNCHANGED <<pc, engine, instance, claim, excluded>>
  /\ target' \in [Bulks -> Positions \cup {NoTarget}]
  /\ RowsKept

ActsAlone(i) == \E to \in Places, e \in BOOLEAN : Goes(i, to, e) /\ Hands(i, to)

Acts == \E i \in Processes : ActsAlone(i)

LEMMA ActsAs ==
  ASSUME NEW i \in Processes, NEW to, NEW e, Goes(i, to, e), Hands(i, to)
  PROVE  ActsAlone(i)
BY Zenon DEF ActsAlone, Goes

LEMMA BulkStays ==
  ASSUME LInv, NEW b \in Bulks, BulkPublish(b) \/ BulkFails(b) \/ BulkNext(b)
  PROVE  Still
BY DEF BulkPublish, BulkFails, BulkNext, Still, RowsKept, LInv, Shapes, Q!Publish, qvars, mvars, wvars

LEMMA RequestKeeps ==
  ASSUME LInv, NEW p \in Positions, NEW q \in Q!Quality, RequestAnalysis(p, q)
  PROVE  Still
<1>1. P!GoodRow(queue[p]) /\ queue \in [Positions -> Q!Row \cup {Q!NoRow}]
  BY SameTypes, P!TypeOKRows DEF LInv, P!GoodRows, Q!TypeOK
<1>2. /\ Q!Enqueued(queue[p], q).state = "running" <=> queue[p].state = "running"
      /\ queue[p].state = "running" => Q!Enqueued(queue[p], q).token = queue[p].token
  <2>1. q \in P!Quality /\ Q!Enqueued(queue[p], q) = P!Enqueued(queue[p], q)
    BY DEF Q!Quality, P!Quality, Q!Enqueued, P!Enqueued, Q!Live, P!Live, Q!NewRow, P!NewRow,
           Q!Higher, P!Higher, Q!Rank, P!Rank
  <2> QED
    BY <1>1, <2>1, P!EnqueuedKeeps
<1>3. RowsKept
  BY <1>1, <1>2 DEF RequestAnalysis, Q!Request, RowsKept
<1> QED
  BY <1>3 DEF RequestAnalysis, Q!Request, Still, LInv, Shapes, mvars, wvars, bvars

LEMMA TickKeeps ==
  ASSUME LInv, Tick
  PROVE  Still
<1>1. \A p \in Positions : P!GoodRow(queue[p])
  BY SameTypes, P!TypeOKRows DEF LInv, P!GoodRows
<1>2. P!QueueAssumption
  BY DEF P!QueueAssumption
<1>3. RowsKept
  <2> SUFFICES ASSUME NEW p \in Positions
               PROVE  queue'[p].state = queue[p].state /\ queue'[p].token = queue[p].token
    BY DEF RowsKept
  <2>1. queue'[p] = P!Aged(queue[p])
    BY DEF Tick, Q!Tick, Q!Aged, P!Aged, Q!Live, P!Live, Q!Older, P!Older
  <2> QED
    BY <1>1, <1>2, <2>1, P!AgedIsGood
<1> QED
  BY <1>3 DEF Tick, Q!Tick, Still, LInv, Shapes, mvars, bvars

LEMMA WorkerActs ==
  ASSUME LInv, NEW i \in Workers, WorkerOpen(i) \/ WorkerStep(i) \/ WorkerMishap(i)
  PROVE  ActsAlone(i)
<1>1. CASE WorkerOpen(i) \/ WorkerStep(i)
  BY <1>1, WorkerStarts, WorkerClaims, WorkerWorks, WorkerEnds, AllEnd, ClaimGoes, ClaimNoneGoes,
     ObserveGoes, ActsAs, Zenon DEF WorkerStep
<1>2. CASE WorkerMishap(i)
  BY <1>2, WorkerStarts, WorkerClaims, WorkerWorks, WorkerEnds, ActsAs, Zenon DEF WorkerMishap
<1> QED
  BY <1>1, <1>2

LEMMA StepActs ==
  ASSUME LInv, [Next]_vars
  PROVE  Acts \/ Still
<1>1. ASSUME NEW i \in Workers, WorkerOpen(i) \/ WorkerStep(i) \/ WorkerMishap(i)
      PROVE  Acts
  BY <1>1, WorkerActs, Zenon DEF Acts, ActsAlone
<1>3. ASSUME NEW i \in Bulks, BulkStep(i)
      PROVE  Acts \/ Still
  BY <1>3, BulkWorks, BulkStays, AllEnd, ActsAs, Zenon DEF BulkStep, Acts, ActsAlone
<1>4. ASSUME NEW i \in Processes, Crash(i)
      PROVE  Acts
  BY <1>4, AllEnd, ActsAs, Zenon DEF Acts, ActsAlone
<1>5. CASE UNCHANGED vars
  BY <1>5 DEF vars, mvars, qvars, wvars, bvars, Still, RowsKept, LInv, Shapes
<1> QED
  BY <1>1, <1>3, <1>4, <1>5, RequestKeeps, TickKeeps DEF Next

-----------------------------------------------------------------------------
(* The invariant is kept. *)

LEMMA InitLaunches == Init => LInv
<1> SUFFICES ASSUME Init PROVE LInv
  OBVIOUS
<1>1. Q!TypeOK
  BY DEF Init, Q!Init, Q!TypeOK, Q!NoRow
<1>2. MutexInv
  BY DEF Init, M!Init, MutexInv, M!TypeOK, M!BeliefIsOwnership
<1> QED
  BY <1>1, <1>2 DEF Init, M!Init, Q!Init, LInv, Shapes, Held, EnginesInside, Tickets, WorkStaysOwned, Places,
       Stages, Status, InHand

\* The ticket a claim hands out owns its row.
LEMMA ClaimOwns ==
  ASSUME LInv, NEW w \in Workers, ClaimOldest(w)
  PROVE  /\ Q!Owns(claim[w])'
         /\ \A d \in Workers \ {w} : claim'[d] = claim[d]
<1>1. claim[w] = Q!NoClaim
  BY DEF LInv, Tickets, ClaimOldest, CallsClaim, TicketPlaces, InHand
<1>2. PICK p \in Positions, t \in Tokens : Q!ClaimRow(w, p, t, excluded[w])
  BY DEF ClaimOldest
<1>3. queue \in [Positions -> Q!Row \cup {Q!NoRow}] /\ claim \in [Workers -> Q!Claims \cup {Q!NoClaim}]
  BY DEF LInv, Q!TypeOK
<1>4. Q!Live(queue[p])
  BY <1>2 DEF Q!ClaimRow, Q!Oldest, Q!Claimable, Q!Stale, Q!Live
<1>5. queue[p] \in Q!Row
  BY <1>3, <1>4 DEF Q!Live, Q!NoRow
<1>6. queue'[p].state = "running" /\ queue'[p].token = t
  BY <1>2, <1>3, <1>5 DEF Q!ClaimRow, Q!Running, Q!Row
<1>7. claim'[w] = [position |-> p, quality |-> queue[p].quality, token |-> t]
      /\ \A d \in Workers \ {w} : claim'[d] = claim[d]
  BY <1>2, <1>3 DEF Q!ClaimRow
<1>8. claim'[w] # Q!NoClaim
  BY <1>7 DEF Q!NoClaim
<1> QED
  BY <1>6, <1>7, <1>8 DEF Q!Owns

LEMMA StillKeeps ==
  ASSUME LInv, Still
  PROVE  Shapes' /\ Held' /\ EnginesInside' /\ Tickets' /\ WorkStaysOwned'
<1>1. Shapes' /\ Held' /\ EnginesInside' /\ Tickets'
  BY DEF Still, LInv, Shapes, Held, EnginesInside, Tickets
<1>2. ASSUME NEW w \in Workers, pc'[w] \in InHand
      PROVE  Q!Owns(claim[w])'
  <2>1. Q!Owns(claim[w]) /\ claim'[w] = claim[w]
    BY <1>2 DEF Still, LInv, WorkStaysOwned
  <2>2. claim[w].position \in Positions
    BY <2>1, TicketOf DEF Q!Owns
  <2> QED
    BY <2>1, <2>2 DEF Q!Owns, Still, RowsKept
<1> QED
  BY <1>1, <1>2 DEF WorkStaysOwned

LEMMA PlacesKeep ==
  ASSUME LInv, NEW i \in Processes, NEW to \in Places, NEW e \in BOOLEAN, Goes(i, to, e)
  PROVE  Shapes' /\ Held' /\ EnginesInside'
<1>1. pc \in [Processes -> Places] /\ engine \in [Processes -> BOOLEAN]
      /\ instance \in [Processes -> {"closed", "open", "owned"}]
  BY DEF LInv, Shapes, MutexInv, M!TypeOK
<1>2. Shapes'
  BY <1>1 DEF Goes, Shapes
<1>3. Held'
  BY <1>1 DEF Goes, LInv, Held
<1>4. EnginesInside'
  BY <1>1 DEF Goes, LInv, EnginesInside, Outside
<1> QED
  BY <1>2, <1>3, <1>4

LEMMA HandsKeep ==
  ASSUME LInv, NEW i \in Processes, NEW to \in Places, NEW e \in BOOLEAN, Goes(i, to, e), Hands(i, to)
  PROVE  Tickets' /\ WorkStaysOwned'
<1>1. pc' = [pc EXCEPT ![i] = to] /\ pc \in [Processes -> Places]
      /\ claim \in [Workers -> Q!Claims \cup {Q!NoClaim}]
  BY DEF Goes, LInv, Shapes, Q!TypeOK
<1>2. /\ \A d \in Workers \ {i} : claim'[d] = claim[d] /\ pc'[d] = pc[d]
      /\ i \in Workers => (claim'[i] # Q!NoClaim => to \in TicketPlaces)
  <2>1. CASE Dropped(i)
    <3>1. \A d \in Workers \ {i} : claim'[d] = claim[d] /\ pc'[d] = pc[d]
      BY <1>1, <2>1 DEF Dropped
    <3>2. i \in Workers /\ ClaimOldest(i) /\ to = "working" => to \in TicketPlaces
      BY DEF TicketPlaces, InHand
    <3> QED
      BY <3>1, <3>2 DEF Hands
  <2>2. CASE i \in Workers /\ ClaimOldest(i) /\ to = "working"
    BY <1>1, <2>2, ClaimOwns DEF TicketPlaces, InHand
  <2> QED
    BY <2>1, <2>2 DEF Hands
<1>3. Tickets'
  BY <1>1, <1>2 DEF Tickets, LInv
<1>4. ASSUME NEW w \in Workers, pc'[w] \in InHand
      PROVE  Q!Owns(claim[w])'
  <2>1. CASE i \in Workers /\ ClaimOldest(i) /\ to = "working"
    <3>1. CASE w = i
      BY <2>1, <3>1, ClaimOwns
    <3>2. CASE w # i
      <4>1. Status(pc[w]) = "owned" /\ Status(pc[i]) = "owned"
        BY <1>2, <1>4, <2>1, <3>2 DEF Status, InHand, ClaimOldest, CallsClaim
      <4> QED
        BY <3>2, <4>1, OneInside
    <3> QED
      BY <3>1, <3>2
  <2>2. CASE Dropped(i) /\ Status(pc[i]) = "owned" /\ to \notin InHand
    <3>1. w # i
      BY <1>1, <1>4, <2>2
    <3>2. Status(pc[w]) = "owned"
      BY <1>2, <1>4, <3>1 DEF Status, InHand
    <3> QED
      BY <2>2, <3>1, <3>2, OneInside
  <2>3. CASE queue' = queue /\ (i \in Workers => (to \in InHand => pc[i] \in InHand /\ claim' = claim))
    <3>1. pc[w] \in InHand /\ claim'[w] = claim[w]
      BY <1>1, <1>2, <1>4, <2>3
    <3>2. Q!Owns(claim[w])
      BY <3>1 DEF LInv, WorkStaysOwned
    <3> QED
      BY <2>3, <3>1, <3>2 DEF Q!Owns
  <2> QED
    BY <2>1, <2>2, <2>3 DEF Hands
<1> QED
  BY <1>3, <1>4 DEF WorkStaysOwned

-----------------------------------------------------------------------------
(* The launches use the queue as it is specified. *)

LEMMA ClaimIsClaim ==
  ASSUME LInv, NEW w \in Workers, ClaimOldest(w)
  PROVE  Q!Claim(w)
<1>1. claim[w] = Q!NoClaim
  BY DEF LInv, Tickets, ClaimOldest, CallsClaim, TicketPlaces, InHand
<1>2. excluded[w] \in SUBSET Positions
  BY DEF LInv, Shapes
<1> QED
  BY <1>1, <1>2, Zenon DEF ClaimOldest, Q!Claim

\* Letting go of a ticket, or of none.
LEMMA Letting ==
  ASSUME LInv, NEW w \in Workers, claim' = [claim EXCEPT ![w] = Q!NoClaim], UNCHANGED <<queue, results>>
  PROVE  Q!Drop(w) \/ UNCHANGED qvars
<1>1. CASE claim[w] = Q!NoClaim
  BY <1>1 DEF qvars, LInv, Q!TypeOK
<1>2. CASE claim[w] # Q!NoClaim
  BY <1>2 DEF Q!Drop
<1> QED
  BY <1>1, <1>2

Transaction(w) == Q!Claim(w) \/ Q!Release(w) \/ Q!Fail(w) \/ Q!Complete(w) \/ Q!Drop(w)

LEMMA WorkerQueueStep ==
  ASSUME LInv, NEW w \in Workers, WorkerOpen(w) \/ WorkerStep(w) \/ WorkerMishap(w)
  PROVE  Transaction(w) \/ UNCHANGED qvars
<1>1. CASE WorkerOpen(w) \/ WorkerAcquire(w) \/ WorkerBusy(w) \/ WorkerWaitFails(w)
  BY <1>1 DEF WorkerOpen, WorkerAcquire, WorkerBusy, WorkerWaitFails
<1>2. CASE ClaimOldest(w)
  BY <1>2, ClaimIsClaim DEF Transaction
<1>3. CASE ClaimNone(w) \/ ClaimRaises(w) \/ InterruptClaim(w) \/ ObserveDeadline(w) \/ PollSleep(w) \/ PollAgain(w) \/ PollGiveUp(w)
  BY <1>3, Zenon DEF ClaimNone, ClaimRaises, InterruptClaim, ObserveDeadline, PollSleep, PollAgain, PollGiveUp
<1>4. CASE StartEngine(w) \/ Analyzed(w) \/ WorkFails(w) \/ ReleaseRaises(w) \/ CloseEngine(w) \/ ReleaseMutex(w)
  BY <1>4, Zenon DEF StartEngine, Analyzed, WorkFails, ReleaseRaises, CloseEngine, ReleaseMutex
<1>5. CASE ClaimLost(w) \/ FailRaises(w) \/ FinishRaises(w)
  <2>1. claim' = [claim EXCEPT ![w] = Q!NoClaim] /\ UNCHANGED <<queue, results>>
    BY <1>5 DEF ClaimLost, FailRaises, FinishRaises
  <2> QED
    BY <2>1, Letting DEF Transaction
<1>6. CASE CompleteClaim(w) \/ FailClaim(w) \/ FinishClaim(w)
  BY <1>6 DEF CompleteClaim, FailClaim, FinishClaim, Transaction, Q!Complete, Q!Fail, Q!Release, Q!MayDrop
<1>7. CASE ReleaseClaim(w)
  <2>1. claim' \in {claim, [claim EXCEPT ![w] = Q!NoClaim]}
    BY <1>7 DEF ReleaseClaim, LInv, Q!TypeOK
  <2> QED
    BY <1>7, <2>1 DEF ReleaseClaim, Transaction, Q!Release, Q!MayDrop
<1>8. CASE InterruptWork(w) \/ InterruptHandler(w)
  <2>1. claim' = claim
    BY <1>8 DEF InterruptWork, InterruptHandler
  <2>2. \/ UNCHANGED <<queue, results>>
        \/ Q!CompleteTicket(claim[w]) \/ Q!FailTicket(claim[w]) \/ Q!ReleaseTicket(claim[w])
    BY <1>8, Zenon DEF InterruptWork, InterruptHandler
  <2> QED
    BY <2>1, <2>2 DEF Transaction, Q!Complete, Q!Fail, Q!Release, Q!MayDrop, qvars
<1>9. CASE InterruptFinally(w)
  <2>1. claim' = [claim EXCEPT ![w] = Q!NoClaim]
        /\ (UNCHANGED <<queue, results>> \/ Q!ReleaseTicket(claim[w]))
    BY <1>9 DEF InterruptFinally
  <2> QED
    BY <2>1, Letting DEF Transaction, Q!Release, Q!MayDrop
<1> QED
  BY <1>1, <1>2, <1>3, <1>4, <1>5, <1>6, <1>7, <1>8, <1>9, Zenon DEF WorkerStep, WorkerMishap

LEMMA BulkQueueStep ==
  ASSUME LInv, NEW b \in Bulks, BulkStep(b)
  PROVE  (\E p \in Positions : Q!Publish(p, "tool")) \/ UNCHANGED qvars
<1>1. CASE BulkPublish(b)
  BY <1>1 DEF BulkPublish, LInv, Shapes
<1>2. CASE BulkSelect(b) \/ BulkOpen(b) \/ BulkAcquire(b) \/ BulkBusy(b) \/ BulkWaitFails(b)
  BY <1>2, Zenon DEF BulkSelect, BulkOpen, BulkAcquire, BulkBusy, BulkWaitFails
<1>3. CASE BulkFails(b) \/ BulkNext(b) \/ BulkStop(b) \/ BulkInterrupted(b) \/ CloseEngine(b) \/ ReleaseMutex(b)
  BY <1>3, Zenon DEF BulkFails, BulkNext, BulkStop, BulkInterrupted, CloseEngine, ReleaseMutex
<1> QED
  BY <1>1, <1>2, <1>3, Zenon DEF BulkStep

LEMMA QueueStep ==
  ASSUME LInv, [Next]_vars
  PROVE  Q!Next \/ UNCHANGED qvars
<1>1. ASSUME NEW w \in Workers, Transaction(w)
      PROVE  Q!Next
  BY <1>1, Zenon DEF Transaction, Q!Next
<1>2. ASSUME NEW w \in Workers, WorkerOpen(w) \/ WorkerStep(w) \/ WorkerMishap(w)
      PROVE  Q!Next \/ UNCHANGED qvars
  BY <1>1, <1>2, WorkerQueueStep
<1>3. ASSUME NEW b \in Bulks, BulkStep(b)
      PROVE  Q!Next \/ UNCHANGED qvars
  BY <1>3, BulkQueueStep DEF Q!Next, Q!Quality
<1>4. ASSUME NEW i \in Processes, Crash(i)
      PROVE  Q!Next \/ UNCHANGED qvars
  <2>1. CASE i \in Workers
    <3>1. claim' = [claim EXCEPT ![i] = Q!NoClaim] /\ UNCHANGED <<queue, results>>
      BY <1>4, <2>1 DEF Crash
    <3> QED
      BY <1>1, <2>1, <3>1, Letting DEF Transaction
  <2>2. CASE i \notin Workers
    BY <1>4, <2>2 DEF Crash, qvars
  <2> QED
    BY <2>1, <2>2
<1>5. ASSUME NEW p \in Positions, NEW q \in Q!Quality, RequestAnalysis(p, q)
      PROVE  Q!Next
  BY <1>5 DEF RequestAnalysis, Q!Next
<1>6. CASE Tick \/ UNCHANGED vars
  BY <1>6 DEF Tick, vars, Q!Next
<1> QED
  BY <1>2, <1>3, <1>4, <1>5, <1>6 DEF Next

LEMMA StepLaunches ==
  ASSUME LInv, [Next]_vars
  PROVE  LInv'
<1>1. Q!TypeOK' /\ MutexInv'
  BY QueueStep, QueueKeeps, MutexStep, MutexKeeps DEF LInv
<1>2. Shapes' /\ Held' /\ EnginesInside' /\ Tickets' /\ WorkStaysOwned'
  <2>1. CASE Acts
    <3>1. PICK i \in Processes, to \in Places, e \in BOOLEAN : Goes(i, to, e) /\ Hands(i, to)
      BY <2>1, Zenon DEF Acts, ActsAlone
    <3> QED
      BY <3>1, PlacesKeep, HandsKeep
  <2> QED
    BY <2>1, StepActs, StillKeeps
<1> QED
  BY <1>1, <1>2 DEF LInv

THEOREM LaunchInvariant == Spec => []LInv
<1>1. Init => LInv
  BY InitLaunches
<1>2. LInv /\ [Next]_vars => LInv'
  BY StepLaunches
<1> QED
  BY <1>1, <1>2, PTL DEF Spec

-----------------------------------------------------------------------------
(* What a step costs: an engine is let go of only by a fault or an interrupt. *)

Costs ==
  \/ UNCHANGED <<survivors, budget>>
  \/ survivors' \in {survivors, survivors + 1} /\ (Fault \/ Interrupt)

LEMMA EndsCost ==
  ASSUME NEW i \in Processes, EngineEnds(i)
  PROVE  Costs
BY DEF EngineEnds, Costs

LEMMA LeftCosts ==
  ASSUME NEW i \in Processes, UNCHANGED survivors \/ EngineIsLeft(i), Fault \/ Interrupt
  PROVE  Costs
BY DEF EngineIsLeft, Costs

LEMMA WorkerCosts ==
  ASSUME NEW w \in Workers, WorkerOpen(w) \/ WorkerStep(w) \/ WorkerMishap(w)
  PROVE  Costs
<1>1. CASE WorkFails(w)
  BY <1>1, EndsCost DEF WorkFails, Costs
<1>2. CASE CloseEngine(w)
  BY <1>2, EndsCost DEF CloseEngine
<1>3. CASE InterruptWork(w)
  <2>1. (UNCHANGED survivors \/ EngineIsLeft(w)) /\ Interrupt
    BY <1>3, Zenon DEF InterruptWork
  <2> QED
    BY <2>1, LeftCosts
<1>4. CASE InterruptFinally(w)
  BY <1>4, LeftCosts DEF InterruptFinally
<1>5. CASE WorkerOpen(w) \/ WorkerAcquire(w) \/ WorkerBusy(w) \/ ClaimOldest(w) \/ ClaimNone(w)
           \/ ObserveDeadline(w) \/ PollSleep(w) \/ PollAgain(w) \/ PollGiveUp(w) \/ StartEngine(w)
           \/ Analyzed(w) \/ CompleteClaim(w) \/ FailClaim(w) \/ ReleaseClaim(w) \/ FinishClaim(w)
           \/ ReleaseMutex(w)
  <2>1. UNCHANGED survivors /\ UNCHANGED budget
    BY <1>5, Zenon DEF WorkerOpen, WorkerAcquire, WorkerBusy, ClaimOldest, ClaimNone, ObserveDeadline,
         PollSleep, PollAgain, PollGiveUp, StartEngine, Analyzed, CompleteClaim, FailClaim, ReleaseClaim,
         FinishClaim, ReleaseMutex
  <2> QED
    BY <2>1 DEF Costs
<1>6. CASE WorkerWaitFails(w) \/ ClaimRaises(w) \/ FailRaises(w) \/ ReleaseRaises(w) \/ FinishRaises(w)
           \/ InterruptClaim(w) \/ ClaimLost(w) \/ InterruptHandler(w)
  <2>1. UNCHANGED survivors /\ (Fault \/ Interrupt)
    BY <1>6, Zenon DEF WorkerWaitFails, ClaimRaises, FailRaises, ReleaseRaises, FinishRaises, InterruptClaim,
         ClaimLost, InterruptHandler
  <2> QED
    BY <2>1 DEF Costs
<1> QED
  BY <1>1, <1>2, <1>3, <1>4, <1>5, <1>6, Zenon DEF WorkerStep, WorkerMishap

LEMMA BulkCosts ==
  ASSUME NEW b \in Bulks, BulkStep(b)
  PROVE  Costs
<1>1. CASE BulkFails(b) \/ CloseEngine(b)
  BY <1>1, EndsCost DEF BulkFails, CloseEngine
<1>2. CASE BulkInterrupted(b)
  <2>1. EngineIsLeft(b) /\ Interrupt
    BY <1>2, Zenon DEF BulkInterrupted
  <2> QED
    BY <2>1, LeftCosts
<1>3. CASE BulkWaitFails(b)
  BY <1>3 DEF BulkWaitFails, Costs
<1>4. CASE BulkSelect(b) \/ BulkOpen(b) \/ BulkAcquire(b) \/ BulkBusy(b) \/ BulkPublish(b) \/ BulkNext(b)
           \/ BulkStop(b) \/ ReleaseMutex(b)
  <2>1. UNCHANGED survivors /\ UNCHANGED budget
    BY <1>4, Zenon DEF BulkSelect, BulkOpen, BulkAcquire, BulkBusy, BulkPublish, BulkNext, BulkStop, ReleaseMutex
  <2> QED
    BY <2>1 DEF Costs
<1> QED
  BY <1>1, <1>2, <1>3, <1>4, Zenon DEF BulkStep

LEMMA StepCosts ==
  ASSUME [Next]_vars
  PROVE  Costs
<1>1. ASSUME NEW i \in Processes, Crash(i)
      PROVE  Costs
  BY <1>1, LeftCosts DEF Crash
<1>2. ASSUME NEW p \in Positions, NEW q \in Q!Quality, RequestAnalysis(p, q)
      PROVE  Costs
  BY <1>2 DEF RequestAnalysis, Costs
<1>3. CASE Tick \/ UNCHANGED vars
  BY <1>3 DEF Tick, vars, Costs
<1> QED
  BY <1>1, <1>2, <1>3, WorkerCosts, BulkCosts DEF Next

LeftInv == survivors \in Nat /\ faults \in Nat /\ interrupts \in Nat /\ survivors <= faults + interrupts

-----------------------------------------------------------------------------
(* The theorems. *)

\* The engines launches hold exclude each other, however many worker and bulk
\* launches are started, die or are interrupted; and no more engines outlive the
\* launch they were started for than there were faults and interrupts.
THEOREM EnginesAreAlone == Spec => []EngineUnderMutex
<1>1. ASSUME LInv PROVE \A i \in Processes : engine[i] => owner = i
  BY <1>1 DEF LInv, EnginesInside, Held, Status, MutexInv, M!BeliefIsOwnership
<1>2. Init => LeftInv
  BY DEF Init, LeftInv
<1>3. LeftInv /\ [Next]_vars => LeftInv'
  BY StepCosts DEF LeftInv, Costs, Fault, Interrupt, budget
<1>4. LInv /\ LeftInv => EngineUnderMutex
  BY <1>1 DEF LeftInv, EngineUnderMutex
<1> QED
  BY <1>2, <1>3, <1>4, LaunchInvariant, PTL DEF Spec

\* A launch that works on a claim owns its row, however long the work takes:
\* the stale interval alone does not give this, the mutex does.
THEOREM WorkIsOwned == Spec => []WorkStaysOwned
<1>1. LInv => WorkStaysOwned
  BY DEF LInv
<1> QED
  BY <1>1, LaunchInvariant, PTL

\* Launches, with their crashes, interrupts and storage errors, implement the
\* queue's specification: what is proved of the queue holds of it in use.
THEOREM LaunchesImplementQueue == Spec => UsesQueueAsSpecified
<1>1. Init => Q!Init
  BY DEF Init
<1>2. LInv /\ [Next]_vars => [Q!Next]_(Q!vars)
  BY QueueStep DEF qvars, Q!vars
<1> QED
  BY <1>1, <1>2, LaunchInvariant, PTL DEF Spec, UsesQueueAsSpecified, Q!Spec

-----------------------------------------------------------------------------
(* Orphans.  That a completion takes the row away, and does not leave it   *)
(* running with nobody to finish it, rests on the queue's own invariant: a *)
(* ticket never outranks the row it owns.                                  *)

LEMMA SameOrphans ==
  ASSUME UNCHANGED <<queue, claim>>
  PROVE  Orphans' = Orphans
BY DEF Orphans, Q!Owns

LEMMA StillOrphans ==
  ASSUME LInv, Still
  PROVE  Orphans' \subseteq Orphans
<1> SUFFICES ASSUME NEW p \in Orphans' PROVE p \in Orphans
  OBVIOUS
<1>1. p \in Positions /\ queue[p].state = "running"
  BY DEF Orphans, Still, RowsKept
<1>2. ASSUME NEW w \in Workers, Q!Owns(claim[w]), claim[w].position = p
      PROVE  FALSE
  <2>1. Q!Owns(claim[w])'
    BY <1>1, <1>2 DEF Q!Owns, Still, RowsKept
  <2>2. claim'[w].position = p
    BY <1>2 DEF Still
  <2> QED
    BY <2>1, <2>2 DEF Orphans
<1> QED
  BY <1>1, <1>2 DEF Orphans

\* A ticket dropped from one hand orphans at most the row it is for.
LEMMA DropOrphans ==
  ASSUME LInv, NEW w \in Workers, UNCHANGED queue, claim' = [claim EXCEPT ![w] = Q!NoClaim]
  PROVE  Orphans' \subseteq Orphans \cup {claim[w].position}
<1>1. \A v \in Workers \ {w} : claim'[v] = claim[v]
  BY DEF LInv, Q!TypeOK
<1> QED
  BY <1>1 DEF Orphans, Q!Owns

LEMMA NotRunning ==
  ASSUME NEW row \in Q!Row, NEW k
  PROVE  Q!Requeued(row).state # "running" /\ Q!Settled(row, k).state # "running"
BY DEF Q!Requeued, Q!Settled, Q!Row, Q!NoRow

\* What an operation on a ticket does to its row, if it owns it.
LEMMA TicketEnds ==
  ASSUME LInv, P!QueueInv, NEW w \in Workers,
         Q!ReleaseTicket(claim[w]) \/ Q!FailTicket(claim[w]) \/ Q!CompleteTicket(claim[w])
  PROVE  /\ \A p \in Positions : (Q!Owns(claim[w]) /\ p = claim[w].position) \/ queue'[p] = queue[p]
         /\ Q!Owns(claim[w]) => queue'[claim[w].position].state # "running"
<1> DEFINE k == claim[w]
<1>1. queue \in [Positions -> Q!Row \cup {Q!NoRow}] /\ k \in Q!Claims \cup {Q!NoClaim}
  BY DEF LInv, Q!TypeOK
<1>2. CASE ~Q!Owns(k)
  BY <1>2 DEF Q!ReleaseTicket, Q!FailTicket, Q!CompleteTicket
<1>3. CASE Q!Owns(k)
  <2>1. k.position \in Positions
    BY <1>3, TicketOf DEF Q!Owns
  <2>2. queue[k.position] \in Q!Row
    <3>1. queue[k.position].state = "running"
      BY <1>3 DEF Q!Owns
    <3>2. queue[k.position] \in Q!Row \cup {Q!NoRow}
      BY <1>1, <2>1
    <3>3. Q!NoRow.state # "running"
      BY DEF Q!NoRow
    <3> QED
      BY <3>1, <3>2, <3>3
  <2>3. Q!Rank(queue[k.position].quality) >= Q!Rank(k.quality)
    <3>1. P!Owns(k)
      BY <1>3 DEF Q!Owns, P!Owns, Q!NoClaim, P!NoClaim
    <3>2. P!Rank(k.quality) <= P!Rank(queue[k.position].quality)
      BY <3>1 DEF P!QueueInv, P!ClaimNeverOutranksRow
    <3>3. Q!Rank(k.quality) <= Q!Rank(queue[k.position].quality)
      BY <3>2 DEF P!Rank, Q!Rank
    <3> QED
      BY <3>3 DEF Q!Rank
  <2>4. \/ queue' = [queue EXCEPT ![k.position] = Q!Requeued(@)]
        \/ queue' = [queue EXCEPT ![k.position] = Q!Settled(@, k.quality)]
    BY <1>3, <2>3 DEF Q!ReleaseTicket, Q!FailTicket, Q!CompleteTicket
  <2> QED
    BY <1>1, <1>3, <2>1, <2>2, <2>4, NotRunning
<1> QED
  BY <1>2, <1>3

LEMMA TicketOrphans ==
  ASSUME LInv, P!QueueInv, NEW w \in Workers, Dropped(w),
         Q!ReleaseTicket(claim[w]) \/ Q!FailTicket(claim[w]) \/ Q!CompleteTicket(claim[w])
  PROVE  Orphans' \subseteq Orphans
<1> SUFFICES ASSUME NEW p \in Orphans', p \notin Orphans PROVE FALSE
  OBVIOUS
<1>1. p \in Positions /\ queue'[p].state = "running" /\ queue'[p] = queue[p]
  BY TicketEnds DEF Orphans
<1>2. PICK v \in Workers : Q!Owns(claim[v]) /\ claim[v].position = p
  BY <1>1 DEF Orphans
<1>3. v # w
  BY <1>1, <1>2, TicketEnds
<1>4. claim'[v] = claim[v]
  BY <1>3 DEF Dropped, LInv, Q!TypeOK
<1> QED
  BY <1>1, <1>2, <1>4 DEF Orphans, Q!Owns

LEMMA ClaimOrphans ==
  ASSUME LInv, NEW w \in Workers, ClaimOldest(w)
  PROVE  Orphans' \subseteq Orphans
<1>1. PICK p \in Positions, t \in Tokens : Q!ClaimRow(w, p, t, excluded[w])
  BY DEF ClaimOldest
<1>2. /\ queue' = [queue EXCEPT ![p] = Q!Running(@, t)]
      /\ claim' = [claim EXCEPT ![w] = [position |-> p, quality |-> queue[p].quality, token |-> t]]
      /\ queue \in [Positions -> Q!Row \cup {Q!NoRow}]
      /\ claim \in [Workers -> Q!Claims \cup {Q!NoClaim}]
      /\ claim[w] = Q!NoClaim
  BY <1>1, ClaimIsClaim DEF Q!ClaimRow, Q!Claim, LInv, Q!TypeOK
<1>3. claim'[w].position = p /\ Q!Owns(claim[w])'
  BY <1>2, ClaimOwns
<1> SUFFICES ASSUME NEW o \in Orphans', o \notin Orphans PROVE FALSE
  OBVIOUS
<1>4. o # p /\ o \in Positions /\ queue'[o] = queue[o]
  BY <1>2, <1>3 DEF Orphans
<1>5. PICK v \in Workers : Q!Owns(claim[v]) /\ claim[v].position = o
  BY <1>4 DEF Orphans
<1>6. claim'[v] = claim[v]
  BY <1>2, <1>5 DEF Q!Owns
<1> QED
  BY <1>4, <1>5, <1>6 DEF Orphans, Q!Owns

\* A launch on its way out that still holds a running row: one more interrupt,
\* in the finally block, would orphan it.
Pending == {w \in Workers : pc[w] \in {"releasing", "finishing"} /\ Q!Owns(claim[w])}

LEMMA PendingIsOne ==
  ASSUME LInv, NEW v \in Pending, NEW w \in Pending
  PROVE  v = w
BY OneInside DEF Pending, Status

LEMMA StillPending ==
  ASSUME LInv, Still
  PROVE  Pending' \subseteq Pending
<1> SUFFICES ASSUME NEW w \in Workers, w \in Pending' PROVE w \in Pending
  BY DEF Pending
<1>1. Q!Owns(claim[w])' /\ claim'[w] = claim[w] /\ pc'[w] = pc[w]
  BY DEF Pending, Still
<1>2. claim[w].position \in Positions
  BY <1>1, TicketOf DEF Q!Owns
<1> QED
  BY <1>1, <1>2 DEF Pending, Still, RowsKept, Q!Owns

\* A step of one process makes no other pending.
LEMMA OthersPending ==
  ASSUME LInv, NEW i \in Processes, ActsAlone(i)
  PROVE  Pending' \subseteq Pending \cup {i}
<1> SUFFICES ASSUME NEW w \in Workers, w # i, w \in Pending' PROVE w \in Pending
  BY DEF Pending
<1>1. PICK to \in Places, e \in BOOLEAN : Goes(i, to, e) /\ Hands(i, to)
  BY Zenon DEF ActsAlone
<1>2. pc'[w] = pc[w] /\ pc \in [Processes -> Places] /\ claim \in [Workers -> Q!Claims \cup {Q!NoClaim}]
  BY <1>1 DEF Goes, LInv, Shapes, Q!TypeOK
<1>3. pc[w] \in {"releasing", "finishing"} /\ Q!Owns(claim[w])' /\ Status(pc[w]) = "owned"
  BY <1>2 DEF Pending, Status
<1>4. Status(pc[i]) # "owned"
  BY <1>3, OneInside
<1>5. Dropped(i) /\ queue' = queue
  BY <1>1, <1>4 DEF Hands, ClaimOldest, CallsClaim, Status
<1>6. claim'[w] = claim[w]
  BY <1>2, <1>5 DEF Dropped
<1> QED
  BY <1>3, <1>5, <1>6 DEF Pending, Q!Owns

\* Nothing but an interrupt or a storage error makes a launch pending.
LEMMA OwnPending ==
  ASSUME LInv, NEW w \in Workers, WorkerOpen(w) \/ WorkerStep(w), w \in Pending'
  PROVE  w \in Pending
<1>1. pc'[w] \in {"releasing", "finishing"} /\ Q!Owns(claim[w])'
  BY DEF Pending
<1>2. pc \in [Processes -> Places] /\ claim \in [Workers -> Q!Claims \cup {Q!NoClaim}]
  BY DEF LInv, Shapes, Q!TypeOK
<1>3. CASE WorkerOpen(w) \/ WorkerAcquire(w) \/ WorkerBusy(w) \/ ClaimOldest(w) \/ PollSleep(w) \/ PollAgain(w)
           \/ StartEngine(w) \/ Analyzed(w) \/ WorkFails(w) \/ CompleteClaim(w) \/ FailClaim(w)
           \/ FinishClaim(w) \/ CloseEngine(w) \/ ReleaseMutex(w)
  <2>1. \E to \in {"opening", "claiming", "off", "working", "sleeping", "polling", "analyzing", "completing",
                   "failing", "closing", "unlocking"} : pc' = [pc EXCEPT ![w] = to]
    BY <1>3, Zenon DEF WorkerOpen, WorkerAcquire, WorkerBusy, ClaimOldest, PollSleep, PollAgain, StartEngine,
         Analyzed, WorkFails, CompleteClaim, FailClaim, FinishClaim, CloseEngine, ReleaseMutex, Move
  <2> QED
    BY <1>1, <1>2, <2>1
<1>4. CASE ClaimNone(w) \/ ObserveDeadline(w) \/ PollGiveUp(w)
  <2>1. pc[w] \in {"claiming", "observing", "polling"} /\ UNCHANGED claim
    BY <1>4, Zenon DEF ClaimNone, ObserveDeadline, PollGiveUp, Move, qvars
  <2>2. claim[w] = Q!NoClaim
    BY <2>1 DEF LInv, Tickets, TicketPlaces, InHand
  <2> QED
    BY <1>1, <2>1, <2>2 DEF Q!Owns
<1>5. CASE ReleaseClaim(w)
  <2>1. pc[w] = "releasing" /\ Q!ReleaseTicket(claim[w])
        /\ claim' = [claim EXCEPT ![w] = IF Q!Owns(@) THEN Q!NoClaim ELSE @]
    BY <1>5 DEF ReleaseClaim, Move
  <2>2. CASE Q!Owns(claim[w])
    BY <2>1, <2>2 DEF Pending
  <2>3. CASE ~Q!Owns(claim[w])
    <3>1. claim' = claim /\ queue' = queue
      BY <1>2, <2>1, <2>3 DEF Q!ReleaseTicket
    <3> QED
      BY <1>1, <2>3, <3>1 DEF Q!Owns
  <2> QED
    BY <2>2, <2>3
<1> QED
  BY <1>3, <1>4, <1>5, Zenon DEF WorkerStep

\* A step loses no row, or pays for it: with a fault, or with an interrupt of the
\* launch that was pending.
Pays ==
  \/ /\ Orphans' \subseteq Orphans /\ Pending' \subseteq Pending
     /\ faults' \in {faults, faults + 1} /\ interrupts' \in {interrupts, interrupts + 1}
  \/ Orphans' \subseteq Orphans /\ (Fault \/ Interrupt)
  \/ Pending' \subseteq Pending /\ Fault /\ \E x : Orphans' \subseteq Orphans \cup {x}
  \/ Pending # {} /\ Pending' = {} /\ Interrupt /\ \E x : Orphans' \subseteq Orphans \cup {x}

LEMMA WorkerPays ==
  ASSUME LInv, P!QueueInv, NEW w \in Workers, WorkerOpen(w) \/ WorkerStep(w), faults \in Nat, interrupts \in Nat
  PROVE  Pays
<1>0. Pending' \subseteq Pending
  BY WorkerActs, OthersPending, OwnPending
<1>1. Costs
  BY WorkerCosts
<1>2. CASE Orphans' \subseteq Orphans
  BY <1>0, <1>1, <1>2 DEF Pays, Costs, Fault, Interrupt, budget
<1>3. CASE WorkerOpen(w) \/ WorkerAcquire(w) \/ WorkerBusy(w)
  BY <1>2, <1>3, SameOrphans DEF WorkerOpen, WorkerAcquire, WorkerBusy, qvars
<1>4. CASE ClaimOldest(w)
  BY <1>2, <1>4, ClaimOrphans
<1>5. CASE ClaimNone(w) \/ ObserveDeadline(w) \/ PollSleep(w) \/ PollAgain(w) \/ PollGiveUp(w)
           \/ StartEngine(w) \/ Analyzed(w) \/ WorkFails(w) \/ CloseEngine(w) \/ ReleaseMutex(w)
  <2>1. UNCHANGED qvars
    BY <1>5, Zenon DEF ClaimNone, ObserveDeadline, PollSleep, PollAgain, PollGiveUp, StartEngine, Analyzed,
         WorkFails, CloseEngine, ReleaseMutex
  <2> QED
    BY <1>2, <2>1, SameOrphans DEF qvars
<1>6. CASE CompleteClaim(w) \/ FailClaim(w) \/ FinishClaim(w)
  BY <1>2, <1>6, TicketOrphans DEF CompleteClaim, FailClaim, FinishClaim, Dropped
<1>7. CASE ReleaseClaim(w)
  BY <1>2, <1>7, TicketOrphans DEF ReleaseClaim, Dropped, LInv, Q!TypeOK
<1> QED
  BY <1>3, <1>4, <1>5, <1>6, <1>7, Zenon DEF WorkerStep

\* A ticket that owns nothing orphans nothing when it is dropped.
LEMMA DropsNothing ==
  ASSUME LInv, NEW w \in Workers, ~Q!Owns(claim[w]), UNCHANGED queue, claim' = [claim EXCEPT ![w] = Q!NoClaim]
  PROVE  Orphans' \subseteq Orphans
<1>1. \A v \in Workers \ {w} : claim'[v] = claim[v]
  BY DEF LInv, Q!TypeOK
<1> QED
  BY <1>1 DEF Orphans, Q!Owns

LEMMA FinallyPays ==
  ASSUME LInv, P!QueueInv, NEW w \in Workers, InterruptFinally(w), faults \in Nat, interrupts \in Nat
  PROVE  Pays
<1>1. /\ pc[w] \in {"finishing", "closing", "unlocking"} /\ Interrupt
      /\ pc' = [pc EXCEPT ![w] = "off"]
      /\ claim' = [claim EXCEPT ![w] = Q!NoClaim]
      /\ UNCHANGED queue \/ Q!ReleaseTicket(claim[w])
  BY DEF InterruptFinally
<1>2. CASE Q!ReleaseTicket(claim[w])
  BY <1>1, <1>2, TicketOrphans DEF Dropped, Pays
<1>3. CASE UNCHANGED queue /\ ~Q!Owns(claim[w])
  BY <1>1, <1>3, DropsNothing DEF Pays
<1>4. CASE UNCHANGED queue /\ Q!Owns(claim[w])
  <2>1. w \in Pending
    BY <1>1, <1>4 DEF LInv, Tickets, TicketPlaces, InHand, Q!Owns, Pending
  <2>2. w \notin Pending'
    BY <1>1 DEF Pending, LInv, Shapes
  <2>3. Pending' = {}
    BY <2>1, <2>2, WorkerActs, OthersPending, PendingIsOne DEF WorkerMishap
  <2> QED
    BY <1>1, <1>4, <2>1, <2>3, DropOrphans DEF Pays
<1> QED
  BY <1>1, <1>2, <1>3, <1>4

LEMMA MishapPays ==
  ASSUME LInv, P!QueueInv, NEW w \in Workers, WorkerMishap(w), faults \in Nat, interrupts \in Nat
  PROVE  Pays
<1>1. CASE WorkerWaitFails(w) \/ ClaimRaises(w) \/ ReleaseRaises(w)
  BY <1>1, SameOrphans DEF WorkerWaitFails, ClaimRaises, ReleaseRaises, Pays, qvars
<1>2. CASE FailRaises(w) \/ FinishRaises(w) \/ ClaimLost(w)
  <2>1. /\ UNCHANGED queue /\ claim' = [claim EXCEPT ![w] = Q!NoClaim] /\ Fault
    BY <1>2 DEF FailRaises, FinishRaises, ClaimLost
  <2>2. w \notin Pending'
    BY <2>1 DEF Pending, Q!Owns, LInv, Q!TypeOK
  <2> QED
    BY <2>1, <2>2, DropOrphans, WorkerActs, OthersPending DEF Pays
<1>3. CASE InterruptClaim(w)
  BY <1>3, SameOrphans DEF InterruptClaim, Pays, qvars
<1>4. CASE InterruptWork(w) \/ InterruptHandler(w)
  <2>1. claim' = claim /\ Interrupt
    BY <1>4, Zenon DEF InterruptWork, InterruptHandler
  <2>2. \/ UNCHANGED <<queue, results>>
        \/ Q!CompleteTicket(claim[w]) \/ Q!FailTicket(claim[w]) \/ Q!ReleaseTicket(claim[w])
    BY <1>4, Zenon DEF InterruptWork, InterruptHandler
  <2> QED
    BY <2>1, <2>2, SameOrphans, TicketOrphans DEF Dropped, Pays
<1>5. CASE InterruptFinally(w)
  BY <1>5, FinallyPays
<1> QED
  BY <1>1, <1>2, <1>3, <1>4, <1>5, Zenon DEF WorkerMishap

LEMMA BulkPays ==
  ASSUME LInv, NEW b \in Bulks, BulkStep(b), faults \in Nat, interrupts \in Nat
  PROVE  Pays
<1>1. UNCHANGED <<queue, claim>>
  BY DEF BulkStep, BulkSelect, BulkOpen, BulkAcquire, BulkBusy, BulkWaitFails, BulkPublish, BulkFails,
         BulkNext, BulkStop, BulkInterrupted, CloseEngine, ReleaseMutex, Q!Publish, qvars
<1>2. Orphans' \subseteq Orphans
  BY <1>1, SameOrphans
<1>3. CASE UNCHANGED budget
  <2>1. Pending' \subseteq Pending
    <3>1. ActsAlone(b) \/ pc' = pc
      BY BulkWorks, BulkStays, AllEnd, ActsAs, Zenon DEF BulkStep, Still
    <3>2. b \notin Workers
      OBVIOUS
    <3> QED
      BY <1>1, <3>1, <3>2, OthersPending DEF Pending, Q!Owns
  <2> QED
    BY <1>2, <1>3, <2>1 DEF Pays, budget
<1>4. CASE Fault \/ Interrupt
  BY <1>2, <1>4 DEF Pays
<1> QED
  BY <1>3, <1>4, BulkCosts DEF Costs

LEMMA CrashPays ==
  ASSUME LInv, NEW i \in Processes, Crash(i), faults \in Nat, interrupts \in Nat
  PROVE  Pays
<1>1. Fault /\ UNCHANGED queue /\ pc' = [pc EXCEPT ![i] = "off"]
  BY DEF Crash
<1>2. ActsAlone(i)
  BY AllEnd, ActsAs, Zenon
<1>3. i \notin Pending'
  BY <1>1 DEF Pending, LInv, Shapes
<1>4. Pending' \subseteq Pending
  BY <1>2, <1>3, OthersPending
<1>5. CASE i \in Workers
  BY <1>1, <1>4, <1>5, DropOrphans DEF Crash, Pays
<1>6. CASE i \notin Workers
  BY <1>1, <1>4, <1>6, SameOrphans DEF Crash, Pays
<1> QED
  BY <1>5, <1>6

LEMMA StepPays ==
  ASSUME LInv, P!QueueInv, [Next]_vars, faults \in Nat, interrupts \in Nat
  PROVE  Pays
<1>1. ASSUME NEW p \in Positions, NEW q \in Q!Quality, RequestAnalysis(p, q)
      PROVE  Pays
  BY <1>1, RequestKeeps, StillOrphans, StillPending DEF RequestAnalysis, budget, Pays
<1>2. CASE Tick
  BY <1>2, TickKeeps, StillOrphans, StillPending DEF Tick, budget, Pays
<1>3. CASE UNCHANGED vars
  <2>1. Pending' = Pending
    BY <1>3 DEF vars, qvars, Pending, Q!Owns
  <2> QED
    BY <1>3, <2>1, SameOrphans DEF vars, qvars, budget, Pays
<1> QED
  BY <1>1, <1>2, <1>3, WorkerPays, MishapPays, BulkPays, CrashPays DEF Next

\* What a pending launch may still lose is counted before it does.
Due == 2 * Cardinality(Orphans) + IF Pending = {} THEN 0 ELSE 1

Counted ==
  /\ LInv /\ P!QueueInv
  /\ faults \in Nat /\ interrupts \in Nat /\ IsFiniteSet(Orphans)
  /\ Due <= 2 * faults + interrupts

LEMMA InitCounted == Init => Counted
<1> SUFFICES ASSUME Init PROVE Counted
  OBVIOUS
<1>1. LInv
  BY InitLaunches
<1>2. P!QueueAssumption /\ P!Init
  BY DEF Init, Q!Init, P!Init, P!QueueAssumption, Q!NoRow, P!NoRow, Q!Result, P!Result, Q!NoResult,
         P!NoResult, Q!NoClaim, P!NoClaim, Q!Quality, P!Quality, Q!Version, P!Version
<1>3. P!QueueInv
  BY <1>2, P!InitInv
<1>4. Orphans = {} /\ Pending = {}
  BY DEF Init, Q!Init, Q!NoRow, Orphans, Pending
<1> QED
  BY <1>1, <1>3, <1>4, FS_EmptySet DEF Counted, Due, Init

LEMMA StepCounted == Counted /\ [Next]_vars => Counted'
<1> SUFFICES ASSUME Counted, [Next]_vars PROVE Counted'
  OBVIOUS
<1>1. LInv'
  BY StepLaunches DEF Counted
<1>2. P!QueueAssumption
  BY DEF P!QueueAssumption
<1>3. P!ApiNext \/ UNCHANGED qvars
  BY QueueStep, SameStep DEF Counted
<1>4. P!QueueInv'
  BY <1>2, <1>3, P!StepInv DEF Counted, qvars, P!vars
<1>5. Pays
  BY StepPays DEF Counted
<1>6. Cardinality(Orphans) \in Nat /\ faults \in Nat /\ interrupts \in Nat
  BY FS_CardinalityType DEF Counted
<1>7. ASSUME Orphans' \subseteq Orphans
      PROVE  IsFiniteSet(Orphans') /\ Cardinality(Orphans') \in Nat /\ Cardinality(Orphans') <= Cardinality(Orphans)
  BY <1>7, FS_Subset, FS_CardinalityType DEF Counted
<1>8. ASSUME NEW x, Orphans' \subseteq Orphans \cup {x}
      PROVE  IsFiniteSet(Orphans') /\ Cardinality(Orphans') \in Nat /\ Cardinality(Orphans') <= Cardinality(Orphans) + 1
  <2>1. /\ IsFiniteSet(Orphans \cup {x})
        /\ Cardinality(Orphans \cup {x}) = IF x \in Orphans THEN Cardinality(Orphans) ELSE Cardinality(Orphans) + 1
    BY FS_AddElement DEF Counted
  <2>2. IsFiniteSet(Orphans') /\ Cardinality(Orphans') <= Cardinality(Orphans \cup {x})
    BY <1>8, <2>1, FS_Subset
  <2> QED
    BY <1>6, <2>1, <2>2, FS_CardinalityType
<1>9. faults' \in Nat /\ interrupts' \in Nat /\ IsFiniteSet(Orphans') /\ Due' <= 2 * faults' + interrupts'
  <2>1. CASE /\ Orphans' \subseteq Orphans /\ Pending' \subseteq Pending
             /\ faults' \in {faults, faults + 1} /\ interrupts' \in {interrupts, interrupts + 1}
    BY <1>6, <1>7, <2>1 DEF Counted, Due
  <2>2. CASE Orphans' \subseteq Orphans /\ (Fault \/ Interrupt)
    BY <1>6, <1>7, <2>2 DEF Counted, Due, Fault, Interrupt
  <2>3. CASE Pending' \subseteq Pending /\ Fault /\ \E x : Orphans' \subseteq Orphans \cup {x}
    BY <1>6, <1>8, <2>3 DEF Counted, Due, Fault
  <2>4. CASE Pending # {} /\ Pending' = {} /\ Interrupt /\ \E x : Orphans' \subseteq Orphans \cup {x}
    BY <1>6, <1>8, <2>4 DEF Counted, Due, Interrupt
  <2> QED
    BY <1>5, <2>1, <2>2, <2>3, <2>4 DEF Pays
<1> QED
  BY <1>1, <1>4, <1>9 DEF Counted

\* Rows are left running with nobody to finish them only by deaths, storage
\* errors, interrupts right behind a claim and second interrupts that fall into
\* a finally block: a fault or two interrupts for each row.
THEOREM OrphansAreFaults == Spec => []OrphansNeedFaults
<1>1. Counted => OrphansNeedFaults
  BY FS_CardinalityType DEF Counted, Due, OrphansNeedFaults
<1> QED
  BY <1>1, InitCounted, StepCounted, PTL DEF Spec

-----------------------------------------------------------------------------
(* Drained queues.  What a launch excludes it has failed on, and then its  *)
(* verdict says so: a clean launch looks at the whole queue.               *)

CleanInv ==
  /\ LInv
  /\ verdict \in [Workers -> {"clean", "failed", "interrupted"}]
  /\ \A w \in Workers : verdict[w] = "clean" => excluded[w] = {}

Drained(w) ==
  /\ pc[w] = "claiming" /\ pc'[w] \in {"observing", "finishing"}
  /\ verdict'[w] = "clean"
  => Q!Claimable({}) = {}

CleanStep ==
  /\ verdict' \in [Workers -> {"clean", "failed", "interrupted"}]
  /\ \A w \in Workers : verdict'[w] = "clean" => excluded'[w] = {}
  /\ \A w \in Workers : Drained(w)

\* Steps that leave excluded and verdicts alone and do not end a claim loop.
LEMMA PassingClean ==
  ASSUME CleanInv, NEW i \in Processes, NEW to, pc' = [pc EXCEPT ![i] = to], UNCHANGED <<excluded, verdict>>,
         pc[i] # "claiming" \/ to \notin {"observing", "finishing"}
  PROVE  CleanStep
BY DEF CleanInv, CleanStep, Drained, LInv, Shapes

\* Steps that mark the launch.
LEMMA MarkedClean ==
  ASSUME CleanInv, NEW i \in Workers, NEW to, pc' = [pc EXCEPT ![i] = to],
         NEW v \in {"failed", "interrupted"}, verdict' = [verdict EXCEPT ![i] = v],
         \A w \in Workers \ {i} : excluded'[w] = excluded[w]
  PROVE  CleanStep
BY DEF CleanInv, CleanStep, Drained, LInv, Shapes

LEMMA WorkerClean ==
  ASSUME CleanInv, NEW i \in Workers, WorkerOpen(i) \/ WorkerStep(i)
  PROVE  CleanStep
<1>1. CASE WorkerOpen(i)
  BY <1>1 DEF WorkerOpen, Move, SetVerdict, CleanInv, CleanStep, Drained, LInv, Shapes
<1>2. CASE WorkerAcquire(i) \/ WorkerBusy(i) \/ PollAgain(i) \/ StartEngine(i) \/ Analyzed(i)
  BY <1>2, PassingClean DEF WorkerAcquire, WorkerBusy, PollAgain, StartEngine, Analyzed, Move, wvars
<1>3. CASE ClaimOldest(i)
  BY <1>3, PassingClean DEF ClaimOldest
<1>4. CASE ClaimNone(i)
  <2>1. /\ UNCHANGED <<excluded, verdict>> /\ Q!Claimable(excluded[i]) = {}
        /\ \A w \in Workers \ {i} : pc'[w] = pc[w]
    BY <1>4 DEF ClaimNone, Move, wvars, CleanInv, LInv, Shapes
  <2> QED
    BY <2>1 DEF CleanInv, CleanStep, Drained
<1>5. CASE ObserveDeadline(i)
  <2>1. /\ \E to \in {"polling", "finishing"} : pc' = [pc EXCEPT ![i] = to]
        /\ UNCHANGED <<excluded, verdict>> /\ pc[i] = "observing"
    BY <1>5, Zenon DEF ObserveDeadline
  <2> QED
    BY <2>1, PassingClean
<1>6. CASE PollSleep(i)
  <2>1. Move(i, "polling", "sleeping") /\ UNCHANGED <<excluded, verdict>>
    BY <1>6 DEF PollSleep
  <2> QED
    BY <2>1, PassingClean DEF Move
<1>7. CASE PollGiveUp(i)
  BY <1>7, MarkedClean DEF PollGiveUp, Move, SetVerdict
<1>8. CASE WorkFails(i)
  BY <1>8, MarkedClean DEF WorkFails, SetVerdict, CleanInv, LInv, Shapes
<1>9. CASE CompleteClaim(i) \/ FailClaim(i) \/ ReleaseClaim(i) \/ FinishClaim(i) \/ CloseEngine(i) \/ ReleaseMutex(i)
  BY <1>9, PassingClean DEF CompleteClaim, FailClaim, ReleaseClaim, FinishClaim, CloseEngine, ReleaseMutex, Move, wvars
<1> QED
  BY <1>1, <1>2, <1>3, <1>4, <1>5, <1>6, <1>7, <1>8, <1>9, Zenon DEF WorkerStep

LEMMA MishapClean ==
  ASSUME CleanInv, NEW i \in Workers, WorkerMishap(i)
  PROVE  CleanStep
<1>1. CASE WorkerWaitFails(i) \/ FailRaises(i) \/ ReleaseRaises(i) \/ FinishRaises(i)
  BY <1>1, PassingClean DEF WorkerWaitFails, FailRaises, ReleaseRaises, FinishRaises, Move, wvars
<1>2. CASE ClaimRaises(i) \/ InterruptClaim(i) \/ ClaimLost(i) \/ InterruptWork(i) \/ InterruptHandler(i) \/ InterruptFinally(i)
  BY <1>2, MarkedClean DEF ClaimRaises, InterruptClaim, ClaimLost, InterruptWork, InterruptHandler, InterruptFinally,
     Move, SetVerdict
<1> QED
  BY <1>1, <1>2, Zenon DEF WorkerMishap

LEMMA BulkClean ==
  ASSUME CleanInv, NEW b \in Bulks, BulkStep(b)
  PROVE  CleanStep
<1>1. CASE BulkSelect(b) \/ BulkOpen(b) \/ BulkAcquire(b) \/ BulkBusy(b) \/ BulkWaitFails(b) \/ BulkStop(b) \/ BulkInterrupted(b)
         \/ CloseEngine(b) \/ ReleaseMutex(b)
  <2>1. UNCHANGED <<excluded, verdict>>
    BY <1>1, Zenon DEF BulkSelect, BulkOpen, BulkAcquire, BulkBusy, BulkWaitFails, BulkStop, BulkInterrupted,
         CloseEngine, ReleaseMutex, wvars
  <2>2. \E to \in {"selected", "opening", "running", "off", "closing", "unlocking"} : pc' = [pc EXCEPT ![b] = to]
    BY <1>1, Zenon DEF BulkSelect, BulkOpen, BulkAcquire, BulkBusy, BulkWaitFails, BulkStop, BulkInterrupted,
         CloseEngine, ReleaseMutex, Move
  <2> QED
    BY <2>1, <2>2, PassingClean
<1>2. CASE BulkPublish(b) \/ BulkFails(b) \/ BulkNext(b)
  <2>1. UNCHANGED <<pc, excluded, verdict>>
    BY <1>2, Zenon DEF BulkPublish, BulkFails, BulkNext, wvars
  <2> QED
    BY <2>1 DEF CleanInv, CleanStep, Drained
<1> QED
  BY <1>1, <1>2, Zenon DEF BulkStep

LEMMA StepClean ==
  ASSUME CleanInv, [Next]_vars
  PROVE  CleanStep
<1>1. ASSUME NEW i \in Processes, Crash(i)
      PROVE  CleanStep
  BY <1>1, PassingClean DEF Crash
<1>2. ASSUME NEW p \in Positions, NEW q \in Q!Quality, RequestAnalysis(p, q)
      PROVE  CleanStep
  BY <1>2 DEF RequestAnalysis, wvars, CleanInv, CleanStep, Drained
<1>3. CASE Tick \/ UNCHANGED vars
  <2>1. UNCHANGED <<pc, excluded, verdict>>
    BY <1>3 DEF Tick, vars, wvars
  <2> QED
    BY <2>1 DEF CleanInv, CleanStep, Drained
<1> QED
  BY <1>1, <1>2, <1>3, WorkerClean, MishapClean, BulkClean DEF Next

\* A launch that leaves its claim loop with a clean verdict leaves no row that
\* anybody could claim.
THEOREM CleanLaunchesDrain == Spec => CleanLaunchDrains
<1>1. Init => CleanInv
  BY InitLaunches DEF Init, CleanInv
<1>2. CleanInv /\ [Next]_vars => CleanInv'
  BY StepClean, StepLaunches DEF CleanInv, CleanStep
<1>3. CleanInv /\ [Next]_vars =>
        [\A w \in Workers :
           /\ pc[w] = "claiming" /\ pc'[w] \in {"observing", "finishing"}
           /\ verdict'[w] = "clean"
           => Q!Claimable({}) = {}]_vars
  BY StepClean DEF CleanStep, Drained
<1> QED
  BY <1>1, <1>2, <1>3, PTL DEF Spec, CleanLaunchDrains

-----------------------------------------------------------------------------
(* Recovery.  Every poll that is left covers PollTicks of what remains, so *)
(* the last one is never used up before the boundary.                      *)

Recovery == [remaining : 0..StaleAfter, sleep : 0..StaleAfter, polls : 0..StaleAfter, limit : 0..StaleAfter + 1]

\* The polls left, but one, are enough for what remains after the sleep.
Enough(r) ==
  /\ r.sleep <= r.remaining /\ r.polls < r.limit
  /\ (r.limit - r.polls - 1) * PollTicks >= r.remaining - r.sleep

RecoveryInv ==
  /\ recovery \in [Workers -> Recovery]
  /\ \A w \in Workers :
       /\ pc[w] \in {"polling", "sleeping"} => Enough(recovery[w])
       /\ pc[w] = "polling" => recovery[w].sleep = 0

LEMMA NoRecoveryType == NoRecovery \in Recovery
BY DEF NoRecovery, Recovery

LEMMA Rounding ==
  ASSUME NEW n \in Nat, n > 0
  PROVE  /\ PollLimit(n) \in 1..n + 1
         /\ (PollLimit(n) - 1) * PollTicks >= n
<1>1. (n + PollTicks - 1) \div PollTicks \in 1..n
  BY SMTT(30)
<1>2. ((n + PollTicks - 1) \div PollTicks) * PollTicks >= n
  BY SMTT(30)
<1> QED
  BY <1>1, <1>2 DEF PollLimit

LEMMA ObservedIsEnough ==
  ASSUME NEW n \in 1..StaleAfter, NEW r, r = Observed(n)
  PROVE  r \in Recovery /\ Enough(r) /\ r.sleep = 0
<1>2. PollLimit(n) \in 1..n + 1 /\ (PollLimit(n) - 1) * PollTicks >= n
  BY Rounding
<1>3. PollLimit(n) \in 0..StaleAfter + 1 /\ n \in 0..StaleAfter /\ 0 \in 0..StaleAfter
  BY <1>2
<1>4. r \in Recovery
  BY <1>3 DEF Recovery, Observed
<1>5. r.remaining = n /\ r.sleep = 0 /\ r.polls = 0 /\ r.limit = PollLimit(n)
  BY DEF Observed
<1>6. PollLimit(n) - 0 - 1 = PollLimit(n) - 1 /\ n - 0 = n /\ 0 < PollLimit(n) /\ 0 <= n
  BY <1>2
<1> QED
  BY <1>2, <1>4, <1>5, <1>6 DEF Enough

LEMMA PollsLeft ==
  ASSUME NEW r \in Recovery, Enough(r), r.sleep = 0, r.remaining > 0
  PROVE  r.polls + 1 < r.limit
<1> DEFINE left == r.limit - r.polls - 1
<1>1. left \in Int /\ left * PollTicks >= r.remaining
  BY DEF Enough, Recovery
<1>2. left >= 1
  BY <1>1, SMTT(30) DEF Recovery
<1> QED
  BY <1>2 DEF Recovery

LEMMA SleptIsEnough ==
  ASSUME NEW r \in Recovery, Enough(r), r.sleep = 0, r.remaining > 0,
         NEW z, z = (IF PollTicks < r.remaining THEN PollTicks ELSE r.remaining),
         NEW s \in Recovery, s.remaining = r.remaining, s.limit = r.limit, s.sleep = z, s.polls = r.polls + 1
  PROVE  Enough(s)
<1> DEFINE left == r.limit - r.polls - 1
<1>1. left \in Int /\ left * PollTicks >= r.remaining
  BY DEF Enough, Recovery
<1>2. left >= 1
  BY <1>1, SMTT(30) DEF Recovery
<1>3. (left - 1) * PollTicks >= r.remaining - z
  BY <1>1, <1>2, SMTT(30) DEF Recovery
<1> QED
  BY <1>2, <1>3 DEF Enough, Recovery

LEMMA AgedIsEnough ==
  ASSUME NEW r \in Recovery, NEW s, s = Passed(r)
  PROVE  /\ s \in Recovery
         /\ Enough(r) => Enough(s)
         /\ r.sleep = 0 => s.sleep = 0
<1>2. Less(r.remaining) \in 0..StaleAfter /\ Less(r.sleep) \in 0..StaleAfter
  BY DEF Less, Recovery
<1>3. s \in Recovery
  BY <1>2 DEF Recovery, Passed
<1>4. /\ s.remaining = Less(r.remaining) /\ s.sleep = Less(r.sleep)
      /\ s.polls = r.polls /\ s.limit = r.limit
  BY DEF Passed
<1>5. r.sleep = 0 => s.sleep = 0
  BY <1>4 DEF Less
<1>6. ASSUME Enough(r) PROVE Enough(s)
  <2>1. s.sleep <= s.remaining /\ s.remaining - s.sleep <= r.remaining - r.sleep
    BY <1>4, <1>6 DEF Enough, Less, Recovery
  <2>2. (s.limit - s.polls - 1) * PollTicks >= r.remaining - r.sleep
    BY <1>4, <1>6 DEF Enough
  <2>3. (s.limit - s.polls - 1) * PollTicks \in Int
    BY <1>4 DEF Recovery
  <2>4. (s.limit - s.polls - 1) * PollTicks >= s.remaining - s.sleep
    <3> DEFINE left == (s.limit - s.polls - 1) * PollTicks
    <3> HIDE DEF left
    <3>1. left \in Int /\ left >= r.remaining - r.sleep
      BY <2>2, <2>3 DEF left
    <3>2. /\ s.remaining \in Int /\ s.sleep \in Int
          /\ r.remaining \in Int /\ r.sleep \in Int
      BY <1>3 DEF Recovery
    <3>3. \A a, b, c, d, l \in Int : l >= a - b /\ c - d <= a - b => l >= c - d
      OBVIOUS
    <3>4. left >= s.remaining - s.sleep
      BY <2>1, <3>1, <3>2, <3>3, Zenon
    <3> QED
      BY <3>4 DEF left
  <2> QED
    BY <1>4, <1>6, <2>1, <2>4 DEF Enough
<1> QED
  BY <1>3, <1>5, <1>6

Waits == {"polling", "sleeping"}

\* A process goes to a place where nothing is awaited.
LEMMA RecoveryLeft ==
  ASSUME LInv, RecoveryInv, NEW i \in Processes, NEW to, to \notin Waits, pc' = [pc EXCEPT ![i] = to],
         recovery' \in {recovery, [recovery EXCEPT ![i] = NoRecovery]}
  PROVE  RecoveryInv'
<1>1. recovery' \in [Workers -> Recovery]
  BY NoRecoveryType DEF RecoveryInv
<1>2. \A w \in Workers \ {i} : pc'[w] = pc[w] /\ recovery'[w] = recovery[w]
  BY DEF LInv, Shapes, RecoveryInv
<1>3. pc'[i] \notin Waits
  BY DEF LInv, Shapes
<1> QED
  BY <1>1, <1>2, <1>3 DEF RecoveryInv, Waits

LEMMA RecoveryStill ==
  ASSUME RecoveryInv, UNCHANGED <<pc, recovery>>
  PROVE  RecoveryInv'
BY DEF RecoveryInv

LEMMA ObserveRecovers ==
  ASSUME LInv, RecoveryInv, NEW i \in Workers, ObserveDeadline(i)
  PROVE  RecoveryInv'
<1>1. CASE pc' = [pc EXCEPT ![i] = "finishing"] /\ UNCHANGED recovery
  BY <1>1, RecoveryLeft DEF Waits
<1>2. ASSUME NEW p \in Positions, YoungRunning(p), pc' = [pc EXCEPT ![i] = "polling"],
             recovery' = [recovery EXCEPT ![i] = Observed(StaleAfter - queue[p].claimedAge)]
      PROVE  RecoveryInv'
  <2>1. queue[p] \in Q!Row
    BY <1>2 DEF LInv, Q!TypeOK, YoungRunning, Q!NoRow
  <2>2. StaleAfter - queue[p].claimedAge \in 1..StaleAfter
    BY <1>2, <2>1 DEF YoungRunning, Q!Row
  <2>3. PICK r : r = Observed(StaleAfter - queue[p].claimedAge)
    OBVIOUS
  <2>4. r \in Recovery /\ Enough(r) /\ r.sleep = 0
    BY <2>2, <2>3, ObservedIsEnough
  <2> QED
    BY <1>2, <2>3, <2>4 DEF RecoveryInv, LInv, Shapes
<1> QED
  BY <1>1, <1>2, Zenon DEF ObserveDeadline

LEMMA PollRecovers ==
  ASSUME LInv, RecoveryInv, NEW i \in Workers, PollSleep(i)
  PROVE  RecoveryInv'
<1> DEFINE r == recovery[i]
<1>1. /\ pc' = [pc EXCEPT ![i] = "sleeping"] /\ pc[i] = "polling"
      /\ r.remaining > 0 /\ r.polls < r.limit /\ r \in Recovery /\ Enough(r) /\ r.sleep = 0
      /\ recovery' = [recovery EXCEPT ![i] = Polled(r)]
  BY DEF PollSleep, Move, RecoveryInv
<1>2. PICK s : s = Polled(r)
  OBVIOUS
<1>3. s \in Recovery
  <2>1. r.polls + 1 \in 0..StaleAfter
    BY <1>1, PollsLeft DEF Recovery
  <2>2. (IF PollTicks < r.remaining THEN PollTicks ELSE r.remaining) \in 0..StaleAfter
    BY <1>1 DEF Recovery
  <2> QED
    BY <1>1, <1>2, <2>1, <2>2 DEF Recovery, Polled
<1>4. /\ s.remaining = r.remaining /\ s.limit = r.limit /\ s.polls = r.polls + 1
      /\ s.sleep = IF PollTicks < r.remaining THEN PollTicks ELSE r.remaining
  BY <1>2 DEF Polled
<1>5. Enough(s)
  BY <1>1, <1>3, <1>4, SleptIsEnough
<1> QED
  BY <1>1, <1>2, <1>3, <1>5 DEF RecoveryInv, LInv, Shapes

LEMMA TickRecovers ==
  ASSUME LInv, RecoveryInv, Tick
  PROVE  RecoveryInv'
<1>1. recovery' = [w \in Workers |-> Passed(recovery[w])] /\ UNCHANGED pc
  BY DEF Tick
<1>2. ASSUME NEW w \in Workers
      PROVE  /\ recovery'[w] \in Recovery
             /\ Enough(recovery[w]) => Enough(recovery'[w])
             /\ recovery[w].sleep = 0 => recovery'[w].sleep = 0
  <2>1. recovery'[w] = Passed(recovery[w]) /\ recovery[w] \in Recovery
    BY <1>1 DEF RecoveryInv
  <2> QED
    BY <2>1, AgedIsEnough
<1>3. recovery' \in [Workers -> Recovery]
  BY <1>1, <1>2
<1> QED
  BY <1>1, <1>2, <1>3 DEF RecoveryInv

LEMMA WorkerRecovers ==
  ASSUME LInv, RecoveryInv, NEW i \in Workers, WorkerOpen(i) \/ WorkerStep(i) \/ WorkerMishap(i)
  PROVE  RecoveryInv'
<1>1. CASE WorkerOpen(i) \/ WorkerAcquire(i) \/ WorkerBusy(i) \/ WorkerWaitFails(i) \/ ClaimOldest(i) \/ ClaimNone(i)
  BY <1>1, RecoveryLeft DEF WorkerOpen, WorkerAcquire, WorkerBusy, WorkerWaitFails, ClaimOldest, ClaimNone, Move, Waits, wvars
<1>2. CASE PollGiveUp(i) \/ StartEngine(i) \/ Analyzed(i) \/ WorkFails(i) \/ CompleteClaim(i) \/ FailClaim(i) \/ ReleaseClaim(i)
  BY <1>2, RecoveryLeft DEF PollGiveUp, StartEngine, Analyzed, WorkFails, CompleteClaim, FailClaim, ReleaseClaim, Move, Waits, wvars
<1>3. CASE FinishClaim(i) \/ CloseEngine(i) \/ ReleaseMutex(i) \/ ClaimRaises(i) \/ FailRaises(i) \/ ReleaseRaises(i) \/ FinishRaises(i)
  BY <1>3, RecoveryLeft DEF FinishClaim, CloseEngine, ReleaseMutex, ClaimRaises, FailRaises, ReleaseRaises, FinishRaises, Move, Waits, wvars
<1>4. CASE InterruptClaim(i) \/ ClaimLost(i) \/ InterruptWork(i) \/ InterruptHandler(i) \/ InterruptFinally(i)
  BY <1>4, RecoveryLeft DEF InterruptClaim, ClaimLost, InterruptWork, InterruptHandler, InterruptFinally, Move, Waits
<1>5. CASE PollAgain(i)
  BY <1>5 DEF PollAgain, Move, RecoveryInv, wvars, LInv, Shapes
<1> QED
  BY <1>1, <1>2, <1>3, <1>4, <1>5, ObserveRecovers, PollRecovers, Zenon DEF WorkerStep, WorkerMishap

LEMMA BulkRecovers ==
  ASSUME LInv, RecoveryInv, NEW b \in Bulks, BulkStep(b)
  PROVE  RecoveryInv'
<1>1. UNCHANGED recovery
  BY DEF BulkStep, BulkSelect, BulkOpen, BulkAcquire, BulkBusy, BulkWaitFails, BulkPublish, BulkFails,
         BulkNext, BulkStop, BulkInterrupted, CloseEngine, ReleaseMutex, wvars
<1>2. CASE BulkPublish(b) \/ BulkFails(b) \/ BulkNext(b)
  BY <1>1, <1>2, RecoveryStill DEF BulkPublish, BulkFails, BulkNext
<1>3. CASE ~(BulkPublish(b) \/ BulkFails(b) \/ BulkNext(b))
  <2>1. \E to \in {"selected", "opening", "running", "off", "closing", "unlocking"} : pc' = [pc EXCEPT ![b] = to]
    BY <1>3, Zenon DEF BulkStep, BulkSelect, BulkOpen, BulkAcquire, BulkBusy, BulkWaitFails, BulkStop,
         BulkInterrupted, CloseEngine, ReleaseMutex, Move
  <2> QED
    BY <1>1, <2>1, RecoveryLeft DEF Waits
<1> QED
  BY <1>2, <1>3

LEMMA StepRecovers ==
  ASSUME LInv, RecoveryInv, [Next]_vars
  PROVE  RecoveryInv'
<1>1. ASSUME NEW i \in Processes, Crash(i)
      PROVE  RecoveryInv'
  BY <1>1, RecoveryLeft DEF Crash, Waits
<1>2. ASSUME NEW p \in Positions, NEW q \in Q!Quality, RequestAnalysis(p, q)
      PROVE  RecoveryInv'
  BY <1>2, RecoveryStill DEF RequestAnalysis, wvars
<1>3. CASE UNCHANGED vars
  BY <1>3, RecoveryStill DEF vars, wvars
<1> QED
  BY <1>1, <1>2, <1>3, TickRecovers, WorkerRecovers, BulkRecovers DEF Next

LEMMA InitRecovers == Init => RecoveryInv
BY NoRecoveryType DEF Init, RecoveryInv

\* The bound on recovery's polls never cuts it short of the boundary at which
\* the young claim becomes stale, whatever the interval and the poll.
THEOREM RecoveriesReachBoundary == Spec => []RecoveryReachesBoundary
<1>1. ASSUME RecoveryInv PROVE RecoveryReachesBoundary
  BY <1>1 DEF RecoveryInv, Enough, RecoveryReachesBoundary
<1>2. LInv /\ RecoveryInv /\ [Next]_vars => RecoveryInv'
  BY StepRecovers
<1> QED
  BY <1>1, <1>2, InitRecovers, LaunchInvariant, PTL DEF Spec

-----------------------------------------------------------------------------
(* Types. *)

BulkStages == {"off", "selected", "opening", "running", "closing", "unlocking"}

Forms ==
  /\ CleanInv /\ RecoveryInv
  /\ \A w \in Workers : pc[w] \in Stages
  /\ \A b \in Bulks : pc[b] \in BulkStages
  /\ visited \in [Bulks -> SUBSET Positions]
  /\ \A b \in Bulks : target[b] \in visited[b] \cup {NoTarget}
  /\ faults \in 0..MaxFaults /\ interrupts \in 0..MaxInterrupts /\ survivors \in Nat

\* A fault or an interrupt at most, within its budget.
LEMMA BudgetKept ==
  ASSUME Forms, [Next]_vars
  PROVE  faults' \in 0..MaxFaults /\ interrupts' \in 0..MaxInterrupts /\ survivors' \in Nat
BY StepCosts DEF Costs, Fault, Interrupt, budget, Forms

LEMMA WorkerForms ==
  ASSUME LInv, NEW i \in Workers, WorkerOpen(i) \/ WorkerStep(i) \/ WorkerMishap(i)
  PROVE  UNCHANGED bvars /\ \E to \in Stages : pc' = [pc EXCEPT ![i] = to]
<1> USE DEF Move, Stages, InHand
<1>1. CASE WorkerOpen(i) \/ WorkerAcquire(i) \/ WorkerBusy(i) \/ WorkerWaitFails(i) \/ ClaimOldest(i)
  BY <1>1, Zenon DEF WorkerOpen, WorkerAcquire, WorkerBusy, WorkerWaitFails, ClaimOldest
<1>2. CASE ClaimNone(i) \/ ObserveDeadline(i) \/ PollSleep(i) \/ PollAgain(i) \/ PollGiveUp(i)
  <2>1. \E to \in {"observing", "finishing", "polling", "sleeping"} : pc' = [pc EXCEPT ![i] = to]
    <3>1. CASE ClaimNone(i)
      BY <3>1 DEF ClaimNone
    <3> QED
      BY <1>2, <3>1, Zenon DEF ObserveDeadline, PollSleep, PollAgain, PollGiveUp
  <2>2. UNCHANGED bvars
    BY <1>2, Zenon DEF ClaimNone, ObserveDeadline, PollSleep, PollAgain, PollGiveUp
  <2> QED
    BY <2>1, <2>2
<1>3. CASE StartEngine(i) \/ Analyzed(i) \/ WorkFails(i) \/ CompleteClaim(i) \/ FailClaim(i) \/ ReleaseClaim(i) \/ FinishClaim(i)
  BY <1>3, Zenon DEF StartEngine, Analyzed, WorkFails, CompleteClaim, FailClaim, ReleaseClaim, FinishClaim
<1>4. CASE CloseEngine(i) \/ ReleaseMutex(i) \/ ClaimRaises(i) \/ FailRaises(i) \/ ReleaseRaises(i) \/ FinishRaises(i)
  BY <1>4, Zenon DEF CloseEngine, ReleaseMutex, ClaimRaises, FailRaises, ReleaseRaises, FinishRaises
<1>5. CASE InterruptClaim(i) \/ ClaimLost(i) \/ InterruptWork(i) \/ InterruptHandler(i) \/ InterruptFinally(i)
  BY <1>5, Zenon DEF InterruptClaim, ClaimLost, InterruptWork, InterruptHandler, InterruptFinally
<1> QED
  BY <1>1, <1>2, <1>3, <1>4, <1>5, Zenon DEF WorkerStep, WorkerMishap

\* What a bulk launch does to its place, its target and its iterator.
LEMMA BulkForms ==
  ASSUME Forms, NEW b \in Bulks, BulkStep(b)
  PROVE  /\ pc' = pc \/ \E to \in BulkStages : pc' = [pc EXCEPT ![b] = to]
         /\ visited' \in [Bulks -> SUBSET Positions]
         /\ \A c \in Bulks : target'[c] \in visited'[c] \cup {NoTarget}
<1> USE DEF Move, BulkStages, bvars
<1>1. visited \in [Bulks -> SUBSET Positions] /\ target \in [Bulks -> Positions \cup {NoTarget}]
      /\ \A c \in Bulks : target[c] \in visited[c] \cup {NoTarget}
  BY DEF Forms, CleanInv, LInv, Shapes
<1>2. CASE BulkSelect(b)
  BY <1>1, <1>2 DEF BulkSelect
<1>3. CASE BulkOpen(b) \/ BulkAcquire(b) \/ CloseEngine(b) \/ ReleaseMutex(b)
  BY <1>1, <1>3 DEF BulkOpen, BulkAcquire, CloseEngine, ReleaseMutex
<1>4. CASE BulkBusy(b) \/ BulkWaitFails(b) \/ BulkStop(b) \/ BulkInterrupted(b)
  BY <1>1, <1>4 DEF BulkBusy, BulkWaitFails, BulkStop, BulkInterrupted
<1>5. CASE BulkPublish(b) \/ BulkFails(b)
  BY <1>1, <1>5 DEF BulkPublish, BulkFails
<1>6. CASE BulkNext(b)
  BY <1>1, <1>6 DEF BulkNext
<1> QED
  BY <1>2, <1>3, <1>4, <1>5, <1>6, Zenon DEF BulkStep

LEMMA StepForms ==
  ASSUME Forms, [Next]_vars
  PROVE  Forms'
<1>1. CleanInv' /\ RecoveryInv'
  BY StepClean, StepLaunches, StepRecovers DEF Forms, CleanInv, CleanStep
<1>2. pc \in [Processes -> Places]
  BY DEF Forms, CleanInv, LInv, Shapes
<1> DEFINE Rest == /\ \A w \in Workers : pc[w] \in Stages
                   /\ \A b \in Bulks : pc[b] \in BulkStages
                   /\ visited \in [Bulks -> SUBSET Positions]
                   /\ \A b \in Bulks : target[b] \in visited[b] \cup {NoTarget}
<1>3. ASSUME NEW i \in Workers, WorkerOpen(i) \/ WorkerStep(i) \/ WorkerMishap(i)
      PROVE  Rest'
  BY <1>2, <1>3, WorkerForms DEF Forms, CleanInv, bvars
<1>4. ASSUME NEW b \in Bulks, BulkStep(b)
      PROVE  Rest'
  BY <1>2, <1>4, BulkForms DEF Forms
<1>5. ASSUME NEW i \in Processes, Crash(i)
      PROVE  Rest'
  <2>1. pc' = [pc EXCEPT ![i] = "off"]
    BY <1>5 DEF Crash
  <2>2. \/ UNCHANGED bvars
        \/ /\ target' = [target EXCEPT ![i] = NoTarget]
           /\ visited' = [visited EXCEPT ![i] = {}]
    BY <1>5 DEF Crash
  <2> QED
    BY <1>2, <2>1, <2>2 DEF Forms, bvars, Stages, BulkStages, CleanInv, LInv, Shapes
<1>6. ASSUME NEW p \in Positions, NEW q \in Q!Quality, RequestAnalysis(p, q)
      PROVE  Rest'
  BY <1>6 DEF RequestAnalysis, Forms, bvars
<1>7. ASSUME Tick \/ UNCHANGED vars
      PROVE  Rest'
  <2>1. UNCHANGED <<pc, target, visited>>
    BY <1>7 DEF Tick, vars, bvars
  <2>2. Rest
    BY DEF Forms
  <2> QED
    BY <2>1, <2>2
<1>8. Rest'
  BY <1>3, <1>4, <1>5, <1>6, <1>7 DEF Next
<1>9. faults' \in 0..MaxFaults /\ interrupts' \in 0..MaxInterrupts /\ survivors' \in Nat
  BY BudgetKept
<1> QED
  BY <1>1, <1>8, <1>9, Zenon DEF Forms

LEMMA InitForms == Init => Forms
<1> SUFFICES ASSUME Init PROVE Forms
  OBVIOUS
<1>1. CleanInv /\ RecoveryInv
  BY InitLaunches, InitRecovers DEF Init, CleanInv
<1> QED
  BY <1>1 DEF Init, Forms, Stages, BulkStages

LEMMA FormsAreTypes == Forms => TypeOK
<1> SUFFICES ASSUME Forms PROVE TypeOK
  OBVIOUS
<1>1. Q!TypeOK /\ MutexInv /\ Shapes /\ EnginesInside /\ Tickets /\ WorkStaysOwned
  BY DEF Forms, CleanInv, LInv
<1>2. M!TypeOK
  BY <1>1 DEF MutexInv, M!TypeOK
<1>3. \A w \in Workers :
        /\ pc[w] \in InHand => claim[w] # Q!NoClaim
        /\ claim[w] # Q!NoClaim => pc[w] \in InHand \cup {"releasing", "finishing"}
  BY <1>1 DEF WorkStaysOwned, Q!Owns, Tickets, TicketPlaces
<1> QED
  BY <1>1, <1>2, <1>3 DEF Forms, CleanInv, RecoveryInv, Recovery, Shapes, EnginesInside, BulkStages, TypeOK

\* Launches are well formed: a ticket is held exactly from the claim to the
\* handler that ends it, and an engine is open only inside a launch.
THEOREM TypesAreCorrect == Spec => []TypeOK
<1>1. Init => Forms
  BY InitForms
<1>2. Forms /\ [Next]_vars => Forms'
  BY StepForms
<1>3. Forms => TypeOK
  BY FormsAreTypes
<1> QED
  BY <1>1, <1>2, <1>3, PTL DEF Spec

\* Work is accounted for with any workers, bulk launches, positions and faults.
THEOREM WorkStaysAccountedFor == Spec => []WorkIsAccountedFor
BY TypesAreCorrect, WorkIsOwned, OrphansAreFaults, PTL DEF WorkIsAccountedFor

=============================================================================
