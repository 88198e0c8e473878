----------------------------- MODULE BrowserProofs -----------------------------
(***************************************************************************)
(* What a browser is told and what it shows: one observation of an         *)
(* analysis while others commit, for every number of positions, workers    *)
(* and clients (AnalysisObservation); and the panels of the Repertoire     *)
(* Builder with any number of calls under way (RepertoireBuilder).  The    *)
(* steps of the queue and its users are those proved about in              *)
(* AnalysisQueueProofs.                                                    *)
(***************************************************************************)
EXTENDS AnalysisObservation, RepertoireBuilder, TLAPS

P == INSTANCE AnalysisQueueProofs

USE ObservationAssumption DEF ObservationAssumption

\* The queue of this module is the queue the proofs are about.
LEMMA SameTypes == Q!TypeOK <=> P!TypeOK
BY DEF Q!TypeOK, P!TypeOK, Q!Row, P!Row, Q!NoRow, P!NoRow, Q!Result, P!Result, Q!NoResult, P!NoResult,
       Q!Claims, P!Claims, Q!NoClaim, P!NoClaim, Q!Quality, P!Quality, Q!Version, P!Version

LEMMA SameStep == Q!Next => P!ApiNext
BY DEF P!ApiNext,
       Q!Next, P!Next, Q!Request, P!Request, Q!Enqueue, P!Enqueue, Q!Publish, P!Publish, Q!Claim,
       P!Claim, Q!Release, P!Release, Q!Fail, P!Fail, Q!Complete, P!Complete, Q!Drop, P!Drop,
       Q!Tick, P!Tick, Q!NeedsWork, P!NeedsWork, Q!Enqueued, P!Enqueued, Q!Live, P!Live, Q!NewRow,
       P!NewRow, Q!Higher, P!Higher, Q!Rank, P!Rank, Q!Published, P!Published, Q!NotSaved,
       P!NotSaved, Q!Fresh, P!Fresh, Q!Satisfies, P!Satisfies, Q!NoResult, P!NoResult, Q!ClaimRow,
       P!ClaimRow, Q!Claimable, P!Claimable, Q!Oldest, P!Oldest, Q!NotAfter, P!NotAfter,
       Q!FreshToken, P!FreshToken, Q!Running, P!Running, Q!Stale, P!Stale, Q!MayDrop, P!MayDrop,
       Q!ReleaseTicket, P!ReleaseTicket, Q!FailTicket, P!FailTicket, Q!CompleteTicket,
       P!CompleteTicket, Q!Owns, P!Owns, Q!Settled, P!Settled, Q!Requeued, P!Requeued, Q!NoClaim,
       P!NoClaim, Q!NoRow, P!NoRow, Q!Aged, P!Aged, Q!Older, P!Older, Q!Quality, P!Quality

LEMMA EnvironmentKeeps ==
  ASSUME Q!TypeOK, Q!Next
  PROVE  /\ Q!TypeOK'
         /\ \A p \in Positions : results[p] # Q!NoResult => results'[p] # Q!NoResult
         /\ \A p \in Positions, q \in Q!Quality : Q!Satisfies(results[p], q) => Q!Satisfies(results'[p], q)
<1>1. P!QueueAssumption
  BY DEF P!QueueAssumption
<1>2. P!TypeOK /\ P!ApiNext
  BY SameTypes, SameStep
<1>3. P!TypeOK'
  BY <1>1, <1>2, P!StepTypes
<1>4. P!AnswersKept
  BY <1>1, <1>2, P!StepKeepsAnswers
<1>5. \A p \in Positions : results[p] # P!NoResult => results'[p] # P!NoResult
  BY <1>1, <1>2, P!StepKeepsResults
<1>6. Q!TypeOK'
  BY <1>3 DEF Q!TypeOK, P!TypeOK, Q!Row, P!Row, Q!NoRow, P!NoRow, Q!Result, P!Result, Q!NoResult, P!NoResult,
       Q!Claims, P!Claims, Q!NoClaim, P!NoClaim, Q!Quality, P!Quality, Q!Version, P!Version
<1> QED
  BY <1>4, <1>5, <1>6 DEF P!AnswersKept, Q!NoResult, P!NoResult, Q!Satisfies, P!Satisfies, Q!Quality, P!Quality,
       Q!Rank, P!Rank, Q!Fresh, P!Fresh

LEMMA Order ==
  Len(ReadOrder) = 3 /\ ReadOrder[1] = "queue" /\ ReadOrder[2] = "header" /\ ReadOrder[3] = "lines"
BY DEF ReadOrder

-----------------------------------------------------------------------------
(* The invariant. *)

Found == Q!Result \cup {Q!NoResult}

\* Every variable has its type; what was not read yet is unknown.
Types ==
  /\ Q!TypeOK
  /\ position \in [Readers -> Positions \cup {0}] /\ done \in [Readers -> 0..3]
  /\ queueState \in [Readers -> {"absent", "queued", "running"}]
  /\ header \in [Readers -> Found] /\ lines \in [Readers -> Found] /\ shown \in [Readers -> Found]
  /\ idled \in [Readers -> BOOLEAN]
  /\ \A r \in Readers : lines[r] # Q!NoResult => header[r] # Q!NoResult
  /\ \A r \in Readers : done[r] \in {0, 1} \/ position[r] = 0 => header[r] = Q!NoResult

\* A moment of rest during the reads is remembered, and what was read first
\* vouches for what is read next: a result that is missing later was missing before.
Remembered ==
  \A r \in Readers : position[r] # 0 =>
    /\ done[r] < 3 /\ AtRest(position[r]) => idled[r]
    /\ done[r] >= 1 /\ queueState[r] = "absent" /\ results[position[r]] = Q!NoResult => idled[r]
    /\ done[r] >= 2 /\ queueState[r] = "absent" /\ header[r] = Q!NoResult => idled[r]

\* What an observation shows, the database still answers at least as well.
Backed ==
  \A r \in Readers, q \in Q!Quality : position[r] # 0 =>
    /\ Q!Satisfies(shown[r], q) => Q!Satisfies(results[position[r]], q)
    /\ Q!Satisfies(header[r], q) => Q!Satisfies(results[position[r]], q)
    /\ done[r] >= 2 /\ Q!Satisfies(shown[r], q) => Q!Satisfies(header[r], q)

OInv == Types /\ Remembered /\ Backed

LEMMA NothingSatisfies == \A q \in Q!Quality : ~ Q!Satisfies(Q!NoResult, q)
BY DEF Q!Satisfies

LEMMA RestIsAbsence ==
  ASSUME Q!TypeOK, NEW p \in Positions
  PROVE  AtRest(p) <=> queue[p].state = "absent" /\ results[p] = Q!NoResult
BY DEF AtRest, Q!Live

LEMMA RowStates ==
  ASSUME Q!TypeOK, NEW p \in Positions
  PROVE  queue[p].state \in {"absent", "queued", "running"} /\ results[p] \in Found
BY DEF Q!TypeOK, Q!Row, Q!NoRow, Found

LEMMA InitInv == Init => OInv
<1> SUFFICES ASSUME Init PROVE OInv
  OBVIOUS
<1>1. Q!TypeOK
  BY DEF Init, Q!Init, Q!TypeOK, Q!Row, Q!NoRow, Q!Result, Q!NoResult, Q!NoClaim
<1>2. Types
  BY <1>1 DEF Init, Types, Found
<1>3. Remembered
  BY DEF Init, Remembered
<1>4. Backed
  BY DEF Init, Backed
<1> QED
  BY <1>2, <1>3, <1>4 DEF OInv

-----------------------------------------------------------------------------
(* Steps. *)

\* A new observation starts with nothing read.
LEMMA BeginKeeps ==
  ASSUME OInv, NEW r \in Readers, NEW p \in Positions, Begin(r, p)
  PROVE  OInv'
<1> USE DEF OInv, Types
<1>1. UNCHANGED <<queue, results, claim>> /\ ~ Reading(r) /\ p # 0
  BY DEF Begin, qvars
<1>2. Q!TypeOK'
  BY <1>1 DEF Q!TypeOK
<1>3. Q!NoResult \in Found
  BY DEF Found
<1>4. /\ position' = [position EXCEPT ![r] = p] /\ done' = [done EXCEPT ![r] = 0]
      /\ queueState' = [queueState EXCEPT ![r] = "absent"] /\ header' = [header EXCEPT ![r] = Q!NoResult]
      /\ lines' = [lines EXCEPT ![r] = Q!NoResult]
  BY DEF Begin
<1>5. shown' = [shown EXCEPT ![r] = IF position[r] = p THEN header[r] ELSE Q!NoResult]
  BY DEF Begin
<1>6. idled' = [idled EXCEPT ![r] = AtRest(p)] /\ AtRest(p) \in BOOLEAN
  BY DEF Begin, AtRest
<1>7. shown' \in [Readers -> Found] /\ idled' \in [Readers -> BOOLEAN]
  BY <1>3, <1>5, <1>6
<1>8. Types'
  <2>1. /\ position' \in [Readers -> Positions \cup {0}] /\ done' \in [Readers -> 0..3]
        /\ queueState' \in [Readers -> {"absent", "queued", "running"}]
    BY <1>4
  <2>2. header' \in [Readers -> Found] /\ lines' \in [Readers -> Found]
    BY <1>3, <1>4
  <2>3. \A u \in Readers \ {r} : /\ position'[u] = position[u] /\ done'[u] = done[u]
                                 /\ header'[u] = header[u] /\ lines'[u] = lines[u]
    BY <1>4
  <2>4. header'[r] = Q!NoResult /\ lines'[r] = Q!NoResult
    BY <1>4
  <2> QED
    BY <1>2, <1>7, <2>1, <2>2, <2>3, <2>4
<1>9. Remembered'
  <2> SUFFICES ASSUME NEW u \in Readers, position'[u] # 0
      PROVE  /\ done'[u] < 3 /\ AtRest(position[u])' => idled'[u]
             /\ done'[u] >= 1 /\ queueState'[u] = "absent" /\ results'[position'[u]] = Q!NoResult => idled'[u]
             /\ done'[u] >= 2 /\ queueState'[u] = "absent" /\ header'[u] = Q!NoResult => idled'[u]
    BY DEF Remembered
  <2>2. CASE u = r
    <3>1. position'[u] = p /\ done'[u] = 0
      BY <1>4, <2>2
    <3>2. idled'[u] = AtRest(p)
      BY <1>6, <2>2
    <3>3. AtRest(position[u])' = AtRest(p)
      BY <1>1, <3>1 DEF AtRest, Q!Live
    <3> QED
      BY <3>1, <3>2, <3>3
  <2>3. CASE u # r
    <3>1. /\ position'[u] = position[u] /\ done'[u] = done[u] /\ queueState'[u] = queueState[u]
          /\ header'[u] = header[u] /\ idled'[u] = idled[u]
      BY <1>4, <1>6, <2>3
    <3>2. AtRest(position[u])' = AtRest(position[u])
      BY <1>1, <3>1 DEF AtRest, Q!Live
    <3> QED
      BY <1>1, <3>1, <3>2 DEF Remembered
  <2> QED
    BY <2>2, <2>3
<1>10. Backed'
  BY <1>1, <1>4, <1>5, NothingSatisfies DEF Backed
<1> QED
  BY <1>8, <1>9, <1>10

\* One more read.
LEMMA ReadKeeps ==
  ASSUME OInv, NEW r \in Readers, Read(r)
  PROVE  OInv'
<1> USE DEF OInv, Types
<1>1. /\ UNCHANGED <<queue, results, claim, position, shown, idled>>
      /\ position[r] \in Positions /\ position[r] # 0 /\ done[r] \in {0, 1, 2}
      /\ done' = [done EXCEPT ![r] = done[r] + 1]
  BY Order DEF Read, Reading, qvars, hvars
<1>2. Q!TypeOK'
  BY <1>1 DEF Q!TypeOK
<1>3. CASE done[r] = 0
  <2>1. /\ queueState' = [queueState EXCEPT ![r] = queue[position[r]].state]
        /\ UNCHANGED <<header, lines>>
    BY <1>3, Order DEF Read
  <2>2. Types'
    <3>1. done' = [done EXCEPT ![r] = 1]
      BY <1>1, <1>3
    <3>2. queueState' \in [Readers -> {"absent", "queued", "running"}]
      BY <1>1, <2>1, RowStates
    <3>3. done' \in [Readers -> 0..3] /\ \A u \in Readers : done'[u] \in {0, 1} => done[u] \in {0, 1}
      BY <1>3, <3>1
    <3> QED
      BY <1>1, <1>2, <2>1, <3>2, <3>3
  <2>3. Remembered'
    BY <1>1, <1>3, <2>1, RestIsAbsence DEF Remembered, AtRest, Q!Live
  <2>4. Backed'
    BY <1>1, <1>3, <2>1 DEF Backed
  <2> QED
    BY <2>2, <2>3, <2>4
<1>4. CASE done[r] = 1
  <2>1. /\ header' = [header EXCEPT ![r] = results[position[r]]]
        /\ UNCHANGED <<queueState, lines>>
    BY <1>4, Order DEF Read
  <2>2. Types'
    <3>1. done' = [done EXCEPT ![r] = 2] /\ header[r] = Q!NoResult
      BY <1>1, <1>4
    <3>2. header' \in [Readers -> Found] /\ lines[r] = Q!NoResult
      BY <1>1, <2>1, <3>1, RowStates
    <3>3. done' \in [Readers -> 0..3] /\ done'[r] = 2 /\ \A u \in Readers \ {r} : done'[u] = done[u]
      BY <3>1
    <3>4. \A u \in Readers \ {r} : header'[u] = header[u]
      BY <2>1
    <3> QED
      BY <1>1, <1>2, <2>1, <3>2, <3>3, <3>4
  <2>3. Remembered'
    BY <1>1, <1>4, <2>1 DEF Remembered, AtRest
  <2>4. Backed'
    BY <1>1, <1>4, <2>1 DEF Backed
  <2> QED
    BY <2>2, <2>3, <2>4
<1>5. CASE done[r] = 2
  <2>1. /\ lines' = [lines EXCEPT ![r] = Lines(r, position[r])]
        /\ UNCHANGED <<queueState, header>>
    BY <1>5, Order DEF Read
  <2>2. Lines(r, position[r]) \in Found /\ (Lines(r, position[r]) # Q!NoResult => header[r] # Q!NoResult)
    BY <1>1, RowStates DEF Lines, Found
  <2>3. Types'
    BY <1>1, <1>2, <1>5, <2>1, <2>2
  <2>4. Remembered'
    BY <1>1, <1>5, <2>1 DEF Remembered, AtRest
  <2>5. Backed'
    BY <1>1, <1>5, <2>1 DEF Backed
  <2> QED
    BY <2>3, <2>4, <2>5
<1> QED
  BY <1>1, <1>3, <1>4, <1>5

\* Whatever the workers and requests do between two reads.
LEMMA EnvironmentKeepsInv ==
  ASSUME OInv, Environment
  PROVE  OInv'
<1> USE DEF OInv, Types
<1>1. /\ UNCHANGED <<position, done, queueState, header, lines, shown>>
      /\ idled' = [r \in Readers |-> \/ idled[r]
                                     \/ Reading(r) /\ queue'[position[r]].state = "absent"
                                                   /\ results'[position[r]] = Q!NoResult]
  BY DEF Environment, rvars
<1>2. /\ Q!TypeOK'
      /\ \A p \in Positions : results[p] # Q!NoResult => results'[p] # Q!NoResult
      /\ \A p \in Positions, q \in Q!Quality : Q!Satisfies(results[p], q) => Q!Satisfies(results'[p], q)
  BY EnvironmentKeeps DEF Environment
<1>3. idled' \in [Readers -> BOOLEAN]
  BY <1>1 DEF Reading
<1>4. Types'
  BY <1>1, <1>2, <1>3
<1>5. Remembered'
  <2> SUFFICES ASSUME NEW r \in Readers, position[r] # 0
      PROVE  /\ done[r] < 3 /\ AtRest(position[r])' => idled'[r]
             /\ done[r] >= 1 /\ queueState[r] = "absent" /\ results'[position[r]] = Q!NoResult => idled'[r]
             /\ done[r] >= 2 /\ queueState[r] = "absent" /\ header[r] = Q!NoResult => idled'[r]
    BY <1>1 DEF Remembered
  <2>1. position[r] \in Positions
    OBVIOUS
  <2>2. idled[r] => idled'[r]
    BY <1>1
  <2>3. ASSUME done[r] < 3, AtRest(position[r])' PROVE idled'[r]
    <3>1. Reading(r)
      BY <2>3, Order DEF Reading
    <3>2. queue'[position[r]].state = "absent" /\ results'[position[r]] = Q!NoResult
      BY <1>1, <2>1, <2>3 DEF AtRest, Q!Live
    <3> QED
      BY <1>1, <3>1, <3>2
  <2>4. results'[position[r]] = Q!NoResult => results[position[r]] = Q!NoResult
    BY <1>2, <2>1
  <2> QED
    BY <2>2, <2>3, <2>4 DEF Remembered
<1>6. Backed'
  BY <1>1, <1>2 DEF Backed
<1> QED
  BY <1>4, <1>5, <1>6

LEMMA StutterKeeps == ASSUME OInv, UNCHANGED vars PROVE OInv'
<1>1. UNCHANGED <<queue, results, claim, position, done, queueState, header, lines, shown, idled>>
  BY DEF vars, qvars, rvars, hvars
<1> QED
  BY <1>1 DEF OInv, Types, Remembered, Backed, AtRest, Q!TypeOK, Q!Live

LEMMA StepInv == OInv /\ [Next]_vars => OInv'
BY BeginKeeps, ReadKeeps, EnvironmentKeepsInv, StutterKeeps DEF Next

LEMMA ObservationInvariant == Spec => []OInv
BY InitInv, StepInv, PTL DEF Spec

-----------------------------------------------------------------------------
(* What follows. *)

\* The observations are well formed.
THEOREM TypesAreCorrect == Spec => []TypeOK
<1>1. OInv => TypeOK
  BY Order DEF OInv, Types, TypeOK, Found
<1> QED
  BY <1>1, ObservationInvariant, PTL

\* A client is told "not requested" only of a position that was at rest at some moment of its reads.
THEOREM NotRequestedIsTrue == Spec => []NotRequestedWasTrue
<1>1. OInv => NotRequestedWasTrue
  BY Order DEF OInv, Types, Remembered, NotRequestedWasTrue, Finished, State
<1> QED
  BY <1>1, ObservationInvariant, PTL

\* The answers a client polls never get worse, whoever publishes meanwhile.
THEOREM AnswersDoNotWorsen == Spec => []ObservationsNeverWorsen
<1>1. OInv => ObservationsNeverWorsen
  BY Order DEF OInv, Types, Backed, ObservationsNeverWorsen, Finished
<1> QED
  BY <1>1, ObservationInvariant, PTL

\* Observations are true for any positions, clients and readers.
THEOREM ObservationsStayTrue == Spec => []ObservationsAreTrue
BY TypesAreCorrect, NotRequestedIsTrue, AnswersDoNotWorsen, PTL DEF ObservationsAreTrue

HIDE ObservationAssumption DEF ObservationAssumption

-----------------------------------------------------------------------------

(* The panel that shows analyses. *)

Works == [queue : {"none", "queued", "running"}, result : Polling!Results]

Answers ==
  [fen : Fens, state : {"queued", "running", "ready", "not_requested"}, result : Polling!Results, asked : Nat]

Shown == Answers \cup {Polling!NotShown}

Panels ==
  [fen : Fens, shown : Shown, loading : BOOLEAN, error : {"none", "failed"}, refused : BOOLEAN,
   pending : BOOLEAN, timer : BOOLEAN, polls : 0 .. MaxPolls, count : Nat]

Reads == [fen : Fens, answer : Shown, state : {"sent", "done", "failed"}]

Requests == [id : Nat, fen : Fens, live : BOOLEAN, answer : Shown, state : {"sent", "done", "failed"}]

PollingShapes ==
  /\ server \in [Polling!Positions -> Works] /\ asked \in [Polling!Positions -> Nat]
  /\ ui \in Panels /\ reads \subseteq Reads /\ requests \subseteq Requests
  /\ events \in Nat /\ abandoned \in BOOLEAN

\* A result of which an answer knows is there.
Kept(answer) == answer.result > 0 => server[answer.fen.position].result > 0

\* One read at most, of what is on the board; what it answers is no worse than what
\* is shown.
ReadsInv ==
  /\ \A r, s \in reads : r = s
  /\ ui.timer => reads = {}
  /\ ui.loading => reads # {} /\ ui.error = "none"
  /\ \A r \in reads :
       /\ r.fen = ui.fen
       /\ r.state = "done" =>
            /\ r.answer \in Answers /\ r.answer.fen = r.fen /\ Kept(r.answer)
            /\ ui.shown.result > 0 => r.answer.result > 0

ShownInv ==
  /\ ui.shown # Polling!NotShown =>
       ui.shown \in Answers /\ ui.shown.fen.position = ui.fen.position /\ Kept(ui.shown)
  /\ Polling!ActiveIsWatched

\* One request at most is the panel's own, for the position on the board.
RequestsInv ==
  /\ ui.pending <=> \E c \in requests : c.live
  /\ \A c, d \in requests : c.live /\ d.live => c = d
  /\ \A c \in requests : c.live => Polling!Same(ui, c.fen)
  /\ \A c \in requests : c.state = "done" =>
       /\ c.answer \in Answers /\ c.answer.fen = c.fen /\ Kept(c.answer)
       /\ Polling!Active(c.answer) \/ c.answer.result > 0

\* What the panel knows, or is about to read, is from after the last request.
Informed ==
  LET now == asked[ui.fen.position] IN
  /\ \A r \in reads : r.state = "done" => r.answer.asked = now
  /\ reads = {} /\ ui.error = "none" => ui.shown.asked = now

\* Unless a request was given up, all are the panel's own, and it is informed but for
\* a request that was acted on and not yet heard of.
RestInv ==
  ~abandoned =>
    /\ \A c \in requests : c.live
    /\ Informed \/ \E c \in requests : c.state = "done"

PollingInv == PollingShapes /\ ReadsInv /\ ShownInv /\ RequestsInv /\ RestInv

USE PollingHolds DEF Polling!PollingAssumption

LEMMA Places == \A f \in Fens : f.position \in Polling!Positions
BY DEF Polling!Positions

\* Another fen, or the same again, is observed: what becomes of the panel.
LEMMA ObservingFields ==
  ASSUME NEW u \in Panels, NEW f \in Fens
  PROVE  LET o == Polling!Observing(u, f) IN
         /\ o \in Panels /\ o.fen = f /\ o.loading /\ o.error = "none" /\ ~o.timer
         /\ o.shown = (IF Polling!Same(u, f) THEN u.shown ELSE Polling!NotShown)
         /\ o.pending <=> (u.pending /\ Polling!Same(u, f))
<1> DEFINE s == IF Polling!Same(u, f) THEN u.shown ELSE Polling!NotShown
           p == u.pending /\ Polling!Same(u, f)
<1>1. /\ s \in Shown /\ p \in BOOLEAN /\ 0 \in 0 .. MaxPolls
      /\ u.refused \in BOOLEAN /\ u.count \in Nat
  BY DEF Panels, Shown, Polling!Same
<1> DEFINE o == [u EXCEPT !.fen = f, !.loading = TRUE, !.error = "none", !.timer = FALSE, !.polls = 0,
                          !.refused = FALSE, !.shown = s, !.pending = p]
<1>2. Polling!Observing(u, f) = o
  BY Zenon DEF Polling!Observing
<1> HIDE DEF s, p
<1>3. o \in Panels
  BY <1>1 DEF Panels
<1>4. o.fen = f /\ o.loading /\ o.error = "none" /\ ~o.timer /\ o.shown = s
  BY <1>1 DEF Panels
<1>5. o.pending = p
  BY <1>1 DEF Panels
<1> HIDE DEF o
<1> USE DEF s, p
<1> QED
  BY <1>2, <1>3, <1>4, <1>5

\* The first read of an observation.
LEMMA ObserveFields ==
  ASSUME NEW f \in Fens
  PROVE  /\ Polling!Observe(f) \in Reads /\ Polling!Observe(f).fen = f
         /\ Polling!Observe(f).state = "sent"
BY DEF Polling!Observe, Reads, Shown

LEMMA PollingInitHolds == Polling!Init => PollingInv
<1> SUFFICES ASSUME Polling!Init PROVE PollingInv
  OBVIOUS
<1>1. PICK f \in Fens : ui = Polling!Start(f) /\ reads = {Polling!Observe(f)}
  BY DEF Polling!Init
<1>2. /\ ui \in Panels /\ ui.fen = f /\ ui.shown = Polling!NotShown /\ ui.error = "none" /\ ~ui.timer /\ ~ui.pending
  BY <1>1 DEF Polling!Start, Panels, Shown
<1>3. PollingShapes
  <2>1. [queue |-> "none", result |-> 0] \in Works
    BY DEF Works, Polling!Results
  <2>2. server \in [Polling!Positions -> Works] /\ asked \in [Polling!Positions -> Nat]
    BY <2>1 DEF Polling!Init
  <2> QED
    BY <1>1, <1>2, <2>2, ObserveFields DEF PollingShapes, Polling!Init
<1> QED
  BY <1>1, <1>2, <1>3, ObserveFields
     DEF PollingInv, ReadsInv, ShownInv, RequestsInv, RestInv, Informed, Polling!Init, Polling!ActiveIsWatched,
         Polling!NotShown, Polling!Active

\* Whenever something is observed anew: what is left to show.
LEMMA Anew ==
  ASSUME PollingInv, NEW u \in Panels, NEW f \in Fens,
         ui' = Polling!Observing(u, f), reads' = {Polling!Observe(f)}, server' = server, asked' = asked,
         events' \in Nat, abandoned' \in BOOLEAN, requests' \subseteq Requests,
         Polling!Same(u, f) /\ u.shown # Polling!NotShown =>
           u.shown \in Answers /\ u.shown.fen.position = u.fen.position /\ Kept(u.shown),
         RequestsInv', ~abandoned' => \A c \in requests' : c.live
  PROVE  PollingInv'
<1>1. /\ ui' \in Panels /\ ui'.fen = f /\ ui'.loading /\ ui'.error = "none" /\ ~ui'.timer
      /\ ui'.shown = (IF Polling!Same(u, f) THEN u.shown ELSE Polling!NotShown)
  BY ObservingFields
<1>2. \A r \in reads' : r.fen = f /\ r.state = "sent" /\ r \in Reads
  BY ObserveFields
<1>3. \A a : Kept(a)' <=> Kept(a)
  BY DEF Kept
<1>4. PollingShapes'
  BY <1>1, <1>2 DEF PollingInv, PollingShapes
<1>5. ReadsInv'
  BY <1>1, <1>2 DEF ReadsInv
<1>6. ShownInv'
  BY <1>1, <1>3 DEF ShownInv, Polling!ActiveIsWatched, Polling!Same
<1>7. RestInv'
  BY <1>1, <1>2 DEF RestInv, Informed
<1> QED
  BY <1>4, <1>5, <1>6, <1>7 DEF PollingInv

LEMMA Deaf ==
  ASSUME PollingShapes
  PROVE  LET left == {[c EXCEPT !.live = FALSE] : c \in requests} IN
         /\ left \subseteq Requests /\ \A c \in left : ~c.live
         /\ \A c \in left : \E d \in requests : c.state = d.state /\ c.answer = d.answer /\ c.fen = d.fen
BY DEF PollingShapes, Requests

LEMMA GoStep == ASSUME PollingInv, NEW f \in Fens, Polling!Go(f) PROVE PollingInv'
<1>1. /\ ui' = Polling!Observing(ui, f) /\ reads' = {Polling!Observe(f)} /\ server' = server /\ asked' = asked
      /\ ui \in Panels /\ events' \in Nat
  BY DEF Polling!Go, Polling!Acts, Polling!ReadsAfter, PollingInv, PollingShapes
<1>2. /\ ui'.fen = f /\ ui'.shown = (IF Polling!Same(ui, f) THEN ui.shown ELSE Polling!NotShown)
      /\ ui'.pending <=> (ui.pending /\ Polling!Same(ui, f))
  BY <1>1, ObservingFields
<1>3. \A a : Kept(a)' <=> Kept(a)
  BY <1>1 DEF Kept
<1>4. CASE Polling!Same(ui, f)
  <2>1. requests' = requests /\ abandoned' = abandoned
    BY <1>4 DEF Polling!Go
  <2>2. RequestsInv'
    BY <1>2, <1>3, <1>4, <2>1 DEF PollingInv, RequestsInv, Polling!Same
  <2> QED
    BY <1>1, <2>1, <2>2, Anew DEF PollingInv, PollingShapes, ShownInv, RestInv
<1>5. CASE ~Polling!Same(ui, f)
  <2>1. /\ requests' = {[c EXCEPT !.live = FALSE] : c \in requests}
        /\ abandoned' = (abandoned \/ \E c \in requests : c.live)
    BY <1>5 DEF Polling!Go
  <2>2. /\ requests' \subseteq Requests /\ \A c \in requests' : ~c.live
        /\ \A c \in requests' : \E d \in requests : c.state = d.state /\ c.answer = d.answer /\ c.fen = d.fen
    BY <2>1, Deaf DEF PollingInv
  <2>3. RequestsInv'
    BY <1>2, <1>3, <1>5, <2>2 DEF PollingInv, RequestsInv, Polling!Same
  <2>4. ~abandoned' => requests' = {}
    BY <2>1 DEF PollingInv, RestInv
  <2>5. abandoned' \in BOOLEAN
    BY <2>1
  <2> QED
    BY <1>1, <1>5, <2>2, <2>3, <2>4, <2>5, Anew
<1> QED
  BY <1>4, <1>5

LEMMA RetryStep == ASSUME PollingInv, Polling!Retry PROVE PollingInv'
<1>1. /\ ui' = Polling!Observing(ui, ui.fen) /\ reads' = {Polling!Observe(ui.fen)}
      /\ server' = server /\ asked' = asked /\ requests' = requests /\ abandoned' = abandoned
      /\ ui \in Panels /\ events' \in Nat /\ ui.fen \in Fens
  BY DEF Polling!Retry, Polling!Acts, Polling!ReadsAfter, PollingInv, PollingShapes, Panels
<1>2. ui'.fen = ui.fen /\ (ui'.pending <=> ui.pending)
  BY <1>1, ObservingFields DEF Polling!Same, Panels
<1>3. \A a : Kept(a)' <=> Kept(a)
  BY <1>1 DEF Kept
<1>4. RequestsInv'
  BY <1>1, <1>2, <1>3 DEF PollingInv, RequestsInv, Polling!Same
<1> QED
  BY <1>1, <1>4, Anew DEF PollingInv, PollingShapes, ShownInv, RestInv

LEMMA AnalyzeStep == ASSUME PollingInv, Polling!Analyze PROVE PollingInv'
<1>1. /\ ui \in Panels /\ ~ui.pending /\ events' \in Nat
      /\ ui' = [ui EXCEPT !.count = @ + 1, !.pending = TRUE, !.refused = FALSE]
      /\ server' = server /\ asked' = asked /\ reads' = reads /\ abandoned' = abandoned
  BY DEF Polling!Analyze, Polling!Acts, PollingInv, PollingShapes
<1>2. /\ ui' \in Panels /\ ui'.pending /\ ui'.fen = ui.fen /\ ui'.shown = ui.shown
      /\ ui'.timer = ui.timer /\ ui'.loading = ui.loading /\ ui'.error = ui.error
  <2>1. ui.count + 1 \in Nat
    BY <1>1 DEF Panels
  <2> QED
    BY <1>1, <2>1 DEF Panels
<1> DEFINE left == {[c EXCEPT !.live = FALSE] : c \in requests}
           mine == [id |-> ui.count + 1, fen |-> ui.fen, live |-> TRUE, answer |-> Polling!NotShown, state |-> "sent"]
<1>3. requests' = left \cup {mine}
  BY DEF Polling!Analyze
<1>4. mine \in Requests /\ mine.live /\ mine.fen = ui.fen /\ mine.state = "sent"
  BY <1>1 DEF Requests, Panels, Shown
<1>5. /\ left \subseteq Requests /\ \A c \in left : ~c.live
      /\ \A c \in left : \E d \in requests : c.state = d.state /\ c.answer = d.answer /\ c.fen = d.fen
  BY Deaf DEF PollingInv
<1>6. \A c \in requests : ~c.live
  BY <1>1 DEF PollingInv, RequestsInv
<1>7. ~abandoned => left = {}
  BY <1>6 DEF PollingInv, RestInv
<1> HIDE DEF left, mine
<1>8. \A a : Kept(a)' <=> Kept(a)
  BY <1>1 DEF Kept
<1>9. PollingShapes'
  BY <1>1, <1>2, <1>3, <1>4, <1>5 DEF PollingInv, PollingShapes
<1>10. ReadsInv' /\ ShownInv'
  BY <1>1, <1>2, <1>8 DEF PollingInv, ReadsInv, ShownInv, Polling!ActiveIsWatched
<1>11. RequestsInv'
  BY <1>2, <1>3, <1>4, <1>5, <1>8 DEF PollingInv, RequestsInv, Polling!Same
<1>12. RestInv'
  <2> SUFFICES ASSUME ~abandoned PROVE (\A c \in requests' : c.live) /\ Informed'
    BY <1>1 DEF RestInv
  <2>1. requests' = {mine}
    BY <1>3, <1>7
  <2>2. requests = {}
    BY <1>6 DEF PollingInv, RestInv
  <2> QED
    BY <1>1, <1>2, <1>4, <2>1, <2>2 DEF PollingInv, RestInv, Informed
<1> QED
  BY <1>9, <1>10, <1>11, <1>12 DEF PollingInv

LEMMA PollStep == ASSUME PollingInv, Polling!Poll PROVE PollingInv'
<1>1. /\ ui \in Panels /\ ui.timer /\ reads = {} /\ ~ui.loading /\ ui.fen \in Fens
      /\ server' = server /\ asked' = asked /\ requests' = requests /\ events' = events /\ abandoned' = abandoned
  BY DEF Polling!Poll, PollingInv, PollingShapes, ReadsInv, Panels
<1>2. /\ ui' \in Panels /\ ui'.fen = ui.fen /\ ui'.shown = ui.shown /\ ui'.pending = ui.pending
      /\ ~ui'.timer /\ ~ui'.loading
      /\ \/ ui'.error = "failed" /\ reads' = {}
         \/ ui'.error = ui.error /\ reads' = {Polling!Observe(ui.fen)}
  <2>1. CASE ui.polls >= MaxPolls
    BY <1>1, <2>1 DEF Polling!Poll, Polling!Failed, Panels
  <2>2. CASE ui.polls < MaxPolls
    <3>1. ui' = [ui EXCEPT !.timer = FALSE, !.polls = @ + 1] /\ reads' = {Polling!Observe(ui.fen)}
      BY <1>1, <2>2 DEF Polling!Poll, Panels
    <3>2. ui.polls + 1 \in 0 .. MaxPolls
      BY <1>1, <2>2 DEF Panels
    <3> QED
      BY <1>1, <3>1, <3>2 DEF Panels
  <2> QED
    BY <1>1, <2>1, <2>2 DEF Panels
<1>3. \A a : Kept(a)' <=> Kept(a)
  BY <1>1 DEF Kept
<1>4. \A r \in reads' : r.fen = ui.fen /\ r.state = "sent" /\ r \in Reads
  BY <1>1, <1>2, ObserveFields
<1>5. PollingShapes'
  BY <1>1, <1>2, <1>4 DEF PollingInv, PollingShapes
<1>6. ReadsInv' /\ ShownInv'
  BY <1>1, <1>2, <1>3, <1>4 DEF PollingInv, ReadsInv, ShownInv, Polling!ActiveIsWatched
<1>7. RequestsInv' /\ RestInv'
  BY <1>1, <1>2, <1>3, <1>4 DEF PollingInv, RequestsInv, RestInv, Informed, Polling!Same
<1> QED
  BY <1>5, <1>6, <1>7 DEF PollingInv

LEMMA AnswerStep == ASSUME PollingInv, NEW r \in reads, Polling!Answer(r) PROVE PollingInv'
<1>1. /\ server' = server /\ asked' = asked /\ ui' = ui /\ requests' = requests /\ events' = events
      /\ abandoned' = abandoned /\ reads = {r} /\ r \in Reads /\ r.fen = ui.fen /\ r.fen \in Fens
  BY DEF Polling!Answer, PollingInv, PollingShapes, ReadsInv, Reads
<1> DEFINE told == Polling!Observation(r.fen, server[r.fen.position], asked[r.fen.position])
<1>2. PICK a \in {[r EXCEPT !.state = "failed"], [r EXCEPT !.state = "done", !.answer = told]} : reads' = {a}
  BY <1>1 DEF Polling!Answer
<1>3. /\ told \in Answers /\ told.fen = r.fen /\ told.result = server[r.fen.position].result
      /\ told.asked = asked[r.fen.position]
  <2>1. server[r.fen.position] \in Works /\ asked[r.fen.position] \in Nat
    BY <1>1, Places DEF PollingInv, PollingShapes
  <2>2. Polling!StateOf(server[r.fen.position]) \in {"queued", "running", "ready", "not_requested"}
    BY <2>1 DEF Polling!StateOf, Works
  <2> QED
    BY <1>1, <2>1, <2>2 DEF Polling!Observation, Answers, Works
<1> HIDE DEF told
<1>4. /\ a \in Reads /\ a.fen = ui.fen
      /\ a.state = "failed" \/ (a.state = "done" /\ a.answer = told)
  BY <1>1, <1>2, <1>3 DEF Reads, Shown
<1>5. \A b : Kept(b)' <=> Kept(b)
  BY <1>1 DEF Kept
<1>6. PollingShapes'
  BY <1>1, <1>2, <1>4 DEF PollingInv, PollingShapes
<1>7. ReadsInv'
  <2>1. Kept(told)
    BY <1>3 DEF Kept
  <2>2. ui.shown.result > 0 => told.result > 0
    BY <1>1, <1>3 DEF PollingInv, ShownInv, Kept, Polling!NotShown
  <2> QED
    BY <1>1, <1>2, <1>3, <1>4, <1>5, <2>1, <2>2 DEF PollingInv, ReadsInv
<1>8. ShownInv' /\ RequestsInv'
  BY <1>1, <1>2, <1>5 DEF PollingInv, ShownInv, RequestsInv, Polling!ActiveIsWatched, Polling!Same
<1>9. RestInv'
  BY <1>1, <1>2, <1>3, <1>4 DEF PollingInv, RestInv, Informed
<1> QED
  BY <1>6, <1>7, <1>8, <1>9 DEF PollingInv

\* An answer is merged with what is shown.
LEMMA MergedFields ==
  ASSUME NEW current \in Shown, NEW next \in Answers
  PROVE  LET o == Polling!Merged(current, next) IN
         /\ o \in Answers /\ o.fen = next.fen /\ o.state = next.state /\ o.asked = next.asked
         /\ o.result = next.result \/ o.result = current.result
         /\ next.result > 0 => o.result = next.result
         /\ (/\ current # Polling!NotShown /\ current.fen.position = next.fen.position
             /\ Polling!Active(next) \/ next.result > 0
             /\ current.result > 0)
              => o.result > 0
         /\ o.result = current.result /\ o.result # next.result =>
              current # Polling!NotShown /\ current.fen.position = next.fen.position
<1> DEFINE keep == /\ Polling!Active(next) /\ next.result = 0
                   /\ current # Polling!NotShown /\ current.fen.position = next.fen.position
           o == [next EXCEPT !.result = current.result]
<1>1. Polling!Merged(current, next) = IF keep THEN o ELSE next
  BY DEF Polling!Merged
<1>2. next.result \in Polling!Results /\ next.result >= 0
  BY DEF Answers, Polling!Results
<1>3. ASSUME keep
      PROVE  /\ o \in Answers /\ o.fen = next.fen /\ o.state = next.state /\ o.asked = next.asked
             /\ o.result = current.result
  <2>1. current.result \in Polling!Results
    BY <1>3 DEF Shown, Answers
  <2> QED
    BY <2>1 DEF Answers
<1>4. CASE keep
  <2>1. Polling!Merged(current, next) = o /\ next.result = 0
    BY <1>1, <1>4
  <2>2. current # Polling!NotShown /\ current.fen.position = next.fen.position
    BY <1>4
  <2> HIDE DEF o, keep
  <2> QED
    BY <1>3, <1>4, <2>1, <2>2
<1>5. CASE ~keep
  <2>1. Polling!Merged(current, next) = next
    BY <1>1, <1>5
  <2>2. current # Polling!NotShown /\ current.fen.position = next.fen.position /\ Polling!Active(next)
          => next.result > 0
    BY <1>2, <1>5 DEF Polling!Results
  <2> HIDE DEF o, keep
  <2> QED
    BY <1>2, <2>1, <2>2
<1> QED
  BY <1>4, <1>5

LEMMA HearReadStep == ASSUME PollingInv, NEW r \in reads, Polling!HearRead(r) PROVE PollingInv'
<1>1. /\ server' = server /\ asked' = asked /\ requests' = requests /\ events' = events /\ abandoned' = abandoned
      /\ reads = {r} /\ reads' = {} /\ r.fen = ui.fen /\ ui \in Panels /\ r \in Reads
      /\ r.state = "failed" \/ r.state = "done"
  BY DEF Polling!HearRead, PollingInv, PollingShapes, ReadsInv, Reads
<1>2. \A a : Kept(a)' <=> Kept(a)
  BY <1>1 DEF Kept
<1>3. CASE r.state = "failed"
  <2>1. /\ ui' \in Panels /\ ui'.fen = ui.fen /\ ui'.shown = ui.shown /\ ui'.pending = ui.pending
        /\ ~ui'.timer /\ ~ui'.loading /\ ui'.error = "failed"
    BY <1>1, <1>3 DEF Polling!HearRead, Polling!Failed, Panels
  <2>2. PollingShapes' /\ ReadsInv' /\ ShownInv'
    BY <1>1, <1>2, <2>1
       DEF PollingInv, PollingShapes, ReadsInv, ShownInv, Polling!ActiveIsWatched
  <2>3. RequestsInv' /\ RestInv'
    BY <1>1, <1>2, <2>1 DEF PollingInv, RequestsInv, RestInv, Informed, Polling!Same
  <2> QED
    BY <2>2, <2>3 DEF PollingInv
<1>4. CASE r.state = "done"
  <2>1. /\ r.answer \in Answers /\ r.answer.fen = ui.fen /\ Kept(r.answer)
        /\ ui.shown.result > 0 => r.answer.result > 0
        /\ ui.shown \in Shown
    BY <1>1, <1>4 DEF PollingInv, ReadsInv, Panels
  <2> DEFINE next == Polling!Merged(ui.shown, r.answer)
             active == Polling!Active(r.answer)
  <2>2. /\ next \in Answers /\ next.fen = ui.fen /\ next.state = r.answer.state /\ next.asked = r.answer.asked
        /\ Kept(next)
    BY <2>1, MergedFields DEF PollingInv, ShownInv, Kept
  <2>3. active \in BOOLEAN /\ (active <=> Polling!Active(next))
    BY <2>2 DEF Polling!Active
  <2>4. ui' = [ui EXCEPT !.shown = next, !.loading = FALSE, !.error = "none", !.timer = active]
    BY <1>4 DEF Polling!HearRead
  <2> HIDE DEF next, active
  <2>5. /\ ui' \in Panels /\ ui'.fen = ui.fen /\ ui'.shown = next /\ ui'.pending = ui.pending
        /\ ~ui'.loading /\ ui'.error = "none"
    BY <1>1, <2>2, <2>3, <2>4 DEF Panels, Shown
  <2>6. ui'.timer = active
    BY <1>1, <2>2, <2>3, <2>4 DEF Panels
  <2>7. PollingShapes' /\ ReadsInv'
    BY <1>1, <2>5 DEF PollingInv, PollingShapes, ReadsInv
  <2>8. ShownInv'
    BY <1>1, <1>2, <2>2, <2>3, <2>5, <2>6 DEF ShownInv, Polling!ActiveIsWatched
  <2>9. RequestsInv' /\ RestInv'
    BY <1>1, <1>2, <1>4, <2>2, <2>5 DEF PollingInv, RequestsInv, RestInv, Informed, Polling!Same
  <2> QED
    BY <2>7, <2>8, <2>9 DEF PollingInv
<1> QED
  BY <1>1, <1>3, <1>4

\* Nothing that is stored for a position is lost when its server works.
LEMMA StoredStays ==
  ASSUME PollingInv, NEW p \in Polling!Positions, NEW s \in Works,
         server' = [server EXCEPT ![p] = s], s.result > 0 \/ s.result = server[p].result
  PROVE  /\ server' \in [Polling!Positions -> Works]
         /\ \A a \in Answers : Kept(a) => Kept(a)'
BY Places DEF PollingInv, PollingShapes, Kept, Answers

LEMMA ApplyStep == ASSUME PollingInv, NEW c \in requests, Polling!Apply(c) PROVE PollingInv'
<1> DEFINE p == c.fen.position
           s == Polling!Requested(server[p])
           told == Polling!Observation(c.fen, server'[p], asked'[p])
           d == [c EXCEPT !.state = "done", !.answer = told]
<1>1. /\ ui' = ui /\ reads' = reads /\ events' = events /\ abandoned' = abandoned
      /\ c.state = "sent" /\ c \in Requests /\ c.fen \in Fens /\ p \in Polling!Positions
      /\ server' = [server EXCEPT ![p] = s] /\ asked' = [asked EXCEPT ![p] = @ + 1]
      /\ requests' = (requests \ {c}) \cup {d}
  BY Places DEF Polling!Apply, PollingInv, PollingShapes, Requests
<1>2. /\ s \in Works /\ s.result = server[p].result /\ (s.queue # "none" \/ s.result > 0)
  <2>1. server[p] \in Works
    BY <1>1 DEF PollingInv, PollingShapes
  <2> QED
    BY <2>1 DEF Polling!Requested, Works, Polling!Results
<1>3. server' \in [Polling!Positions -> Works] /\ \A a \in Answers : Kept(a) => Kept(a)'
  BY <1>1, <1>2, StoredStays
<1>4. asked' \in [Polling!Positions -> Nat] /\ server'[p] = s
  BY <1>1 DEF PollingInv, PollingShapes
<1> HIDE DEF s
<1>5. /\ told \in Answers /\ told.fen = c.fen /\ told.result = s.result
      /\ Polling!Active(told) \/ told.result > 0
  <2>1. /\ Polling!StateOf(s) \in {"queued", "running", "ready", "not_requested"}
        /\ Polling!StateOf(s) \in {"queued", "running"} \/ s.result > 0
    BY <1>2 DEF Polling!StateOf, Works
  <2> QED
    BY <1>1, <1>2, <1>4, <2>1 DEF Polling!Observation, Answers, Polling!Active, Works
<1> HIDE DEF told
<1>6. told.result > 0 => server'[told.fen.position].result > 0
  BY <1>4, <1>5
<1>7. /\ d \in Requests /\ d.fen = c.fen /\ (d.live <=> c.live) /\ d.state = "done" /\ d.answer = told
  BY <1>1, <1>5 DEF Requests, Shown
<1> HIDE DEF d, p
<1>8. PollingShapes'
  BY <1>1, <1>3, <1>4, <1>7 DEF PollingInv, PollingShapes
<1>9. ReadsInv'
  BY <1>1, <1>3 DEF PollingInv, ReadsInv
<1>10. ShownInv'
  BY <1>1, <1>3 DEF PollingInv, ShownInv, Polling!ActiveIsWatched
<1>11. RequestsInv'
  <2>1. RequestsInv
    BY DEF PollingInv
  <2>2. /\ ui'.pending <=> \E e \in requests' : e.live
        /\ \A e, f \in requests' : e.live /\ f.live => e = f
        /\ \A e \in requests' : e.live => e.fen.position = ui'.fen.position
    BY <1>1, <1>7, <2>1 DEF RequestsInv, Polling!Same
  <2>3. ASSUME NEW e \in requests', e.state = "done"
        PROVE  /\ e.answer \in Answers /\ e.answer.fen = e.fen /\ Kept(e.answer)'
               /\ Polling!Active(e.answer) \/ e.answer.result > 0
    <3>1. CASE e \in requests
      BY <1>3, <2>1, <2>3, <3>1 DEF RequestsInv
    <3>2. CASE e = d
      BY <1>5, <1>6, <1>7, <3>2 DEF Kept
    <3> QED
      BY <1>1, <3>1, <3>2
  <2> QED
    BY <2>2, <2>3 DEF RequestsInv, Polling!Same
<1>12. RestInv'
  BY <1>1, <1>7 DEF PollingInv, RestInv
<1> QED
  BY <1>8, <1>9, <1>10, <1>11, <1>12 DEF PollingInv

LEMMA FailStep == ASSUME PollingInv, NEW c \in requests, Polling!Fail(c) PROVE PollingInv'
<1> DEFINE d == [c EXCEPT !.state = "failed"]
<1>1. /\ ui' = ui /\ reads' = reads /\ events' = events /\ server' = server /\ asked' = asked
      /\ abandoned' = (abandoned \/ c.state = "done") /\ c \in Requests
      /\ requests' = (requests \ {c}) \cup {d}
  BY DEF Polling!Fail, PollingInv, PollingShapes
<1>2. /\ d \in Requests /\ d.fen = c.fen /\ d.live = c.live /\ d.state = "failed"
  BY <1>1 DEF Requests
<1>3. \A a : Kept(a)' <=> Kept(a)
  BY <1>1 DEF Kept
<1> HIDE DEF d
<1>4. abandoned' \in BOOLEAN
  BY <1>1
<1>5. PollingShapes' /\ ReadsInv' /\ ShownInv'
  BY <1>1, <1>2, <1>3, <1>4 DEF PollingInv, PollingShapes, ReadsInv, ShownInv, Polling!ActiveIsWatched
<1>6. RequestsInv'
  BY <1>1, <1>2, <1>3 DEF PollingInv, RequestsInv, Polling!Same
<1>7. RestInv'
  <2> SUFFICES ASSUME ~abandoned, c.state # "done"
        PROVE  (\A e \in requests' : e.live) /\ (Informed' \/ \E e \in requests' : e.state = "done")
    BY <1>1 DEF RestInv
  <2> QED
    BY <1>1, <1>2 DEF PollingInv, RestInv, Informed
<1> QED
  BY <1>5, <1>6, <1>7 DEF PollingInv

LEMMA HearRequestStep == ASSUME PollingInv, NEW c \in requests, Polling!HearRequest(c) PROVE PollingInv'
<1>1. /\ server' = server /\ asked' = asked /\ events' = events /\ abandoned' = abandoned
      /\ requests' = requests \ {c} /\ c.state \in {"done", "failed"} /\ c \in Requests /\ ui \in Panels
      /\ ui.fen \in Fens
  BY DEF Polling!HearRequest, PollingInv, PollingShapes, Panels
<1>2. \A a : Kept(a)' <=> Kept(a)
  BY <1>1 DEF Kept
<1>3. CASE ~c.live
  <2>1. ui' = ui /\ reads' = reads
    BY <1>3 DEF Polling!HearRequest
  <2>2. abandoned
    BY <1>3 DEF PollingInv, RestInv
  <2>3. PollingShapes' /\ ReadsInv' /\ ShownInv'
    BY <1>1, <1>2, <2>1 DEF PollingInv, PollingShapes, ReadsInv, ShownInv, Polling!ActiveIsWatched
  <2>4. RequestsInv'
    BY <1>1, <1>2, <1>3, <2>1 DEF PollingInv, RequestsInv, Polling!Same
  <2> QED
    BY <1>1, <2>2, <2>3, <2>4 DEF PollingInv, RestInv
<1>4. ASSUME c.live
      PROVE  /\ Polling!Same(ui, c.fen) /\ \A e \in requests' : ~e.live
             /\ ~abandoned => requests' = {}
  BY <1>1, <1>4 DEF PollingInv, RequestsInv, RestInv
<1>5. CASE c.live /\ c.state = "failed"
  <2>1. ui' = [ui EXCEPT !.pending = FALSE, !.refused = TRUE] /\ reads' = reads
    BY <1>4, <1>5 DEF Polling!HearRequest
  <2>2. /\ ui' \in Panels /\ ui'.fen = ui.fen /\ ui'.shown = ui.shown /\ ~ui'.pending
        /\ ui'.timer = ui.timer /\ ui'.loading = ui.loading /\ ui'.error = ui.error
    BY <1>1, <2>1 DEF Panels
  <2>3. PollingShapes' /\ ReadsInv' /\ ShownInv'
    BY <1>1, <1>2, <2>1, <2>2 DEF PollingInv, PollingShapes, ReadsInv, ShownInv, Polling!ActiveIsWatched
  <2>4. RequestsInv'
    BY <1>1, <1>2, <1>4, <1>5, <2>2 DEF PollingInv, RequestsInv, Polling!Same
  <2>5. RestInv'
    <3> SUFFICES ASSUME ~abandoned PROVE (\A e \in requests' : e.live) /\ Informed'
      BY <1>1 DEF RestInv
    <3>1. \A e \in requests : e.state # "done"
      BY <1>1, <1>4, <1>5
    <3>2. Informed
      BY <3>1 DEF PollingInv, RestInv
    <3> QED
      BY <1>1, <1>4, <1>5, <2>1, <2>2, <3>2 DEF Informed
  <2> QED
    BY <2>3, <2>4, <2>5 DEF PollingInv
<1>6. CASE c.live /\ c.state = "done"
  <2> DEFINE next == Polling!Merged(ui.shown, c.answer)
             u == [ui EXCEPT !.pending = FALSE, !.shown = next]
  <2>1. ui' = Polling!Observing(u, ui.fen) /\ reads' = {Polling!Observe(ui.fen)}
    BY <1>4, <1>6 DEF Polling!HearRequest, Polling!ReadsAfter
  <2>2. /\ c.answer \in Answers /\ c.answer.fen.position = ui.fen.position /\ Kept(c.answer)
        /\ ui.shown \in Shown
    BY <1>1, <1>4, <1>6 DEF PollingInv, RequestsInv, Polling!Same, Panels
  <2>3. next \in Answers /\ next.fen.position = ui.fen.position /\ Kept(next)
    BY <2>2, MergedFields DEF PollingInv, ShownInv, Kept
  <2> HIDE DEF next
  <2>4. u \in Panels /\ u.fen = ui.fen /\ u.shown = next /\ ~u.pending
    BY <1>1, <2>3 DEF Panels, Shown
  <2> HIDE DEF u
  <2>5. ui'.fen = ui.fen /\ ~ui'.pending
    BY <1>1, <2>1, <2>4, ObservingFields
  <2>6. RequestsInv'
    BY <1>1, <1>2, <1>4, <1>6, <2>5 DEF PollingInv, RequestsInv, Polling!Same
  <2>7. ~abandoned' => requests' = {}
    BY <1>1, <1>4, <1>6
  <2>8. requests' \subseteq Requests /\ events' \in Nat /\ abandoned' \in BOOLEAN
    BY <1>1 DEF PollingInv, PollingShapes
  <2> QED
    BY <1>1, <2>1, <2>3, <2>4, <2>6, <2>7, <2>8, Anew
<1> QED
  BY <1>1, <1>3, <1>5, <1>6

LEMMA OthersStep == ASSUME PollingInv, NEW p \in Polling!Positions, Polling!Others(p) PROVE PollingInv'
<1>1. /\ asked' = asked /\ ui' = ui /\ reads' = reads /\ requests' = requests /\ events' = events
      /\ abandoned' = abandoned
  BY DEF Polling!Others
<1>2. PICK s \in Polling!Worked(server[p]) : server' = [server EXCEPT ![p] = s]
  BY DEF Polling!Others
<1>3. s \in Works /\ (s.result > 0 \/ s.result = server[p].result)
  <2>1. server[p] \in Works
    BY DEF PollingInv, PollingShapes
  <2> QED
    BY <2>1 DEF Polling!Worked, Works, Polling!Results
<1>4. server' \in [Polling!Positions -> Works] /\ \A a \in Answers : Kept(a) => Kept(a)'
  BY <1>2, <1>3, StoredStays
<1>5. PollingShapes'
  BY <1>1, <1>4 DEF PollingInv, PollingShapes
<1>6. ReadsInv' /\ ShownInv'
  BY <1>1, <1>4 DEF PollingInv, ReadsInv, ShownInv, Polling!ActiveIsWatched
<1>7. RequestsInv' /\ RestInv'
  BY <1>1, <1>4 DEF PollingInv, RequestsInv, RestInv, Informed, Polling!Same
<1> QED
  BY <1>5, <1>6, <1>7 DEF PollingInv

LEMMA PollingStep == PollingInv /\ [Polling!Next]_(Polling!vars) => PollingInv'
<1>1. ASSUME PollingInv, UNCHANGED Polling!vars PROVE PollingInv'
  BY <1>1 DEF Polling!vars, PollingInv, PollingShapes, ReadsInv, ShownInv, RequestsInv, RestInv, Informed, Kept,
     Polling!ActiveIsWatched, Polling!Same
<1> QED
  BY <1>1, GoStep, RetryStep, AnalyzeStep, PollStep, AnswerStep, HearReadStep, ApplyStep, FailStep, HearRequestStep,
     OthersStep DEF Polling!Next, Polling!User, Polling!Network

\* A step of the panel keeps a result that is shown.
KeepsResult == Polling!Same(ui, ui'.fen) /\ ui.shown.result > 0 => ui'.shown.result > 0

LEMMA StepKeepsResult == PollingInv /\ [Polling!Next]_(Polling!vars) => KeepsResult
<1> SUFFICES ASSUME PollingInv, [Polling!Next]_(Polling!vars), Polling!Same(ui, ui'.fen), ui.shown.result > 0
      PROVE  ui'.shown.result > 0
  BY DEF KeepsResult
<1>1. ui \in Panels /\ ui.fen \in Fens /\ ui.shown \in Shown /\ ui.shown # Polling!NotShown
  BY DEF PollingInv, PollingShapes, Panels, Polling!NotShown
<1>2. ASSUME NEW f \in Fens, ui' = Polling!Observing(ui, f) PROVE ui'.shown.result > 0
  BY <1>1, <1>2, ObservingFields
<1>3. ASSUME NEW r \in reads, Polling!HearRead(r) PROVE ui'.shown.result > 0
  <2>1. r.state = "failed" \/ r.state = "done"
    BY <1>3 DEF Polling!HearRead, PollingInv, PollingShapes, Reads
  <2>2. CASE r.state = "failed"
    BY <1>1, <1>3, <2>2 DEF Polling!HearRead, Polling!Failed, Panels
  <2>3. CASE r.state = "done"
    <3>1. r.answer \in Answers /\ r.answer.result > 0
      BY <2>3 DEF PollingInv, ReadsInv
    <3>2. ui'.shown = Polling!Merged(ui.shown, r.answer)
      BY <1>1, <1>3, <2>3 DEF Polling!HearRead, Panels
    <3> QED
      BY <1>1, <3>1, <3>2, MergedFields
  <2> QED
    BY <2>1, <2>2, <2>3
<1>4. ASSUME NEW c \in requests, Polling!HearRequest(c) PROVE ui'.shown.result > 0
  <2>1. CASE ~c.live \/ ~Polling!Same(ui, c.fen)
    BY <1>4, <2>1 DEF Polling!HearRequest
  <2>2. CASE c.state = "failed"
    BY <1>1, <1>4, <2>2 DEF Polling!HearRequest, Panels
  <2>3. CASE c.live /\ Polling!Same(ui, c.fen) /\ c.state = "done"
    <3> DEFINE next == Polling!Merged(ui.shown, c.answer)
               u == [ui EXCEPT !.pending = FALSE, !.shown = next]
    <3>1. ui' = Polling!Observing(u, ui.fen)
      BY <1>4, <2>3 DEF Polling!HearRequest
    <3>2. /\ c.answer \in Answers /\ c.answer.fen.position = ui.fen.position
          /\ Polling!Active(c.answer) \/ c.answer.result > 0
      BY <2>3 DEF PollingInv, RequestsInv, Polling!Same
    <3>3. ui.shown.fen.position = ui.fen.position
      BY <1>1 DEF PollingInv, ShownInv
    <3>4. next \in Answers /\ next.result > 0
      BY <1>1, <3>2, <3>3, MergedFields
    <3> HIDE DEF next
    <3>5. u \in Panels /\ u.fen = ui.fen /\ u.shown = next
      BY <1>1, <3>4 DEF Panels, Shown
    <3> QED
      BY <1>1, <3>1, <3>4, <3>5, ObservingFields DEF Polling!Same
  <2> QED
    BY <1>4, <2>1, <2>2, <2>3 DEF Polling!HearRequest
<1>5. ASSUME UNCHANGED ui PROVE ui'.shown.result > 0
  BY <1>5
<1>6. ASSUME Polling!Analyze \/ Polling!Poll PROVE ui'.shown.result > 0
  BY <1>1, <1>6 DEF Polling!Analyze, Polling!Poll, Polling!Failed, Panels
<1> QED
  BY <1>1, <1>2, <1>3, <1>4, <1>5, <1>6
     DEF Polling!Next, Polling!User, Polling!Network, Polling!Go, Polling!Retry, Polling!Answer, Polling!Apply,
         Polling!Fail, Polling!Others, Polling!vars

\* What the panel's invariant says of what is checked.
LEMMA PollingIsTrue ==
  PollingInv =>
    /\ Polling!TypeOK /\ Polling!ShownIsOfPosition /\ Polling!OnePollAtATime
    /\ Polling!ActiveIsWatched /\ Polling!RestIsAfterRequest
<1> SUFFICES ASSUME PollingInv
      PROVE  /\ Polling!TypeOK /\ Polling!ShownIsOfPosition /\ Polling!OnePollAtATime
             /\ Polling!ActiveIsWatched /\ Polling!RestIsAfterRequest
  OBVIOUS
<1>1. Polling!TypeOK
  BY DEF PollingInv, PollingShapes, ReadsInv, RequestsInv, Polling!TypeOK, Panels, Works
<1>2. Polling!ShownIsOfPosition /\ Polling!OnePollAtATime /\ Polling!ActiveIsWatched
  BY DEF PollingInv, ReadsInv, ShownInv, Polling!ShownIsOfPosition, Polling!OnePollAtATime
<1>3. Polling!RestIsAfterRequest
  BY DEF PollingInv, RestInv, RequestsInv, Informed, Polling!RestIsAfterRequest
<1> QED
  BY <1>1, <1>2, <1>3

HIDE PollingHolds DEF Polling!PollingAssumption

-----------------------------------------------------------------------------

(* The panel that saves preferred moves. *)

Panes ==
  [view : Views, shown : [fen : Saving!Sources, move : Moves \cup {NoMove}] \cup {Saving!NotShown},
   loading : BOOLEAN, readError : BOOLEAN, completed : Nat, asked : Nat, token : Nat,
   context : {"loading", "ready", "failed"}, mutation : Saving!Kinds \cup {"none"}, mutationId : Nat,
   failed : Saving!Kinds \cup {"none"}, error : {"none", "refused", "unconfirmed"},
   pending : [key : Nat, kind : Saving!Kinds, uci : Moves \cup {NoMove}] \cup {Saving!NotPending},
   status : Saving!Kinds \cup {"none"}]

Gets == [id : Nat, fen : Saving!Sources, key : Nat, live : BOOLEAN, answer : Moves \cup {NoMove, "none", "failed"}]

Calls ==
  [id : Nat, kind : Saving!Kinds, fen : Saving!Sources, uci : Moves \cup {NoMove}, token : Nat, live : BOOLEAN,
   state : {"sent", "done", "failed"}]

SavingShapes ==
  /\ saved \in [Saving!Sources -> Moves \cup {NoMove}]
  /\ panel \in Panes /\ gets \subseteq Gets /\ calls \subseteq Calls
  /\ changes \in Nat /\ given \in BOOLEAN

\* One read at most is listened to: that of the source position and the latest token.
GetsInv ==
  /\ \A r, s \in gets : r.live /\ s.live => r = s
  /\ panel.loading <=> \E r \in gets : r.live
  /\ \A r \in gets : r.live => r.fen = panel.view.source /\ r.key = panel.token
  /\ panel.shown # Saving!NotShown => panel.shown.fen = panel.view.source

\* The move that a mutation is to leave.
Meant(u, kind) == IF kind = "save" THEN u.view.selected ELSE NoMove

\* The call of a mutation under way is the panel's own.
Own(u, cs) ==
  /\ \A c, d \in cs : c.live /\ d.live => c = d
  /\ \A c \in cs : c.live =>
       /\ c.id = u.mutationId /\ c.kind = u.mutation /\ c.fen = u.view.source
       /\ c.uci = Meant(u, c.kind) /\ u.pending = Saving!NotPending

\* What is to be confirmed is the mutation under way.
Awaited(u) ==
  u.pending # Saving!NotPending =>
    u.pending.kind = u.mutation /\ u.pending.uci = Meant(u, u.mutation)

MutationInv == Own(panel, calls) /\ Awaited(panel)

\* The read that is to confirm a mutation has not come yet, unless a Retry has put
\* another in its place.
Confirming(u) ==
  /\ u.completed <= u.token
  /\ u.pending # Saving!NotPending => u.pending.key <= u.token /\ u.completed # u.pending.key

\* What the panel shows, or is about to read, is what the server holds.
Current ==
  LET now == saved[panel.view.source] IN
  /\ \A r \in gets : r.live => r.answer \in {"none", "failed", now}
  /\ ~panel.loading /\ ~panel.readError => panel.shown = [fen |-> panel.view.source, move |-> now]

\* Unless a call was given up or overtaken, all are the panel's own and nothing is read
\* meanwhile, and it is current but for one that the server has carried out.
ConfirmInv ==
  ~given =>
    /\ \A c \in calls : c.live /\ c.token = panel.token /\ ~panel.loading
    /\ Current \/ \E c \in calls : c.state = "done"
    /\ \A c \in calls : c.state = "done" => saved[c.fen] = c.uci
    /\ Confirming(panel)
    /\ panel.pending # Saving!NotPending => saved[panel.view.source] = panel.pending.uci

SavingInv == SavingShapes /\ GetsInv /\ MutationInv /\ ConfirmInv

USE SavingHolds DEF Saving!WorkflowAssumption

LEMMA ViewsConcern == \A v \in Views : v.source \in Saving!Sources /\ v.selected \in Moves \cup {NoMove}
BY DEF Saving!Sources

LEMMA SavingInitHolds == Saving!Init => SavingInv
<1> SUFFICES ASSUME Saving!Init PROVE SavingInv
  OBVIOUS
<1>1. PICK v \in Views :
        /\ panel = Saving!Start(v)
        /\ gets = {[id |-> 1, fen |-> v.source, key |-> 0, live |-> TRUE, answer |-> "none"]}
  BY DEF Saving!Init
<1>2. /\ panel \in Panes /\ panel.view = v /\ panel.shown = Saving!NotShown /\ panel.loading
      /\ panel.pending = Saving!NotPending /\ panel.token = 0 /\ panel.completed = 0
  BY <1>1 DEF Saving!Start, Panes
<1>3. \A r \in gets : r \in Gets /\ r.live /\ r.fen = v.source /\ r.key = 0 /\ r.answer = "none"
  <2> DEFINE first == [id |-> 1, fen |-> v.source, key |-> 0, live |-> TRUE, answer |-> "none"]
  <2>1. v.source \in Saving!Sources
    BY ViewsConcern
  <2>2. first \in Gets /\ first.live /\ first.fen = v.source /\ first.key = 0 /\ first.answer = "none"
    BY <2>1 DEF Gets
  <2>3. \A r \in gets : r = first
    BY <1>1
  <2> HIDE DEF first
  <2> QED
    BY <2>2, <2>3
<1>4. gets # {} /\ \A r, s \in gets : r = s
  BY <1>1
<1>5. SavingShapes
  BY <1>2, <1>3 DEF SavingShapes, Saving!Init
<1>6. GetsInv
  BY <1>2, <1>3, <1>4 DEF GetsInv
<1> QED
  BY <1>2, <1>3, <1>5, <1>6
     DEF SavingInv, MutationInv, Own, Awaited, ConfirmInv, Confirming, Current, Saving!Init

\* The source position is read anew: what becomes of the panel.
LEMMA ReadingFields ==
  ASSUME NEW u \in Panes, NEW f \in Saving!Sources
  PROVE  LET o == Saving!Reading(u, f) IN
         /\ o \in Panes /\ o.loading /\ ~o.readError
         /\ o.shown # Saving!NotShown => o.shown.fen = f
         /\ o.view = u.view /\ o.completed = u.completed /\ o.token = u.token
         /\ o.mutation = u.mutation /\ o.mutationId = u.mutationId
         /\ o.failed = u.failed /\ o.error = u.error /\ o.pending = u.pending /\ o.status = u.status
<1> DEFINE s == IF u.shown.fen = f THEN u.shown ELSE Saving!NotShown
           n == u.asked + 1
           o == [u EXCEPT !.loading = TRUE, !.readError = FALSE, !.asked = n, !.shown = s]
<1>1. /\ s \in [fen : Saving!Sources, move : Moves \cup {NoMove}] \cup {Saving!NotShown}
      /\ s # Saving!NotShown => s.fen = f
      /\ n \in Nat
  BY DEF Panes
<1>2. Saving!Reading(u, f) = o
  BY Zenon DEF Saving!Reading
<1> HIDE DEF s, n
<1>3. o \in Panes
  BY <1>1 DEF Panes
<1>4. o.loading /\ ~o.readError /\ o.shown = s
  BY DEF Panes
<1>5. /\ o.view = u.view /\ o.completed = u.completed /\ o.token = u.token
      /\ o.mutation = u.mutation /\ o.mutationId = u.mutationId
      /\ o.failed = u.failed /\ o.error = u.error /\ o.pending = u.pending /\ o.status = u.status
  BY DEF Panes
<1> HIDE DEF o
<1> QED
  BY <1>1, <1>2, <1>3, <1>4, <1>5

\* The reads under way once it has been asked for: one is listened to.
LEMMA OneIsHeard ==
  ASSUME SavingShapes, NEW u \in Panes, NEW f \in Saving!Sources, gets' = Saving!ReadsAfter(u, f)
  PROVE  /\ gets' \subseteq Gets
         /\ \E r \in gets' :
              /\ r.live /\ r.fen = f /\ r.key = u.token /\ r.answer = "none"
              /\ \A s \in gets' : s.live => s = r
<1> DEFINE left == {[r EXCEPT !.live = FALSE] : r \in gets}
           mine == [id |-> u.asked + 1, fen |-> f, key |-> u.token, live |-> TRUE, answer |-> "none"]
<1>1. gets' = left \cup {mine}
  BY Zenon DEF Saving!ReadsAfter
<1>2. \A r \in left : r \in Gets /\ ~r.live
  BY DEF SavingShapes, Gets
<1>3. mine \in Gets /\ mine.live /\ mine.fen = f /\ mine.key = u.token /\ mine.answer = "none"
  BY DEF Panes, Gets
<1> HIDE DEF left, mine
<1> QED
  BY <1>1, <1>2, <1>3

\* Whenever the source position is read anew.
LEMMA Reload ==
  ASSUME SavingInv, NEW u \in Panes,
         panel' = Saving!Reading(u, u.view.source), gets' = Saving!ReadsAfter(u, u.view.source), saved' = saved,
         changes' \in Nat, given' \in BOOLEAN, calls' \subseteq Calls, Own(u, calls'), Awaited(u),
         ~given' => /\ calls' = {} /\ Confirming(u)
                    /\ u.pending # Saving!NotPending => saved[u.view.source] = u.pending.uci
  PROVE  SavingInv'
<1>1. u.view.source \in Saving!Sources
  BY ViewsConcern DEF Panes
<1>2. /\ panel' \in Panes /\ panel'.loading /\ ~panel'.readError
      /\ panel'.shown # Saving!NotShown => panel'.shown.fen = u.view.source
      /\ panel'.view = u.view /\ panel'.completed = u.completed /\ panel'.token = u.token
      /\ panel'.mutation = u.mutation /\ panel'.mutationId = u.mutationId /\ panel'.pending = u.pending
  BY <1>1, ReadingFields
<1>3. PICK r \in gets' :
        /\ r.live /\ r.fen = u.view.source /\ r.key = u.token /\ r.answer = "none"
        /\ \A s \in gets' : s.live => s = r
  BY <1>1, OneIsHeard DEF SavingInv
<1>4. SavingShapes'
  BY <1>1, <1>2, OneIsHeard DEF SavingInv, SavingShapes
<1>5. GetsInv'
  BY <1>2, <1>3 DEF GetsInv
<1>6. MutationInv'
  BY <1>2 DEF MutationInv, Own, Awaited, Meant
<1>7. ConfirmInv'
  BY <1>2, <1>3 DEF ConfirmInv, Confirming, Current
<1> QED
  BY <1>4, <1>5, <1>6, <1>7 DEF SavingInv

\* Whenever no mutation is the panel's own any more, and it reads what it read.
LEMMA Rest ==
  ASSUME SavingInv, panel' \in Panes, panel'.view.source = panel.view.source, panel'.shown = panel.shown,
         panel'.loading = panel.loading, panel'.readError = panel.readError, panel'.token = panel.token,
         panel'.completed = panel.completed, panel'.pending = Saving!NotPending,
         gets' = gets, saved' = saved, changes' \in Nat, given' \in BOOLEAN,
         calls' \subseteq Calls, \A c \in calls' : ~c.live, given => given', ~given' => calls' = {} /\ Current
  PROVE  SavingInv'
<1>1. SavingShapes' /\ GetsInv'
  BY DEF SavingInv, SavingShapes, GetsInv
<1>2. MutationInv' /\ ConfirmInv'
  BY DEF SavingInv, MutationInv, Own, Awaited, Confirming, ConfirmInv, Current
<1> QED
  BY <1>1, <1>2 DEF SavingInv

\* All calls are aborted.
LEMMA Aborts ==
  ASSUME SavingInv, calls' = Saving!Aborted, given' = (given \/ \E c \in calls : c.live)
  PROVE  /\ calls' \subseteq Calls /\ \A c \in calls' : ~c.live
         /\ given' \in BOOLEAN /\ (given => given')
         /\ ~given' => calls' = {} /\ calls = {} /\ Current /\ Confirming(panel)
<1>1. calls' \subseteq Calls /\ \A c \in calls' : ~c.live
  BY DEF Saving!Aborted, SavingInv, SavingShapes, Calls
<1>2. given' \in BOOLEAN /\ (given => given')
  BY DEF SavingInv, SavingShapes
<1>3. ASSUME ~given' PROVE calls' = {} /\ calls = {} /\ Current /\ Confirming(panel)
  <2>1. calls = {} /\ Current /\ Confirming(panel)
    BY <1>3 DEF SavingInv, ConfirmInv
  <2> QED
    BY <2>1 DEF Saving!Aborted
<1> QED
  BY <1>1, <1>2, <1>3

\* resetPositionState.
LEMMA ClearedFields ==
  ASSUME NEW u \in Panes
  PROVE  LET o == Saving!Cleared(u) IN
         /\ o \in Panes /\ o.pending = Saving!NotPending
         /\ o.view = u.view /\ o.shown = u.shown /\ o.loading = u.loading /\ o.readError = u.readError
         /\ o.token = u.token /\ o.completed = u.completed /\ o.context = u.context
         /\ o.status = u.status /\ o.error = "none"
<1> DEFINE o == [u EXCEPT !.mutationId = @ + 1, !.mutation = "none", !.error = "none",
                          !.failed = "none", !.pending = Saving!NotPending]
<1>1. Saving!Cleared(u) = o
  BY Zenon DEF Saving!Cleared
<1>2. u.mutationId + 1 \in Nat
  BY DEF Panes
<1>3. o \in Panes
  BY <1>2 DEF Panes
<1>4. /\ o.pending = Saving!NotPending
      /\ o.view = u.view /\ o.shown = u.shown /\ o.loading = u.loading /\ o.readError = u.readError
      /\ o.token = u.token /\ o.completed = u.completed /\ o.context = u.context
      /\ o.status = u.status /\ o.error = "none"
  BY DEF Panes
<1> HIDE DEF o
<1> QED
  BY <1>1, <1>3, <1>4

LEMMA GoAwayStep == ASSUME SavingInv, NEW v \in Views, Saving!Go(v) PROVE SavingInv'
<1> DEFINE w == Saving!Cleared(panel)
           x == IF v.at = panel.view.at /\ v.bottom = panel.view.bottom THEN w.context ELSE "loading"
           u == [w EXCEPT !.view = v, !.context = x]
<1>1. /\ panel \in Panes /\ changes' \in Nat /\ saved' = saved /\ calls' = Saving!Aborted
      /\ given' = (given \/ \E c \in calls : c.live)
  BY DEF Saving!Go, Saving!Acts, SavingInv, SavingShapes
<1>2. /\ w \in Panes /\ w.pending = Saving!NotPending
      /\ w.view = panel.view /\ w.shown = panel.shown /\ w.loading = panel.loading
      /\ w.readError = panel.readError /\ w.token = panel.token /\ w.completed = panel.completed
  BY <1>1, ClearedFields
<1>3. IF v.source = panel.view.source
        THEN panel' = u /\ gets' = gets
        ELSE panel' = Saving!Reading(u, v.source) /\ gets' = Saving!ReadsAfter(u, v.source)
  BY Zenon DEF Saving!Go
<1> HIDE DEF w
<1>4. x \in {"loading", "ready", "failed"}
  BY <1>2 DEF Panes
<1> HIDE DEF x
<1>5. /\ u \in Panes /\ u.view = v /\ u.pending = w.pending /\ u.shown = w.shown /\ u.loading = w.loading
      /\ u.readError = w.readError /\ u.token = w.token /\ u.completed = w.completed
  BY <1>2, <1>4 DEF Panes
<1> HIDE DEF u
<1>6. /\ calls' \subseteq Calls /\ (\A c \in calls' : ~c.live) /\ given' \in BOOLEAN /\ (given => given')
      /\ ~given' => calls' = {} /\ Current /\ Confirming(panel)
  BY <1>1, Aborts
<1>7. CASE v.source = panel.view.source
  BY <1>1, <1>2, <1>3, <1>5, <1>6, <1>7, Rest
<1>8. CASE v.source # panel.view.source
  <2>1. Own(u, calls') /\ Awaited(u)
    BY <1>2, <1>5, <1>6 DEF Own, Awaited
  <2>2. ~given' => Confirming(u)
    BY <1>2, <1>5, <1>6 DEF Confirming
  <2>3. panel' = Saving!Reading(u, u.view.source) /\ gets' = Saving!ReadsAfter(u, u.view.source)
    BY <1>3, <1>5, <1>8
  <2> QED
    BY <1>1, <1>2, <1>5, <1>6, <2>1, <2>2, <2>3, Reload
<1> QED
  BY <1>7, <1>8

LEMMA StayStep == ASSUME SavingInv, Saving!Stay PROVE SavingInv'
<1>1. /\ panel \in Panes /\ changes' \in Nat /\ saved' = saved /\ gets' = gets /\ calls' = Saving!Aborted
      /\ given' = (given \/ \E c \in calls : c.live) /\ panel' = Saving!Cleared(panel)
  BY DEF Saving!Stay, Saving!Acts, SavingInv, SavingShapes
<1>2. /\ panel' \in Panes /\ panel'.pending = Saving!NotPending
      /\ panel'.view = panel.view /\ panel'.shown = panel.shown /\ panel'.loading = panel.loading
      /\ panel'.readError = panel.readError /\ panel'.token = panel.token /\ panel'.completed = panel.completed
  BY <1>1, ClearedFields
<1> QED
  BY <1>1, <1>2, Aborts, Rest

\* A button, or a retry, begins a mutation.
LEMMA RunStep == ASSUME SavingInv, NEW kind \in Saving!Kinds, Saving!Run(kind), changes' \in Nat PROVE SavingInv'
<1> DEFINE mine == [id |-> panel.mutationId + 1, kind |-> kind, fen |-> panel.view.source,
                    uci |-> IF kind = "save" THEN panel.view.selected ELSE NoMove,
                    token |-> panel.token, live |-> TRUE, state |-> "sent"]
<1>1. /\ panel \in Panes /\ saved' = saved /\ gets' = gets /\ given' = given
      /\ panel' = [panel EXCEPT !.mutationId = @ + 1, !.mutation = kind, !.error = "none", !.failed = "none"]
      /\ calls' = calls \cup {mine}
      /\ panel.mutation = "none" /\ panel.pending = Saving!NotPending /\ ~panel.loading /\ ~panel.readError
  BY DEF Saving!Run, Saving!MayRun, SavingInv, SavingShapes
<1>2. /\ panel' \in Panes /\ panel'.view = panel.view /\ panel'.shown = panel.shown /\ panel'.mutation = kind
      /\ panel'.loading = panel.loading /\ panel'.readError = panel.readError /\ panel'.token = panel.token
      /\ panel'.completed = panel.completed /\ panel'.pending = panel.pending
      /\ panel'.mutationId = panel.mutationId + 1
  <2>1. panel.mutationId + 1 \in Nat
    BY <1>1 DEF Panes
  <2> QED
    BY <1>1, <2>1 DEF Panes
<1>3. /\ mine \in Calls /\ mine.id = panel.mutationId + 1 /\ mine.kind = kind /\ mine.fen = panel.view.source
      /\ mine.uci = Meant(panel, kind) /\ mine.token = panel.token /\ mine.live /\ mine.state = "sent"
  <2>1. panel.view.source \in Saving!Sources /\ panel.view.selected \in Moves \cup {NoMove}
    BY <1>1, ViewsConcern DEF Panes
  <2>2. panel.mutationId + 1 \in Nat /\ panel.token \in Nat
    BY <1>1 DEF Panes
  <2> QED
    BY <2>1, <2>2 DEF Calls, Meant
<1>4. \A c \in calls : ~c.live
  BY <1>1 DEF SavingInv, SavingShapes, MutationInv, Own, Calls, Saving!Kinds
<1> HIDE DEF mine
<1>5. SavingShapes' /\ GetsInv'
  BY <1>1, <1>2, <1>3 DEF SavingInv, SavingShapes, GetsInv
<1>6. MutationInv'
  BY <1>1, <1>2, <1>3, <1>4 DEF MutationInv, Own, Awaited, Meant
<1>7. ConfirmInv'
  <2> SUFFICES ASSUME ~given
        PROVE  /\ \A c \in calls' : c.live /\ c.token = panel.token /\ c.state # "done"
               /\ Current' /\ Confirming(panel)
    BY <1>1, <1>2 DEF ConfirmInv, Confirming
  <2>1. calls = {} /\ Current /\ Confirming(panel)
    BY <1>4 DEF SavingInv, ConfirmInv
  <2> QED
    BY <1>1, <1>2, <1>3, <2>1 DEF Current
<1> QED
  BY <1>5, <1>6, <1>7 DEF SavingInv

LEMMA RetrySavingStep == ASSUME SavingInv, Saving!Retry PROVE SavingInv'
<1>1. panel \in Panes /\ changes' \in Nat /\ Saving!ShowsError
  BY DEF Saving!Retry, Saving!Acts, SavingInv, SavingShapes
<1>2. CASE panel.failed # "none"
  <2>1. panel.failed \in Saving!Kinds /\ Saving!Run(panel.failed)
    BY <1>1, <1>2 DEF Saving!Retry, Panes
  <2> QED
    BY <1>1, <2>1, RunStep
<1>3. CASE panel.failed = "none"
  <2> DEFINE u == [panel EXCEPT !.error = "none", !.token = @ + 1, !.context = "loading"]
  <2>1. /\ panel' = Saving!Reading(u, u.view.source) /\ gets' = Saving!ReadsAfter(u, u.view.source)
        /\ saved' = saved /\ calls' = calls /\ given' = (given \/ \E c \in calls : c.live)
    BY <1>3 DEF Saving!Retry
  <2>2. /\ u \in Panes /\ u.token = panel.token + 1 /\ u.pending = panel.pending /\ u.completed = panel.completed
        /\ u.view = panel.view /\ u.mutation = panel.mutation /\ u.mutationId = panel.mutationId
    <3>1. panel.token + 1 \in Nat
      BY <1>1 DEF Panes
    <3> QED
      BY <1>1, <3>1 DEF Panes
  <2> HIDE DEF u
  <2>3. Own(u, calls') /\ Awaited(u)
    BY <2>1, <2>2 DEF SavingInv, MutationInv, Own, Awaited, Meant
  <2>4. calls' \subseteq Calls /\ given' \in BOOLEAN
    BY <2>1 DEF SavingInv, SavingShapes
  <2>5. ASSUME ~given'
        PROVE  /\ calls' = {} /\ Confirming(u)
               /\ u.pending # Saving!NotPending => saved[u.view.source] = u.pending.uci
    <3>1. calls = {} /\ Confirming(panel)
          /\ (panel.pending # Saving!NotPending => saved[panel.view.source] = panel.pending.uci)
      BY <2>1, <2>5 DEF SavingInv, ConfirmInv
    <3>2. panel.pending # Saving!NotPending => panel.pending.key \in Nat
      BY <1>1 DEF Panes
    <3>3. panel.token \in Nat /\ panel.completed \in Nat
      BY <1>1 DEF Panes
    <3> QED
      BY <2>1, <2>2, <3>1, <3>2, <3>3 DEF Confirming
  <2> QED
    BY <1>1, <2>1, <2>2, <2>3, <2>4, <2>5, Reload
<1> QED
  BY <1>2, <1>3

LEMMA ApplySavingStep == ASSUME SavingInv, NEW c \in calls, Saving!Apply(c) PROVE SavingInv'
<1> DEFINE d == [c EXCEPT !.state = "done"]
<1>1. /\ panel' = panel /\ gets' = gets /\ changes' = changes /\ given' = given /\ c \in Calls
      /\ saved' = [saved EXCEPT ![c.fen] = c.uci] /\ calls' = (calls \ {c}) \cup {d}
  BY DEF Saving!Apply, SavingInv, SavingShapes
<1>2. /\ d \in Calls /\ d.id = c.id /\ d.kind = c.kind /\ d.fen = c.fen /\ d.uci = c.uci /\ d.token = c.token
      /\ (d.live <=> c.live) /\ d.state = "done"
  BY <1>1 DEF Calls
<1> HIDE DEF d
<1>3. saved' \in [Saving!Sources -> Moves \cup {NoMove}] /\ saved'[c.fen] = c.uci
  BY <1>1 DEF SavingInv, SavingShapes, Calls
<1>4. SavingShapes' /\ GetsInv'
  BY <1>1, <1>2, <1>3 DEF SavingInv, SavingShapes, GetsInv
<1>5. MutationInv'
  BY <1>1, <1>2 DEF SavingInv, MutationInv, Own
<1>6. ConfirmInv'
  <2> SUFFICES ASSUME ~given
        PROVE  /\ \A e \in calls' : e.live /\ e.token = panel.token /\ ~panel.loading
               /\ \E e \in calls' : e.state = "done"
               /\ \A e \in calls' : e.state = "done" => saved'[e.fen] = e.uci
               /\ Confirming(panel) /\ panel.pending = Saving!NotPending
    BY <1>1 DEF ConfirmInv, Confirming
  <2>1. c.live /\ calls = {c} /\ c.token = panel.token /\ ~panel.loading /\ Confirming(panel)
    BY DEF SavingInv, ConfirmInv, MutationInv, Own
  <2> QED
    BY <1>1, <1>2, <1>3, <2>1 DEF SavingInv, MutationInv, Own
<1> QED
  BY <1>4, <1>5, <1>6 DEF SavingInv

LEMMA FailSavingStep == ASSUME SavingInv, NEW c \in calls, Saving!Fail(c) PROVE SavingInv'
<1> DEFINE d == [c EXCEPT !.state = "failed"]
<1>1. /\ panel' = panel /\ gets' = gets /\ changes' = changes /\ saved' = saved /\ c \in Calls
      /\ given' = (given \/ c.state = "done") /\ calls' = (calls \ {c}) \cup {d}
  BY DEF Saving!Fail, SavingInv, SavingShapes
<1>2. /\ d \in Calls /\ d.id = c.id /\ d.kind = c.kind /\ d.fen = c.fen /\ d.uci = c.uci /\ d.token = c.token
      /\ (d.live <=> c.live) /\ d.state = "failed"
  BY <1>1 DEF Calls
<1> HIDE DEF d
<1>3. given' \in BOOLEAN
  BY <1>1
<1>4. SavingShapes' /\ GetsInv'
  BY <1>1, <1>2, <1>3 DEF SavingInv, SavingShapes, GetsInv
<1>5. MutationInv'
  BY <1>1, <1>2 DEF SavingInv, MutationInv, Own
<1>6. ConfirmInv'
  <2> SUFFICES ASSUME ~given, c.state # "done"
        PROVE  /\ \A e \in calls' : e.live /\ e.token = panel.token /\ ~panel.loading
               /\ Current' \/ \E e \in calls' : e.state = "done"
               /\ \A e \in calls' : e.state = "done" => saved[e.fen] = e.uci
               /\ Confirming(panel)
               /\ panel.pending # Saving!NotPending => saved[panel.view.source] = panel.pending.uci
    BY <1>1 DEF ConfirmInv, Confirming
  <2> QED
    BY <1>1, <1>2 DEF SavingInv, ConfirmInv, Current
<1> QED
  BY <1>4, <1>5, <1>6 DEF SavingInv

\* What waits for no read is left as it is.
LEMMA SettledWaits ==
  ASSUME NEW u, u.pending = Saving!NotPending \/ u.loading \/ u.completed # u.pending.key
  PROVE  Saving!Settled(u) = u
BY DEF Saving!Settled

\* What the layout effect makes of a state: it leaves it, or the read that the
\* mutation waits for has come.
LEMMA SettledFields ==
  ASSUME NEW u \in Panes
  PROVE  LET o == Saving!Settled(u) IN
         /\ o \in Panes
         /\ o.pending = Saving!NotPending \/ (o = u /\ (u.loading \/ u.completed # u.pending.key))
         /\ u.pending = Saving!NotPending => o = u
         /\ o.view = u.view /\ o.shown = u.shown /\ o.loading = u.loading /\ o.readError = u.readError
         /\ o.token = u.token /\ o.completed = u.completed /\ o.mutationId = u.mutationId /\ o.asked = u.asked
         /\ o.status # u.status =>
              u.pending # Saving!NotPending /\ ~u.readError /\ u.shown.move = u.pending.uci /\ o.status = u.pending.kind
         /\ o.error # u.error =>
              u.pending # Saving!NotPending /\ ~u.readError /\ u.shown.move # u.pending.uci
<1> DEFINE read == [u EXCEPT !.pending = Saving!NotPending, !.mutation = "none", !.failed = "none"]
           same == [u EXCEPT !.pending = Saving!NotPending, !.mutation = "none", !.failed = "none",
                             !.status = u.pending.kind]
           other == [u EXCEPT !.pending = Saving!NotPending, !.mutation = "none",
                              !.failed = u.pending.kind, !.error = "unconfirmed"]
           waiting == u.pending # Saving!NotPending /\ ~u.loading /\ u.completed = u.pending.key
<1>1. CASE ~waiting
  <2>1. Saving!Settled(u) = u
    BY <1>1, SettledWaits
  <2> QED
    BY <1>1, <2>1
<1>2. ASSUME waiting PROVE u.pending.kind \in Saving!Kinds
  BY <1>2 DEF Panes
<1>3. CASE waiting /\ u.readError
  <2>1. Saving!Settled(u) = read
    BY <1>3 DEF Saving!Settled
  <2>2. /\ read \in Panes /\ read.pending = Saving!NotPending
        /\ read.view = u.view /\ read.shown = u.shown /\ read.loading = u.loading /\ read.readError = u.readError
        /\ read.token = u.token /\ read.completed = u.completed /\ read.mutationId = u.mutationId
        /\ read.asked = u.asked /\ read.status = u.status /\ read.error = u.error
    BY DEF Panes
  <2> HIDE DEF read
  <2> QED
    BY <1>3, <2>1, <2>2
<1>4. CASE waiting /\ ~u.readError /\ u.shown.move = u.pending.uci
  <2>1. Saving!Settled(u) = same
    BY <1>4 DEF Saving!Settled
  <2>2. /\ same \in Panes /\ same.pending = Saving!NotPending
        /\ same.view = u.view /\ same.shown = u.shown /\ same.loading = u.loading /\ same.readError = u.readError
        /\ same.token = u.token /\ same.completed = u.completed /\ same.mutationId = u.mutationId
        /\ same.asked = u.asked /\ same.error = u.error /\ same.status = u.pending.kind
    BY <1>2, <1>4 DEF Panes
  <2> HIDE DEF same
  <2> QED
    BY <1>4, <2>1, <2>2
<1>5. CASE waiting /\ ~u.readError /\ u.shown.move # u.pending.uci
  <2>1. Saving!Settled(u) = other
    BY <1>5 DEF Saving!Settled
  <2>2. /\ other \in Panes /\ other.pending = Saving!NotPending
        /\ other.view = u.view /\ other.shown = u.shown /\ other.loading = u.loading
        /\ other.readError = u.readError /\ other.token = u.token /\ other.completed = u.completed
        /\ other.mutationId = u.mutationId /\ other.asked = u.asked /\ other.status = u.status
    BY <1>2, <1>5 DEF Panes
  <2> HIDE DEF other
  <2> QED
    BY <1>5, <2>1, <2>2
<1> QED
  BY <1>1, <1>3, <1>4, <1>5

\* What the browser does when it hears of a mutation that was aborted.
LEMMA HeardLate ==
  ASSUME SavingInv, NEW c \in calls, Saving!Hear(c), ~c.live
  PROVE  panel' = Saving!Settled(panel) /\ gets' = gets
BY DEF Saving!Hear

\* It is told that one has failed.
LEMMA HeardFailure ==
  ASSUME SavingInv, NEW c \in calls, Saving!Hear(c), c.live, c.state = "failed"
  PROVE  /\ panel' \in Panes /\ panel'.pending = Saving!NotPending /\ panel'.view = panel.view
         /\ panel'.shown = panel.shown /\ panel'.loading = panel.loading /\ panel'.readError = panel.readError
         /\ panel'.token = panel.token /\ panel'.completed = panel.completed
         /\ panel'.status = panel.status /\ panel'.error = "refused" /\ gets' = gets
<1> DEFINE u == [panel EXCEPT !.mutation = "none", !.failed = c.kind, !.error = "refused"]
<1>1. c.id = panel.mutationId /\ panel.pending = Saving!NotPending /\ c.kind \in Saving!Kinds /\ panel \in Panes
  BY DEF SavingInv, SavingShapes, MutationInv, Own, Calls
<1>2. /\ u \in Panes /\ u.pending = Saving!NotPending /\ u.view = panel.view /\ u.shown = panel.shown
      /\ u.loading = panel.loading /\ u.readError = panel.readError /\ u.token = panel.token
      /\ u.completed = panel.completed /\ u.status = panel.status /\ u.error = "refused"
  BY <1>1 DEF Panes
<1>3. Saving!Concluded(c) = u
  BY DEF Saving!Concluded
<1> HIDE DEF u
<1>4. panel' = u /\ gets' = gets
  BY <1>1, <1>2, <1>3, SettledWaits DEF Saving!Hear
<1> QED
  BY <1>2, <1>4

\* It is told that one was carried out: the key of the read that is to confirm it is
\* the one after that of the click, which a Retry may have used up.
LEMMA HeardSuccess ==
  ASSUME SavingInv, NEW c \in calls, Saving!Hear(c), c.live, c.state = "done"
  PROVE  \E u \in Panes :
           /\ Awaited(u) /\ u.view = panel.view /\ u.view.source = c.fen
           /\ u.pending = [key |-> u.token, kind |-> c.kind, uci |-> c.uci]
           /\ u.shown = panel.shown /\ u.loading = panel.loading /\ u.readError = panel.readError
           /\ u.completed = panel.completed /\ u.status = panel.status /\ u.error = panel.error
           /\ u.token = c.token + 1
           /\ IF u.token = panel.token
                THEN panel' = Saving!Settled(u) /\ gets' = gets
                ELSE /\ panel' = Saving!Reading(Saving!Settled(u), u.view.source)
                     /\ gets' = Saving!ReadsAfter(u, u.view.source)
<1> DEFINE p == [key |-> c.token + 1, kind |-> c.kind, uci |-> c.uci]
           n == c.token + 1
           u == [panel EXCEPT !.pending = p, !.token = n]
<1>1. c \in Calls /\ panel \in Panes
  BY DEF SavingInv, SavingShapes
<1>2. /\ c.id = panel.mutationId /\ c.kind \in Saving!Kinds /\ c.kind = panel.mutation /\ c.token \in Nat
      /\ c.uci = Meant(panel, c.kind) /\ c.fen = panel.view.source /\ c.uci \in Moves \cup {NoMove}
  BY <1>1 DEF SavingInv, MutationInv, Own, Calls
<1>3. /\ n \in Nat /\ n = c.token + 1
      /\ p \in [key : Nat, kind : Saving!Kinds, uci : Moves \cup {NoMove}]
      /\ p.kind = c.kind /\ p.uci = c.uci /\ p = [key |-> n, kind |-> c.kind, uci |-> c.uci]
  BY <1>2
<1>4. Saving!Concluded(c) = u
  BY DEF Saving!Concluded
<1> HIDE DEF p, n
<1>5. /\ u \in Panes /\ u.pending = p /\ u.token = n /\ u.view = panel.view /\ u.completed = panel.completed
      /\ u.mutation = panel.mutation /\ u.error = panel.error /\ u.status = panel.status
      /\ u.shown = panel.shown /\ u.loading = panel.loading /\ u.readError = panel.readError
  BY <1>1, <1>3 DEF Panes
<1> HIDE DEF u
<1>6. Awaited(u)
  BY <1>2, <1>3, <1>5 DEF Awaited, Meant
<1>7. IF u.token = panel.token
        THEN panel' = Saving!Settled(u) /\ gets' = gets
        ELSE /\ panel' = Saving!Reading(Saving!Settled(u), u.view.source)
             /\ gets' = Saving!ReadsAfter(u, u.view.source)
  BY <1>2, <1>4 DEF Saving!Hear
<1> QED
  BY <1>2, <1>3, <1>5, <1>6, <1>7

\* Without a Retry meanwhile the source position is read anew.
LEMMA HeardInTime ==
  ASSUME SavingInv, ~given, NEW c \in calls, Saving!Hear(c), c.live, c.state = "done"
  PROVE  \E u \in Panes :
           /\ panel' = Saving!Reading(u, u.view.source) /\ gets' = Saving!ReadsAfter(u, u.view.source)
           /\ Awaited(u) /\ Confirming(u) /\ u.view.source = c.fen /\ u.pending.uci = c.uci
           /\ u.status = panel.status /\ u.error = panel.error
<1>1. PICK u \in Panes :
        /\ Awaited(u) /\ u.view = panel.view /\ u.view.source = c.fen
        /\ u.pending = [key |-> u.token, kind |-> c.kind, uci |-> c.uci]
        /\ u.completed = panel.completed /\ u.status = panel.status /\ u.error = panel.error
        /\ u.token = c.token + 1
        /\ IF u.token = panel.token
             THEN panel' = Saving!Settled(u) /\ gets' = gets
             ELSE /\ panel' = Saving!Reading(Saving!Settled(u), u.view.source)
                  /\ gets' = Saving!ReadsAfter(u, u.view.source)
  BY HeardSuccess
<1>2. c.token = panel.token /\ panel.completed <= panel.token /\ panel.token \in Nat /\ panel.completed \in Nat
  BY DEF SavingInv, SavingShapes, ConfirmInv, Confirming, Panes
<1>3. u.token # panel.token /\ u.completed < u.token /\ u.pending.key = u.token /\ u.pending.uci = c.uci
      /\ u.token \in Nat
  BY <1>1, <1>2
<1>4. Saving!Settled(u) = u
  BY <1>3, SettledWaits DEF Panes
<1>5. Confirming(u)
  BY <1>3 DEF Confirming, Panes
<1> QED
  BY <1>1, <1>3, <1>4, <1>5

LEMMA HearSavingStep == ASSUME SavingInv, NEW c \in calls, Saving!Hear(c) PROVE SavingInv'
<1>1. /\ saved' = saved /\ changes' = changes /\ given' = given /\ c \in Calls /\ panel \in Panes
      /\ calls' = calls \ {c} /\ c.state \in {"done", "failed"}
      /\ calls' \subseteq Calls /\ changes' \in Nat /\ given' \in BOOLEAN
  BY DEF Saving!Hear, SavingInv, SavingShapes
<1>2. CASE ~c.live
  <2>1. panel' = Saving!Settled(panel) /\ gets' = gets
    BY <1>2, HeardLate
  <2>2. given
    BY <1>2 DEF SavingInv, ConfirmInv
  <2>3. /\ panel' \in Panes /\ (panel'.pending = Saving!NotPending \/ panel' = panel)
        /\ panel.pending = Saving!NotPending => panel' = panel
        /\ panel'.view = panel.view /\ panel'.shown = panel.shown /\ panel'.loading = panel.loading
        /\ panel'.token = panel.token
    BY <1>1, <2>1, SettledFields
  <2>4. SavingShapes' /\ GetsInv'
    BY <1>1, <2>1, <2>3 DEF SavingInv, SavingShapes, GetsInv
  <2>5. Own(panel, calls') /\ (\A d \in calls' : d.live => panel' = panel)
    BY <1>1, <2>3 DEF SavingInv, MutationInv, Own
  <2>6. MutationInv'
    BY <2>3, <2>5 DEF SavingInv, MutationInv, Own, Awaited
  <2> QED
    BY <1>1, <2>2, <2>4, <2>6 DEF SavingInv, ConfirmInv
<1>3. ASSUME c.live PROVE (\A d \in calls' : ~d.live) /\ (~given => calls' = {})
  BY <1>1, <1>3 DEF SavingInv, MutationInv, Own, ConfirmInv
<1>4. CASE c.live /\ c.state = "failed"
  <2>1. ~given => Current
    BY <1>1, <1>3, <1>4 DEF SavingInv, ConfirmInv
  <2> QED
    BY <1>1, <1>3, <1>4, <2>1, HeardFailure, Rest
<1>5. CASE c.live /\ c.state = "done" /\ ~given
  <2>1. PICK u \in Panes :
          /\ panel' = Saving!Reading(u, u.view.source) /\ gets' = Saving!ReadsAfter(u, u.view.source)
          /\ Awaited(u) /\ Confirming(u) /\ u.view.source = c.fen /\ u.pending.uci = c.uci
    BY <1>5, HeardInTime
  <2>2. saved[c.fen] = c.uci
    BY <1>5 DEF SavingInv, ConfirmInv
  <2>3. Own(u, calls')
    BY <1>3, <1>5 DEF Own
  <2> QED
    BY <1>1, <1>3, <1>5, <2>1, <2>2, <2>3, Reload
<1>6. CASE c.live /\ c.state = "done" /\ given
  <2>1. PICK u \in Panes :
          /\ Awaited(u) /\ u.view = panel.view /\ u.shown = panel.shown /\ u.loading = panel.loading
          /\ IF u.token = panel.token
               THEN panel' = Saving!Settled(u) /\ gets' = gets
               ELSE /\ panel' = Saving!Reading(Saving!Settled(u), u.view.source)
                    /\ gets' = Saving!ReadsAfter(u, u.view.source)
    BY <1>6, HeardSuccess
  <2> DEFINE o == Saving!Settled(u)
  <2>2. /\ o \in Panes /\ (o.pending = Saving!NotPending \/ o = u)
        /\ o.view = u.view /\ o.shown = u.shown /\ o.loading = u.loading /\ o.token = u.token /\ o.asked = u.asked
    BY SettledFields
  <2>3. panel' = IF u.token = panel.token THEN o ELSE Saving!Reading(o, o.view.source)
    BY <2>1, <2>2
  <2>4. u.token # panel.token => gets' = Saving!ReadsAfter(o, o.view.source)
    BY <2>1, <2>2 DEF Saving!ReadsAfter
  <2> HIDE DEF o
  <2>5. Own(o, calls') /\ Awaited(o)
    BY <1>3, <1>6, <2>1, <2>2 DEF Own, Awaited
  <2>6. CASE u.token = panel.token
    <3>1. SavingShapes' /\ GetsInv'
      BY <1>1, <2>1, <2>2, <2>3, <2>6 DEF SavingInv, SavingShapes, GetsInv
    <3> QED
      BY <1>1, <1>6, <2>3, <2>5, <2>6, <3>1 DEF SavingInv, MutationInv, ConfirmInv
  <2>7. CASE u.token # panel.token
    BY <1>1, <1>6, <2>2, <2>3, <2>4, <2>5, <2>7, Reload
  <2> QED
    BY <2>6, <2>7
<1> QED
  BY <1>1, <1>2, <1>4, <1>5, <1>6

LEMMA AnswerSavingStep == ASSUME SavingInv, NEW r \in gets, Saving!Answer(r) PROVE SavingInv'
<1>1. /\ saved' = saved /\ panel' = panel /\ calls' = calls /\ changes' = changes /\ given' = given
      /\ r \in Gets /\ r.answer = "none"
  BY DEF Saving!Answer, SavingInv, SavingShapes
<1>2. PICK a \in {saved[r.fen], "failed"} : gets' = (gets \ {r}) \cup {[r EXCEPT !.answer = a]}
  BY DEF Saving!Answer
<1>3. a \in Moves \cup {NoMove, "none", "failed"}
  BY <1>1 DEF SavingInv, SavingShapes, Gets
<1> DEFINE s == [r EXCEPT !.answer = a]
<1>4. s \in Gets /\ s.fen = r.fen /\ s.key = r.key /\ (s.live <=> r.live) /\ s.answer = a
  BY <1>1, <1>3 DEF Gets
<1>5. gets' = (gets \ {r}) \cup {s}
  BY <1>2
<1> HIDE DEF s
<1>6. SavingShapes' /\ GetsInv'
  BY <1>1, <1>4, <1>5 DEF SavingInv, SavingShapes, GetsInv
<1>7. MutationInv'
  BY <1>1 DEF SavingInv, MutationInv
<1>8. ConfirmInv'
  <2>1. Current => Current'
    BY <1>1, <1>2, <1>4, <1>5 DEF Current, SavingInv, GetsInv
  <2> QED
    BY <1>1, <2>1 DEF SavingInv, ConfirmInv, Confirming
<1> QED
  BY <1>6, <1>7, <1>8 DEF SavingInv

\* The read that is listened to is heard of.
LEMMA HeardRead ==
  ASSUME SavingInv, NEW r \in gets, Saving!HearRead(r), r.live
  PROVE  /\ panel' \in Panes
         /\ panel.pending = Saving!NotPending => panel'.pending = Saving!NotPending /\ panel'.mutation = panel.mutation
         /\ \/ panel'.pending = Saving!NotPending
            \/ /\ panel'.pending = panel.pending /\ panel'.mutation = panel.mutation
               /\ panel.pending.key # panel.token
         /\ panel'.view = panel.view /\ ~panel'.loading /\ panel'.mutationId = panel.mutationId
         /\ panel'.token = panel.token /\ panel'.completed = panel.token
         /\ panel'.shown # Saving!NotShown => panel'.shown.fen = panel.view.source
         /\ panel'.readError \/ panel'.shown = [fen |-> panel.view.source, move |-> r.answer]
         /\ panel'.readError <=> r.answer = "failed"
         /\ panel'.status # panel.status =>
              panel.pending # Saving!NotPending /\ r.answer = panel.pending.uci /\ panel'.status = panel.pending.kind
         /\ panel'.error # panel.error =>
              panel.pending # Saving!NotPending /\ r.answer # "failed" /\ r.answer # panel.pending.uci
<1>1. /\ panel \in Panes /\ r \in Gets /\ r.fen = panel.view.source /\ r.key = panel.token
      /\ r.key \in Nat /\ r.answer # "none" /\ r.fen \in Saving!Sources
      /\ panel.shown # Saving!NotShown => panel.shown.fen = panel.view.source
  BY DEF Saving!HearRead, SavingInv, SavingShapes, GetsInv, Gets
<1>2. CASE r.answer = "failed"
  <2> DEFINE u == [panel EXCEPT !.loading = FALSE, !.completed = r.key, !.readError = TRUE]
  <2>1. panel' = Saving!Settled(u)
    BY <1>2 DEF Saving!HearRead
  <2>2. /\ u \in Panes /\ ~u.loading /\ u.completed = panel.token /\ u.readError /\ u.view = panel.view
        /\ u.shown = panel.shown /\ u.token = panel.token /\ u.pending = panel.pending
        /\ u.status = panel.status /\ u.error = panel.error
        /\ u.mutation = panel.mutation /\ u.mutationId = panel.mutationId
    BY <1>1 DEF Panes
  <2> HIDE DEF u
  <2> QED
    BY <1>1, <1>2, <2>1, <2>2, SettledFields
<1>3. CASE r.answer # "failed"
  <2> DEFINE s == [fen |-> r.fen, move |-> r.answer]
             u == [panel EXCEPT !.loading = FALSE, !.completed = r.key, !.readError = FALSE, !.shown = s]
  <2>1. panel' = Saving!Settled(u)
    BY <1>3 DEF Saving!HearRead
  <2>2. /\ s \in [fen : Saving!Sources, move : Moves \cup {NoMove}]
        /\ s.fen = panel.view.source /\ s.move = r.answer
    BY <1>1, <1>3 DEF Gets
  <2>3. s = [fen |-> panel.view.source, move |-> r.answer]
    BY <1>1
  <2> HIDE DEF s
  <2>4. /\ u \in Panes /\ ~u.loading /\ u.completed = panel.token /\ ~u.readError /\ u.view = panel.view
        /\ u.shown = s /\ u.token = panel.token /\ u.pending = panel.pending
        /\ u.status = panel.status /\ u.error = panel.error
        /\ u.mutation = panel.mutation /\ u.mutationId = panel.mutationId
    BY <1>1, <2>2 DEF Panes
  <2> HIDE DEF u
  <2> QED
    BY <1>1, <1>3, <2>1, <2>2, <2>3, <2>4, SettledFields
<1> QED
  BY <1>2, <1>3

LEMMA HearReadSavingStep == ASSUME SavingInv, NEW r \in gets, Saving!HearRead(r) PROVE SavingInv'
<1>1. /\ saved' = saved /\ calls' = calls /\ changes' = changes /\ given' = given /\ gets' = gets \ {r}
      /\ r.answer # "none"
  BY DEF Saving!HearRead
<1>2. CASE ~r.live
  <2>1. panel' = panel
    BY <1>2 DEF Saving!HearRead
  <2> QED
    BY <1>1, <1>2, <2>1 DEF SavingInv, SavingShapes, GetsInv, MutationInv, ConfirmInv, Confirming, Current
<1>3. CASE r.live
  <2>1. /\ panel' \in Panes
        /\ panel.pending = Saving!NotPending => panel'.pending = Saving!NotPending /\ panel'.mutation = panel.mutation
        /\ \/ panel'.pending = Saving!NotPending
           \/ /\ panel'.pending = panel.pending /\ panel'.mutation = panel.mutation
              /\ panel.pending.key # panel.token
        /\ panel'.view = panel.view /\ ~panel'.loading /\ panel'.mutationId = panel.mutationId
        /\ panel'.token = panel.token /\ panel'.completed = panel.token
        /\ panel'.shown # Saving!NotShown => panel'.shown.fen = panel.view.source
        /\ panel'.readError \/ panel'.shown = [fen |-> panel.view.source, move |-> r.answer]
        /\ panel'.readError <=> r.answer = "failed"
    BY <1>3, HeardRead
  <2>2. \A s \in gets' : ~s.live
    BY <1>1, <1>3 DEF SavingInv, GetsInv
  <2>3. SavingShapes'
    BY <1>1, <2>1 DEF SavingInv, SavingShapes
  <2>4. GetsInv'
    BY <2>1, <2>2 DEF GetsInv, Panes
  <2>5. MutationInv'
    BY <1>1, <2>1 DEF SavingInv, MutationInv, Own, Awaited, Meant
  <2>6. ConfirmInv'
    <3> SUFFICES ASSUME ~given
          PROVE  /\ calls = {} /\ Current' /\ Confirming(panel')
                 /\ panel'.pending # Saving!NotPending => saved[panel.view.source] = panel'.pending.uci
      BY <1>1, <2>1 DEF ConfirmInv, Confirming
    <3>1. /\ calls = {} /\ Current /\ Confirming(panel)
          /\ panel.pending # Saving!NotPending => saved[panel.view.source] = panel.pending.uci
      BY <1>3 DEF SavingInv, GetsInv, ConfirmInv
    <3>2. r.answer \in {"failed", saved[panel.view.source]}
      BY <1>1, <1>3, <3>1 DEF Current
    <3>3. Current'
      BY <1>1, <2>1, <2>2, <3>2 DEF Current
    <3>4. panel.token \in Nat
      BY DEF SavingInv, SavingShapes, Panes
    <3> QED
      BY <2>1, <3>1, <3>3, <3>4 DEF Confirming
  <2> QED
    BY <2>3, <2>4, <2>5, <2>6 DEF SavingInv
<1> QED
  BY <1>2, <1>3

LEMMA HearContextStep == ASSUME SavingInv, Saving!HearContext PROVE SavingInv'
<1>1. /\ saved' = saved /\ gets' = gets /\ calls' = calls /\ changes' = changes /\ given' = given
      /\ panel \in Panes /\ \E x \in {"ready", "failed"} : panel' = [panel EXCEPT !.context = x]
  BY DEF Saving!HearContext, SavingInv, SavingShapes
<1>2. /\ panel' \in Panes /\ panel'.view = panel.view /\ panel'.shown = panel.shown
      /\ panel'.loading = panel.loading /\ panel'.readError = panel.readError
      /\ panel'.completed = panel.completed /\ panel'.token = panel.token /\ panel'.mutation = panel.mutation
      /\ panel'.mutationId = panel.mutationId /\ panel'.pending = panel.pending
  BY <1>1 DEF Panes
<1> QED
  BY <1>1, <1>2
     DEF SavingInv, SavingShapes, GetsInv, MutationInv, Own, Awaited, Meant, ConfirmInv, Confirming, Current

LEMMA SavingStep == SavingInv /\ [Saving!Next]_(Saving!vars) => SavingInv'
<1>1. ASSUME SavingInv, UNCHANGED Saving!vars PROVE SavingInv'
  BY <1>1 DEF Saving!vars, SavingInv, SavingShapes, GetsInv, MutationInv, ConfirmInv, Confirming, Current
<1>2. ASSUME SavingInv, NEW kind \in Saving!Kinds, Saving!Click(kind) PROVE SavingInv'
  BY <1>2, RunStep DEF Saving!Click, Saving!Acts, SavingInv, SavingShapes
<1> QED
  BY <1>1, <1>2, GoAwayStep, StayStep, RetrySavingStep, ApplySavingStep, FailSavingStep, HearSavingStep,
     AnswerSavingStep, HearReadSavingStep, HearContextStep DEF Saving!Next, Saving!User, Saving!Network

\* What a step of the panel announces, as far as every call has been heard of.
Announces ==
  panel'.status # panel.status /\ panel'.mutation = "none" /\ ~given =>
    saved[panel.view.source] = IF panel'.status = "save" THEN panel.view.selected ELSE NoMove

Doubts == panel'.error = "unconfirmed" /\ panel.error # "unconfirmed" /\ ~given

LEMMA StepKeepsItsWord == SavingInv /\ [Saving!Next]_(Saving!vars) => Announces /\ ~Doubts
<1> SUFFICES ASSUME SavingInv, [Saving!Next]_(Saving!vars), ~given PROVE Announces /\ ~Doubts
  BY DEF Announces, Doubts
<1>1. panel \in Panes
  BY DEF SavingInv, SavingShapes
<1>2. ASSUME panel'.status = panel.status, panel'.error # "unconfirmed" \/ panel'.error = panel.error
      PROVE  Announces /\ ~Doubts
  BY <1>2 DEF Announces, Doubts
<1>3. ASSUME NEW u \in Panes, u.status = panel.status, u.error \in {"none", panel.error}, panel' = Saving!Reading(u, u.view.source)
      PROVE  Announces /\ ~Doubts
  <2>1. u.view.source \in Saving!Sources
    BY ViewsConcern DEF Panes
  <2> QED
    BY <1>2, <1>3, <2>1, ReadingFields
<1>4. ASSUME NEW r \in gets, Saving!HearRead(r) PROVE Announces /\ ~Doubts
  <2>1. CASE ~r.live
    BY <1>2, <1>4, <2>1 DEF Saving!HearRead
  <2>2. CASE r.live
    <3> SUFFICES Announces /\ (panel'.error = panel.error)
      BY DEF Announces, Doubts
    <3>1. /\ panel'.status # panel.status =>
               panel.pending # Saving!NotPending /\ r.answer = panel.pending.uci
               /\ panel'.status = panel.pending.kind
          /\ panel'.error # panel.error =>
               panel.pending # Saving!NotPending /\ r.answer # "failed" /\ r.answer # panel.pending.uci
      BY <1>4, <2>2, HeardRead
    <3>2. panel.pending # Saving!NotPending =>
            /\ saved[panel.view.source] = panel.pending.uci /\ panel.pending.kind = panel.mutation
            /\ panel.pending.uci = Meant(panel, panel.mutation)
      BY DEF SavingInv, ConfirmInv, MutationInv, Awaited
    <3>4. Current
      BY <2>2 DEF SavingInv, GetsInv, ConfirmInv
    <3>5. r.answer \in {"failed", saved[panel.view.source]}
      BY <1>4, <2>2, <3>4 DEF Current, Saving!HearRead
    <3> QED
      BY <3>1, <3>2, <3>5 DEF Announces, Meant
  <2> QED
    BY <2>1, <2>2
<1>5. ASSUME NEW c \in calls, Saving!Hear(c) PROVE Announces /\ ~Doubts
  <2>1. c.live
    BY DEF SavingInv, ConfirmInv
  <2>2. CASE c.live /\ c.state = "failed"
    BY <1>2, <1>5, <2>2, HeardFailure
  <2>3. CASE c.live /\ c.state = "done"
    BY <1>3, <1>5, <2>3, HeardInTime
  <2> QED
    BY <1>5, <2>1, <2>2, <2>3 DEF Saving!Hear
<1>6. ASSUME NEW v \in Views, Saving!Go(v) PROVE Announces /\ ~Doubts
  <2> DEFINE w == Saving!Cleared(panel)
             x == IF v.at = panel.view.at /\ v.bottom = panel.view.bottom THEN w.context ELSE "loading"
             u == [w EXCEPT !.view = v, !.context = x]
  <2>1. panel' = u \/ panel' = Saving!Reading(u, v.source)
    BY <1>6, Zenon DEF Saving!Go
  <2>2. w \in Panes /\ w.status = panel.status /\ w.error = "none"
    BY <1>1, ClearedFields
  <2> HIDE DEF w
  <2>3. x \in {"loading", "ready", "failed"}
    BY <2>2 DEF Panes
  <2> HIDE DEF x
  <2>4. u \in Panes /\ u.view = v /\ u.status = panel.status /\ u.error = "none"
    BY <2>2, <2>3 DEF Panes
  <2> HIDE DEF u
  <2> QED
    BY <1>2, <1>3, <2>1, <2>4
<1>7. ASSUME Saving!Stay PROVE Announces /\ ~Doubts
  <2>1. panel'.status = panel.status /\ panel'.error = "none"
    BY <1>1, <1>7, ClearedFields DEF Saving!Stay
  <2> QED
    BY <1>2, <2>1
<1>8. ASSUME NEW kind \in Saving!Kinds, Saving!Run(kind) PROVE Announces /\ ~Doubts
  BY <1>1, <1>2, <1>8 DEF Saving!Run, Panes
<1>9. ASSUME Saving!Retry PROVE Announces /\ ~Doubts
  <2>1. CASE panel.failed # "none"
    BY <1>1, <1>8, <1>9, <2>1 DEF Saving!Retry, Panes
  <2>2. CASE panel.failed = "none"
    <3> DEFINE u == [panel EXCEPT !.error = "none", !.token = @ + 1, !.context = "loading"]
    <3>1. panel' = Saving!Reading(u, u.view.source)
      BY <1>9, <2>2 DEF Saving!Retry
    <3>2. panel.token + 1 \in Nat
      BY <1>1 DEF Panes
    <3>3. u \in Panes /\ u.status = panel.status /\ u.error = "none"
      BY <1>1, <3>2 DEF Panes
    <3> HIDE DEF u
    <3> QED
      BY <1>3, <3>1, <3>3
  <2> QED
    BY <2>1, <2>2
<1>10. ASSUME Saving!HearContext PROVE Announces /\ ~Doubts
  BY <1>1, <1>2, <1>10 DEF Saving!HearContext, Panes
<1>11. ASSUME UNCHANGED panel PROVE Announces /\ ~Doubts
  BY <1>2, <1>11
<1> QED
  BY <1>4, <1>5, <1>6, <1>7, <1>8, <1>9, <1>10, <1>11
     DEF Saving!Next, Saving!User, Saving!Network, Saving!Click, Saving!Apply, Saving!Fail, Saving!Answer, Saving!vars

\* What the panel's invariant says of what is checked.
LEMMA SavingIsTrue == SavingInv => Saving!TypeOK /\ Saving!ShownIsOfSource /\ Saving!PatientQuietIsTrue
<1> SUFFICES ASSUME SavingInv PROVE Saving!TypeOK /\ Saving!ShownIsOfSource /\ Saving!PatientQuietIsTrue
  OBVIOUS
<1>1. Saving!TypeOK
  BY DEF SavingInv, SavingShapes, GetsInv, MutationInv, Awaited, Panes, Saving!TypeOK
<1>2. Saving!ShownIsOfSource
  BY DEF SavingInv, GetsInv, Saving!ShownIsOfSource
<1>3. Saving!PatientQuietIsTrue
  BY DEF SavingInv, GetsInv, ConfirmInv, Current, Saving!PatientQuietIsTrue, Saving!QuietIsTrue
<1> QED
  BY <1>1, <1>2, <1>3

HIDE SavingHolds DEF Saving!WorkflowAssumption

-----------------------------------------------------------------------------

(* Both panels. *)

\* Both panels' invariants, in every behaviour of the page.
LEMMA PanelsInvariance == BuilderSpec => [](PollingInv /\ SavingInv)
<1>1. BuilderInit => PollingInv /\ SavingInv
  BY PollingInitHolds, SavingInitHolds DEF BuilderInit
<1>2. PollingInv /\ SavingInv /\ [BuilderNext]_builder => (PollingInv /\ SavingInv)'
  <2> SUFFICES ASSUME PollingInv, SavingInv, [BuilderNext]_builder PROVE PollingInv' /\ SavingInv'
    OBVIOUS
  <2>1. [Polling!Next]_(Polling!vars) /\ [Saving!Next]_(Saving!vars)
    BY DEF BuilderNext, OfPolling, OfSaving, builder, polling, saving, Polling!vars, Saving!vars
  <2> QED
    BY <2>1, PollingStep, SavingStep
<1> QED
  BY <1>1, <1>2, PTL DEF BuilderSpec

\* What the panels show is of the position on the board and, unless a mutation was
\* given up, lost or overtaken by a Retry, what the server holds once nothing is under
\* way (analysisState.ts, preferredMoveState.ts).
THEOREM PanelsStayTrue == BuilderSpec => []PanelsAreTrue
<1>1. PollingInv /\ SavingInv => PanelsAreTrue
  BY PollingIsTrue, SavingIsTrue DEF PanelsAreTrue
<1> QED
  BY <1>1, PanelsInvariance, PTL

\* A result shown does not vanish; and unless a call was given up, lost or overtaken by
\* a Retry, "saved" and "removed" are said of what the server holds and what it
\* acknowledged is not doubted (preferredMoveWorkflowState.ts).
THEOREM PanelsStayTrueToTheirWord == BuilderSpec => PanelsKeepTheirWord
<1>1. PollingInv /\ SavingInv /\ [BuilderNext]_builder =>
        /\ [Polling!Same(ui, ui'.fen) /\ ui.shown.result > 0 => ui'.shown.result > 0]_(Polling!vars)
        /\ [panel'.status # panel.status /\ panel'.mutation = "none" /\ ~given =>
              saved[panel.view.source] = IF panel'.status = "save" THEN panel.view.selected ELSE NoMove]_(Saving!vars)
        /\ [panel'.error = "unconfirmed" /\ panel.error # "unconfirmed" /\ ~given =>
              saved[panel.view.source] # IF panel.mutation = "save" THEN panel.view.selected ELSE NoMove]_(Saving!vars)
  <2>1. [BuilderNext]_builder => [Polling!Next]_(Polling!vars) /\ [Saving!Next]_(Saving!vars)
    BY DEF BuilderNext, OfPolling, OfSaving, builder, polling, saving, Polling!vars, Saving!vars
  <2> QED
    BY <2>1, StepKeepsResult, StepKeepsItsWord DEF KeepsResult, Announces, Doubts
<1> QED
  BY <1>1, PanelsInvariance, PTL DEF BuilderSpec, PanelsKeepTheirWord, Polling!ResultStays,
     Saving!AnnouncedIsPersisted, Saving!AcknowledgedIsNotDoubted

================================================================================
