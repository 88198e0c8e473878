------------------------- MODULE AnalysisQueueProofs -------------------------
(***************************************************************************)
(* Proofs about AnalysisQueue, for every set of positions, callers and     *)
(* tokens and every stale interval.  They are about ApiSpec, which allows  *)
(* every step Spec does; that promotions survive and that the queue        *)
(* implements AnalysisService is about Spec.                               *)
(***************************************************************************)
EXTENDS AnalysisQueue, TLAPS

USE QueueAssumption DEF QueueAssumption

-----------------------------------------------------------------------------
(* Types. *)

\* A row of the table, or its absence, that satisfies the CHECK constraint.
GoodRow(row) ==
  /\ row \in Row \cup {NoRow}
  /\ (row.token # NoToken) <=> (row.state = "running")

LEMMA NoRowIsGood == GoodRow(NoRow) /\ ~Live(NoRow)
BY DEF GoodRow, NoRow, Live

LEMMA LiveRow ==
  ASSUME NEW row, GoodRow(row), Live(row)
  PROVE  row \in Row
BY NoRowIsGood DEF GoodRow, NoRow, Live

LEMMA HigherType ==
  ASSUME NEW a \in Quality, NEW b \in Quality
  PROVE  /\ Higher(a, b) \in Quality
         /\ Rank(Higher(a, b)) >= Rank(a)
BY DEF Higher, Quality, Rank

LEMMA ZeroAge == 0 \in 0..Horizon /\ 0 \in 0..StaleAfter
OBVIOUS

LEMMA EnqueuedIsGood ==
  ASSUME NEW row, GoodRow(row), NEW q \in Quality
  PROVE  GoodRow(Enqueued(row, q)) /\ Live(Enqueued(row, q))
<1>1. CASE Live(row)
  <2>1. row \in Row
    BY <1>1, LiveRow
  <2>2. Higher(row.quality, q) \in Quality
    BY <2>1, HigherType DEF Row
  <2> QED
    BY <1>1, <2>1, <2>2, ZeroAge DEF GoodRow, Enqueued, Live, Row
<1>2. CASE ~Live(row)
  BY <1>2 DEF GoodRow, Enqueued, Live, Row, NewRow
<1> QED
  BY <1>1, <1>2

\* A request never touches the state or the token of a live row, and its
\* quality only rises.
LEMMA EnqueuedKeeps ==
  ASSUME NEW row, GoodRow(row), NEW q \in Quality
  PROVE  /\ Enqueued(row, q).state = "running" <=> row.state = "running"
         /\ row.state = "running" =>
              /\ Enqueued(row, q).token = row.token
              /\ Rank(Enqueued(row, q).quality) >= Rank(row.quality)
<1>1. CASE Live(row)
  <2>1. row \in Row
    BY <1>1, LiveRow
  <2>2. /\ Enqueued(row, q).state = row.state
        /\ Enqueued(row, q).token = row.token
        /\ Enqueued(row, q).quality = Higher(row.quality, q)
    BY <1>1, <2>1 DEF Enqueued, Row
  <2>3. Rank(Higher(row.quality, q)) >= Rank(row.quality)
    BY <2>1, HigherType DEF Row
  <2> QED
    BY <2>2, <2>3
<1>2. CASE ~Live(row)
  BY <1>2 DEF Enqueued, NewRow, Live
<1> QED
  BY <1>1, <1>2

LEMMA RunningIsGood ==
  ASSUME NEW row, GoodRow(row), Live(row), NEW t \in Tokens
  PROVE  GoodRow(Running(row, t)) /\ Live(Running(row, t))
<1>1. row \in Row
  BY LiveRow
<1> QED
  BY <1>1, ZeroAge DEF GoodRow, Running, Live, Row

LEMMA RequeuedIsGood ==
  ASSUME NEW row, GoodRow(row), Live(row)
  PROVE  GoodRow(Requeued(row)) /\ Live(Requeued(row))
<1>1. row \in Row
  BY LiveRow
<1> QED
  BY <1>1, ZeroAge DEF GoodRow, Requeued, Live, Row

LEMMA SettledIsGood ==
  ASSUME NEW row, GoodRow(row), Live(row), NEW q
  PROVE  GoodRow(Settled(row, q))
BY RequeuedIsGood, NoRowIsGood DEF Settled

LEMMA OlderType ==
  ASSUME NEW cap \in Nat, NEW age \in 0..cap
  PROVE  Older(age, cap) \in 0..cap /\ Older(age, cap) >= age
BY DEF Older

LEMMA AgedIsGood ==
  ASSUME NEW row, GoodRow(row)
  PROVE  /\ GoodRow(Aged(row))
         /\ Aged(row).token = row.token
         /\ Aged(row).state = row.state
         /\ Aged(row).quality = row.quality
<1>1. CASE Live(row)
  <2>1. row \in Row
    BY <1>1, LiveRow
  <2>2. /\ row.requestedAge \in 0..Horizon /\ row.claimedAge \in 0..StaleAfter
    BY <2>1 DEF Row
  <2>3. /\ Older(row.requestedAge, Horizon) \in 0..Horizon
        /\ Older(row.claimedAge, StaleAfter) \in 0..StaleAfter
    BY <2>2, OlderType
  <2>4. CASE row.state = "running"
    <3>1. Aged(row) = [row EXCEPT
            !.requestedAge = Older(row.requestedAge, Horizon),
            !.claimedAge = Older(row.claimedAge, StaleAfter)]
      BY <1>1, <2>1, <2>4 DEF Aged, Row
    <3> QED
      BY <2>1, <2>3, <3>1 DEF GoodRow, Row
  <2>5. CASE row.state # "running"
    <3>1. Aged(row) = [row EXCEPT
            !.requestedAge = Older(row.requestedAge, Horizon),
            !.claimedAge = 0]
      BY <1>1, <2>1, <2>5 DEF Aged, Row
    <3> QED
      BY <2>1, <2>3, <3>1, ZeroAge DEF GoodRow, Row
  <2> QED
    BY <2>4, <2>5
<1>2. CASE ~Live(row)
  BY <1>2 DEF Aged
<1> QED
  BY <1>1, <1>2

LEMMA PublishedType ==
  ASSUME NEW old \in Result \cup {NoResult}, NEW q \in Quality
  PROVE  Published(Fresh(q), old) \in Result \cup {NoResult}
BY DEF Published, Fresh, Result, Version

GoodRows == \A p \in Positions : GoodRow(queue[p])

LEMMA TypeOKRows ==
  TypeOK <=> /\ DOMAIN queue = Positions
             /\ queue = [p \in Positions |-> queue[p]]
             /\ GoodRows
             /\ results \in [Positions -> Result \cup {NoResult}]
             /\ claim \in [Callers -> Claims \cup {NoClaim}]
BY DEF TypeOK, GoodRows, GoodRow

\* Writing a good row to a good table.
LEMMA WriteRow ==
  ASSUME TypeOK, NEW p \in Positions, NEW row, GoodRow(row),
         queue' = [queue EXCEPT ![p] = row]
  PROVE  /\ queue' \in [Positions -> Row \cup {NoRow}]
         /\ GoodRows'
         /\ queue'[p] = row
         /\ \A o \in Positions \ {p} : queue'[o] = queue[o]
BY TypeOKRows DEF GoodRows, GoodRow, TypeOK

-----------------------------------------------------------------------------
(* What the transactions do to the rows. *)

TicketStep(k) ==
  ReleaseTicket(k) \/ DeleteTicket(k) \/ FailTicket(k) \/ CompleteTicket(k)

LEMMA OwnedRow ==
  ASSUME TypeOK, NEW k \in Claims \cup {NoClaim}, Owns(k)
  PROVE  /\ k \in Claims /\ k.position \in Positions
         /\ k.quality \in Quality /\ k.token \in Tokens
         /\ GoodRow(queue[k.position]) /\ Live(queue[k.position])
         /\ queue[k.position].state = "running"
<1>1. k \in Claims
  BY DEF Owns
<1>2. k.position \in Positions /\ k.quality \in Quality /\ k.token \in Tokens
  BY <1>1 DEF Claims
<1> QED
  BY <1>1, <1>2, TypeOKRows DEF Owns, Live, GoodRows

\* An operation on a ticket changes nothing, or takes the row it owns out of
\* the running state.
LEMMA TicketEffect ==
  ASSUME TypeOK, NEW k \in Claims \cup {NoClaim}, TicketStep(k)
  PROVE  /\ results' \in [Positions -> Result \cup {NoResult}]
         /\ \/ queue' = queue
            \/ /\ Owns(k)
               /\ \E row \in {NoRow, Requeued(queue[k.position])} :
                    queue' = [queue EXCEPT ![k.position] = row]
<1>1. CASE ReleaseTicket(k)
  BY <1>1 DEF ReleaseTicket, TypeOK
<1>2. CASE DeleteTicket(k)
  BY <1>2 DEF DeleteTicket, TypeOK
<1>3. CASE FailTicket(k)
  BY <1>3 DEF FailTicket, Settled, TypeOK
<1>4. CASE CompleteTicket(k)
  <2>1. CASE /\ Owns(k)
             /\ Rank(queue[k.position].quality) >= Rank(k.quality)
    <3>1. /\ results' = [results EXCEPT
                ![k.position] = Published(Fresh(k.quality), @)]
          /\ queue' = [queue EXCEPT ![k.position] = Settled(@, k.quality)]
      BY <1>4, <2>1 DEF CompleteTicket
    <3>2. k.position \in Positions /\ k.quality \in Quality
      BY <2>1, OwnedRow
    <3>3. results[k.position] \in Result \cup {NoResult}
      BY <3>2 DEF TypeOK
    <3>4. results' \in [Positions -> Result \cup {NoResult}]
      BY <3>1, <3>2, <3>3, PublishedType DEF TypeOK
    <3> QED
      BY <2>1, <3>1, <3>4 DEF Settled
  <2>2. CASE ~(/\ Owns(k)
               /\ Rank(queue[k.position].quality) >= Rank(k.quality))
    BY <1>4, <2>2 DEF CompleteTicket, TypeOK
  <2> QED
    BY <2>1, <2>2
<1> QED
  BY <1>1, <1>2, <1>3, <1>4 DEF TicketStep

LEMMA TicketRows ==
  ASSUME TypeOK, NEW k \in Claims \cup {NoClaim}, TicketStep(k)
  PROVE  /\ queue' \in [Positions -> Row \cup {NoRow}]
         /\ GoodRows'
         /\ \A p \in Positions :
              \/ queue'[p] = queue[p]
              \/ /\ Owns(k) /\ p = k.position
                 /\ queue'[p].state # "running"
<1>1. CASE queue' = queue
  BY <1>1, TypeOKRows DEF TypeOK, GoodRows
<1>2. CASE Owns(k) /\ \E row \in {NoRow, Requeued(queue[k.position])} :
                        queue' = [queue EXCEPT ![k.position] = row]
  <2>1. /\ k.position \in Positions
        /\ GoodRow(queue[k.position]) /\ Live(queue[k.position])
    BY <1>2, OwnedRow
  <2>2. PICK row \in {NoRow, Requeued(queue[k.position])} :
          queue' = [queue EXCEPT ![k.position] = row]
    BY <1>2
  <2>3. Requeued(queue[k.position]).state # "running" /\ NoRow.state # "running"
    BY <2>1, LiveRow DEF Requeued, NoRow, Row
  <2>4. GoodRow(row) /\ row.state # "running"
    BY <2>1, <2>3, NoRowIsGood, RequeuedIsGood
  <2> QED
    BY <1>2, <2>1, <2>2, <2>4, WriteRow
<1> QED
  BY <1>1, <1>2, TicketEffect

-----------------------------------------------------------------------------
(* The steps: a caller claims, or every other step, which is quiet. *)

QuietStep ==
  \/ \E p \in Positions, q \in Quality :
       Request(p, q) \/ Enqueue(p, q) \/ Publish(p, q)
  \/ \E c \in Callers : TicketStep(claim[c]) /\ MayDrop(c)
  \/ \E c \in Callers : Drop(c)
  \/ Tick
  \/ UNCHANGED vars

LEMMA StepIsClaimOrQuiet ==
  [ApiNext]_vars => QuietStep \/ \E c \in Callers : Claim(c)
BY DEF ApiNext, Next, QuietStep, TicketStep, Release, Delete, Fail, Complete

\* What a quiet step may do to running rows and to tickets.
Keeps ==
  /\ \A p \in Positions :
       queue'[p].state = "running" =>
         /\ queue[p].state = "running"
         /\ queue'[p].token = queue[p].token
         /\ Rank(queue'[p].quality) >= Rank(queue[p].quality)
  /\ \A c \in Callers : claim'[c] \in {claim[c], NoClaim}

\* Who may end a running row.
OwnerEnds ==
  \A p \in Positions :
    queue[p].state = "running" /\ queue'[p].state # "running"
      => \E c \in Callers : Owns(claim[c]) /\ claim[c].position = p

LEMMA RowRank ==
  ASSUME TypeOK, NEW p \in Positions
  PROVE  Rank(queue[p].quality) \in {0, 1}
BY DEF Rank

LEMMA SameRowsKeep ==
  ASSUME TypeOK, queue' = queue,
         \A c \in Callers : claim'[c] \in {claim[c], NoClaim}
  PROVE  Keeps /\ OwnerEnds
BY RowRank DEF Keeps, OwnerEnds

LEMMA RequestQuiet ==
  ASSUME TypeOK, NEW p \in Positions, NEW q \in Quality,
         queue' = [queue EXCEPT ![p] = Enqueued(@, q)],
         UNCHANGED <<results, claim>>
  PROVE  TypeOK' /\ Keeps /\ OwnerEnds
<1>1. GoodRow(queue[p])
  BY TypeOKRows DEF GoodRows
<1>2. GoodRow(Enqueued(queue[p], q))
  BY <1>1, EnqueuedIsGood
<1>3. /\ queue' \in [Positions -> Row \cup {NoRow}] /\ GoodRows'
      /\ queue'[p] = Enqueued(queue[p], q)
      /\ \A o \in Positions \ {p} : queue'[o] = queue[o]
  BY <1>2, WriteRow
<1>4. TypeOK'
  BY <1>3 DEF TypeOK, GoodRows, GoodRow
<1>5. \A o \in Positions :
        /\ queue'[o].state = "running" <=> queue[o].state = "running"
        /\ queue[o].state = "running" =>
             /\ queue'[o].token = queue[o].token
             /\ Rank(queue'[o].quality) >= Rank(queue[o].quality)
  <2> SUFFICES ASSUME NEW o \in Positions
      PROVE  /\ queue'[o].state = "running" <=> queue[o].state = "running"
             /\ queue[o].state = "running" =>
                  /\ queue'[o].token = queue[o].token
                  /\ Rank(queue'[o].quality) >= Rank(queue[o].quality)
    OBVIOUS
  <2>1. CASE o = p
    BY <1>1, <1>3, <2>1, EnqueuedKeeps
  <2>2. CASE o # p
    BY <1>3, <2>2, RowRank
  <2> QED
    BY <2>1, <2>2
<1> QED
  BY <1>4, <1>5 DEF Keeps, OwnerEnds

LEMMA TickQuiet ==
  ASSUME TypeOK, Tick
  PROVE  TypeOK' /\ Keeps /\ OwnerEnds
<1>1. \A p \in Positions : GoodRow(queue[p])
  BY TypeOKRows DEF GoodRows
<1>2. queue' = [p \in Positions |-> Aged(queue[p])] /\ UNCHANGED <<results, claim>>
  BY DEF Tick
<1>3. \A p \in Positions :
        /\ GoodRow(queue'[p])
        /\ queue'[p].token = queue[p].token
        /\ queue'[p].state = queue[p].state
        /\ queue'[p].quality = queue[p].quality
  BY <1>1, <1>2, AgedIsGood
<1>4. TypeOK'
  BY <1>2, <1>3 DEF TypeOK, GoodRow
<1> QED
  BY <1>2, <1>3, <1>4, RowRank DEF Keeps, OwnerEnds

LEMMA TicketQuiet ==
  ASSUME TypeOK, NEW c \in Callers, TicketStep(claim[c]), MayDrop(c)
  PROVE  TypeOK' /\ Keeps /\ OwnerEnds
<1>1. claim[c] \in Claims \cup {NoClaim}
  BY DEF TypeOK
<1>2. /\ queue' \in [Positions -> Row \cup {NoRow}] /\ GoodRows'
      /\ results' \in [Positions -> Result \cup {NoResult}]
      /\ \A p \in Positions :
           \/ queue'[p] = queue[p]
           \/ /\ Owns(claim[c]) /\ p = claim[c].position
              /\ queue'[p].state # "running"
  BY <1>1, TicketEffect, TicketRows
<1>3. /\ claim' \in [Callers -> Claims \cup {NoClaim}]
      /\ \A d \in Callers : claim'[d] \in {claim[d], NoClaim}
  BY DEF MayDrop, TypeOK
<1>4. TypeOK'
  BY <1>2, <1>3 DEF TypeOK, GoodRows, GoodRow
<1> QED
  BY <1>2, <1>3, <1>4, RowRank DEF Keeps, OwnerEnds

LEMMA QuietSteps ==
  ASSUME TypeOK, QuietStep
  PROVE  TypeOK' /\ Keeps /\ OwnerEnds
<1>1. ASSUME NEW p \in Positions, NEW q \in Quality, Request(p, q)
      PROVE  TypeOK' /\ Keeps /\ OwnerEnds
  <2>1. CASE NeedsWork(p, q)
    BY <1>1, <2>1, RequestQuiet DEF Request
  <2>2. CASE ~NeedsWork(p, q)
    BY <1>1, <2>2, SameRowsKeep DEF Request, TypeOK
  <2> QED
    BY <2>1, <2>2
<1>2. ASSUME NEW p \in Positions, NEW q \in Quality, Enqueue(p, q)
      PROVE  TypeOK' /\ Keeps /\ OwnerEnds
  BY <1>2, RequestQuiet DEF Enqueue
<1>3. ASSUME NEW p \in Positions, NEW q \in Quality, Publish(p, q)
      PROVE  TypeOK' /\ Keeps /\ OwnerEnds
  <2>1. results[p] \in Result \cup {NoResult}
    BY DEF TypeOK
  <2>2. results' \in [Positions -> Result \cup {NoResult}]
    BY <1>3, <2>1, PublishedType DEF Publish, TypeOK
  <2>3. TypeOK'
    BY <1>3, <2>2 DEF Publish, TypeOK
  <2> QED
    BY <1>3, <2>3, SameRowsKeep DEF Publish
<1>4. ASSUME NEW c \in Callers, TicketStep(claim[c]), MayDrop(c)
      PROVE  TypeOK' /\ Keeps /\ OwnerEnds
  BY <1>4, TicketQuiet
<1>5. ASSUME NEW c \in Callers, Drop(c)
      PROVE  TypeOK' /\ Keeps /\ OwnerEnds
  <2>1. TypeOK'
    BY <1>5 DEF Drop, TypeOK
  <2>2. \A d \in Callers : claim'[d] \in {claim[d], NoClaim}
    BY <1>5 DEF Drop, TypeOK
  <2> QED
    BY <1>5, <2>1, <2>2, SameRowsKeep DEF Drop
<1>6. CASE Tick
  BY <1>6, TickQuiet
<1>7. CASE UNCHANGED vars
  BY <1>7, SameRowsKeep DEF vars, TypeOK
<1> QED
  BY <1>1, <1>2, <1>3, <1>4, <1>5, <1>6, <1>7 DEF QuietStep

LEMMA ClaimEffect ==
  ASSUME TypeOK, NEW c \in Callers, Claim(c)
  PROVE  /\ TypeOK'
         /\ \E p \in Positions, t \in Tokens :
              /\ queue[p].state = "queued" \/ Stale(queue[p])
              /\ FreshToken(t)
              /\ queue'[p].state = "running" /\ queue'[p].token = t
              /\ queue'[p].quality = queue[p].quality
              /\ \A o \in Positions \ {p} : queue'[o] = queue[o]
              /\ claim[c] = NoClaim
              /\ claim'[c] = [position |-> p, quality |-> queue[p].quality,
                              token |-> t]
              /\ \A d \in Callers \ {c} : claim'[d] = claim[d]
<1>1. PICK p \in Positions, t \in Tokens, excluded \in SUBSET Positions :
        ClaimRow(c, p, t, excluded)
  BY DEF Claim
<1>2. queue[p].state = "queued" \/ Stale(queue[p])
  BY <1>1 DEF ClaimRow, Oldest, Claimable
<1>3. GoodRow(queue[p]) /\ Live(queue[p])
  BY <1>2, TypeOKRows DEF GoodRows, Stale, Live
<1>4. queue[p] \in Row
  BY <1>3, LiveRow
<1>5. GoodRow(Running(queue[p], t))
  BY <1>3, RunningIsGood
<1>6. /\ queue' = [queue EXCEPT ![p] = Running(queue[p], t)]
      /\ claim' = [claim EXCEPT ![c] =
            [position |-> p, quality |-> queue[p].quality, token |-> t]]
      /\ UNCHANGED results
      /\ FreshToken(t)
      /\ claim[c] = NoClaim
  BY <1>1 DEF ClaimRow, Claim
<1>7. /\ queue' \in [Positions -> Row \cup {NoRow}] /\ GoodRows'
      /\ queue'[p] = Running(queue[p], t)
      /\ \A o \in Positions \ {p} : queue'[o] = queue[o]
  BY <1>5, <1>6, WriteRow
<1>8. /\ Running(queue[p], t).state = "running"
      /\ Running(queue[p], t).token = t
      /\ Running(queue[p], t).quality = queue[p].quality
  BY <1>4 DEF Running, Row
<1>9. [position |-> p, quality |-> queue[p].quality, token |-> t] \in Claims
  BY <1>4 DEF Claims, Row
<1>10. /\ claim' \in [Callers -> Claims \cup {NoClaim}]
       /\ claim'[c] = [position |-> p, quality |-> queue[p].quality, token |-> t]
       /\ \A d \in Callers \ {c} : claim'[d] = claim[d]
  BY <1>6, <1>9 DEF TypeOK
<1>11. TypeOK'
  BY <1>6, <1>7, <1>10 DEF TypeOK, GoodRows, GoodRow
<1> QED
  BY <1>2, <1>6, <1>7, <1>8, <1>10, <1>11

LEMMA InitTypes == Init => TypeOK
BY DEF Init, TypeOK, NoRow

LEMMA StepTypes == TypeOK /\ [ApiNext]_vars => TypeOK'
BY StepIsClaimOrQuiet, QuietSteps, ClaimEffect

\* The tables and the tickets stay well formed: claim columns are set exactly
\* on running rows, as the table's CHECK constraint demands.
THEOREM TypesAreCorrect == ApiSpec => []TypeOK
BY InitTypes, StepTypes, PTL DEF ApiSpec

-----------------------------------------------------------------------------
(* The tickets of the queue.  TokensIdentifyRows alone says nothing of the *)
(* tickets; OneOwnerPerRow is not inductive without the fact that no two   *)
(* tickets carry the same token, stale ones included.                      *)

TicketsDiffer ==
  \A c, d \in Callers :
    c # d /\ claim[c] # NoClaim /\ claim[d] # NoClaim
      => claim[c].token # claim[d].token

QueueInv ==
  /\ TypeOK
  /\ TokensIdentifyRows
  /\ TicketsDiffer
  /\ ClaimNeverOutranksRow

LEMMA InitInv == Init => QueueInv
BY InitTypes
   DEF Init, QueueInv, TokensIdentifyRows, TicketsDiffer, ClaimNeverOutranksRow,
       Owns, NoRow

LEMMA TicketOfClaim ==
  ASSUME TypeOK, NEW c \in Callers, claim[c] # NoClaim
  PROVE  /\ claim[c].position \in Positions /\ claim[c].quality \in Quality
         /\ claim[c].token \in Tokens
BY DEF TypeOK, Claims

\* Quiet steps only take rows and tickets away.
LEMMA QuietInv ==
  ASSUME QueueInv, TypeOK', Keeps
  PROVE  QueueInv'
<1>1. TokensIdentifyRows'
  BY DEF QueueInv, TokensIdentifyRows, Keeps
<1>2. TicketsDiffer'
  BY DEF QueueInv, TicketsDiffer, Keeps
<1>3. ClaimNeverOutranksRow'
  <2> SUFFICES ASSUME NEW c \in Callers, Owns(claim[c])'
      PROVE  Rank(claim'[c].quality) <= Rank(queue'[claim'[c].position].quality)
    BY DEF ClaimNeverOutranksRow
  <2>1. claim'[c] = claim[c] /\ claim[c] # NoClaim
    BY DEF Owns, Keeps
  <2> DEFINE p == claim[c].position
  <2>2. p \in Positions /\ claim[c].quality \in Quality
    BY <2>1, TicketOfClaim DEF QueueInv
  <2>3. queue'[p].state = "running" /\ queue'[p].token = claim[c].token
    BY <2>1 DEF Owns
  <2>4. /\ queue[p].state = "running" /\ queue[p].token = claim[c].token
        /\ Rank(queue'[p].quality) >= Rank(queue[p].quality)
    BY <2>2, <2>3 DEF Keeps
  <2>5. Rank(claim[c].quality) <= Rank(queue[p].quality)
    BY <2>1, <2>4 DEF Owns, QueueInv, ClaimNeverOutranksRow
  <2>6. /\ Rank(claim[c].quality) \in Nat /\ Rank(queue[p].quality) \in Nat
        /\ Rank(queue'[p].quality) \in Nat
    BY DEF Rank
  <2> QED
    BY <2>1, <2>4, <2>5, <2>6
<1> QED
  BY <1>1, <1>2, <1>3 DEF QueueInv

\* A claim brings a token that no row and no ticket carries.
LEMMA ClaimInv ==
  ASSUME QueueInv, NEW c \in Callers, Claim(c)
  PROVE  QueueInv'
<1>1. TypeOK /\ TypeOK'
  BY ClaimEffect DEF QueueInv
<1>2. PICK p \in Positions, t \in Tokens :
        /\ FreshToken(t)
        /\ queue'[p].state = "running" /\ queue'[p].token = t
        /\ queue'[p].quality = queue[p].quality
        /\ \A o \in Positions \ {p} : queue'[o] = queue[o]
        /\ claim'[c] = [position |-> p, quality |-> queue[p].quality, token |-> t]
        /\ \A d \in Callers \ {c} : claim'[d] = claim[d]
  BY <1>1, ClaimEffect
<1>3. /\ \A o \in Positions : queue[o].state = "running" => queue[o].token # t
      /\ \A d \in Callers : claim[d].token # t
  BY <1>2 DEF FreshToken
<1>4. TokensIdentifyRows'
  BY <1>2, <1>3 DEF QueueInv, TokensIdentifyRows
<1>5. claim'[c].token = t
  BY <1>2
<1>6. TicketsDiffer'
  BY <1>2, <1>3, <1>5 DEF QueueInv, TicketsDiffer
<1>7. ClaimNeverOutranksRow'
  <2> SUFFICES ASSUME NEW d \in Callers, Owns(claim[d])'
      PROVE  Rank(claim'[d].quality) <= Rank(queue'[claim'[d].position].quality)
    BY DEF ClaimNeverOutranksRow
  <2>1. CASE d = c
    BY <1>2, <2>1 DEF Rank
  <2>2. CASE d # c
    <3>1. claim'[d] = claim[d] /\ claim[d] # NoClaim
      BY <1>2, <2>2 DEF Owns
    <3>2. claim[d].position \in Positions
      BY <1>1, <3>1, TicketOfClaim
    <3>3. claim[d].position # p
      BY <1>2, <1>3, <3>1 DEF Owns
    <3>4. queue'[claim[d].position] = queue[claim[d].position]
      BY <1>2, <3>2, <3>3
    <3> QED
      BY <3>1, <3>4 DEF Owns, QueueInv, ClaimNeverOutranksRow
  <2> QED
    BY <2>1, <2>2
<1> QED
  BY <1>1, <1>4, <1>6, <1>7 DEF QueueInv

LEMMA StepInv == QueueInv /\ [ApiNext]_vars => QueueInv'
<1> SUFFICES ASSUME QueueInv, [ApiNext]_vars PROVE QueueInv'
  OBVIOUS
<1>1. CASE QuietStep
  BY <1>1, QuietSteps, QuietInv DEF QueueInv
<1>2. CASE \E c \in Callers : Claim(c)
  BY <1>2, ClaimInv
<1> QED
  BY <1>1, <1>2, StepIsClaimOrQuiet

THEOREM QueueInvariant == ApiSpec => []QueueInv
BY InitInv, StepInv, PTL DEF ApiSpec

LEMMA OneOwner == QueueInv => OneOwnerPerRow
BY DEF QueueInv, TicketsDiffer, OneOwnerPerRow, Owns

\* No two running rows share a claim token, so a ticket's compare-and-set can
\* only ever hit the row it was issued for.
THEOREM RowsHaveTheirOwnTokens == ApiSpec => []TokensIdentifyRows
BY QueueInvariant, PTL DEF QueueInv

\* However claims expire, are taken over or released, a row is owned through
\* one ticket at most.
THEOREM RowsHaveOneOwner == ApiSpec => []OneOwnerPerRow
BY QueueInvariant, OneOwner, PTL

\* complete never meets a row that asks for less than its ticket was claimed
\* for.
THEOREM ClaimsNeverOutrank == ApiSpec => []ClaimNeverOutranksRow
BY QueueInvariant, PTL DEF QueueInv

-----------------------------------------------------------------------------
(* What a step may never do. *)

TakeoverStep ==
  \A p \in Positions :
    /\ queue[p].state = "running" /\ queue'[p].state = "running"
    /\ queue'[p].token # queue[p].token
    => queue[p].claimedAge >= StaleAfter

LEMMA StepTakesOverStale == TypeOK /\ [ApiNext]_vars => TakeoverStep
<1> SUFFICES ASSUME TypeOK, [ApiNext]_vars PROVE TakeoverStep
  OBVIOUS
<1>1. CASE QuietStep
  BY <1>1, QuietSteps DEF Keeps, TakeoverStep
<1>2. ASSUME NEW c \in Callers, Claim(c) PROVE TakeoverStep
  <2>1. PICK p \in Positions :
          /\ queue[p].state = "queued" \/ Stale(queue[p])
          /\ \A o \in Positions \ {p} : queue'[o] = queue[o]
    BY <1>2, ClaimEffect
  <2> QED
    BY <2>1 DEF TakeoverStep, Stale
<1> QED
  BY <1>1, <1>2, StepIsClaimOrQuiet

\* Work under way is taken over only after the stale interval.
THEOREM TakeoversAreStale == ApiSpec => TakeoverOnlyWhenStale
<1>1. TypeOK /\ [ApiNext]_vars => [TakeoverStep]_vars
  BY StepTakesOverStale
<1> QED
  BY <1>1, TypesAreCorrect, PTL DEF ApiSpec, TakeoverOnlyWhenStale, TakeoverStep

LEMMA StepEndsByOwner == TypeOK /\ [ApiNext]_vars => OwnerEnds
<1> SUFFICES ASSUME TypeOK, [ApiNext]_vars PROVE OwnerEnds
  OBVIOUS
<1>1. CASE QuietStep
  BY <1>1, QuietSteps
<1>2. ASSUME NEW c \in Callers, Claim(c) PROVE OwnerEnds
  <2>1. PICK p \in Positions :
          /\ queue'[p].state = "running"
          /\ \A o \in Positions \ {p} : queue'[o] = queue[o]
    BY <1>2, ClaimEffect
  <2> QED
    BY <2>1 DEF OwnerEnds
<1> QED
  BY <1>1, <1>2, StepIsClaimOrQuiet

\* A running row leaves that state only through the ticket that owns it.
THEOREM OwnersEndRunning == ApiSpec => OnlyOwnerEndsRunning
<1>1. TypeOK /\ [ApiNext]_vars => [OwnerEnds]_vars
  BY StepEndsByOwner
<1> QED
  BY <1>1, TypesAreCorrect, PTL DEF ApiSpec, OnlyOwnerEndsRunning, OwnerEnds

\* A publication never loses an answer a stored result already gave.
LEMMA PublishedKeepsAnswers ==
  ASSUME NEW old \in Result \cup {NoResult}, NEW q \in Quality,
         NEW r \in Quality, Satisfies(old, r)
  PROVE  Satisfies(Published(Fresh(q), old), r)
BY DEF Satisfies, Published, NotSaved, Fresh, Rank, Quality, Result, NoResult

\* Work that was done satisfies the request it was done for.
LEMMA PublishedAnswersClaim ==
  ASSUME NEW old \in Result \cup {NoResult}, NEW q \in Quality
  PROVE  Satisfies(Published(Fresh(q), old), q)
BY DEF Satisfies, Published, NotSaved, Fresh, Rank, Quality, Result, NoResult,
       Version

AnswersKept ==
  \A p \in Positions, q \in Quality :
    Satisfies(results[p], q) => Satisfies(results'[p], q)

LEMMA PublicationKeeps ==
  ASSUME TypeOK, NEW p \in Positions, NEW q \in Quality,
         results' = [results EXCEPT ![p] = Published(Fresh(q), @)]
  PROVE  AnswersKept
<1>1. results'[p] = Published(Fresh(q), results[p])
  BY DEF TypeOK
<1>2. \A o \in Positions \ {p} : results'[o] = results[o]
  BY DEF TypeOK
<1> SUFFICES ASSUME NEW o \in Positions, NEW r \in Quality,
                    Satisfies(results[o], r)
    PROVE  Satisfies(results'[o], r)
  BY DEF AnswersKept
<1>3. results[p] \in Result \cup {NoResult}
  BY DEF TypeOK
<1>4. CASE o = p
  BY <1>1, <1>3, <1>4, PublishedKeepsAnswers
<1>5. CASE o # p
  BY <1>2, <1>5
<1> QED
  BY <1>4, <1>5

LEMMA StepKeepsAnswers == TypeOK /\ [ApiNext]_vars => AnswersKept
<1> SUFFICES ASSUME TypeOK, [ApiNext]_vars PROVE AnswersKept
  OBVIOUS
<1>1. CASE UNCHANGED results
  BY <1>1 DEF AnswersKept
<1>2. ASSUME NEW p \in Positions, NEW q \in Quality, Publish(p, q)
      PROVE  AnswersKept
  BY <1>2, PublicationKeeps DEF Publish
<1>3. ASSUME NEW c \in Callers, CompleteTicket(claim[c])
      PROVE  AnswersKept
  <2>1. CASE Owns(claim[c])
    <3>1. claim[c].position \in Positions /\ claim[c].quality \in Quality
      BY <2>1, TicketOfClaim DEF Owns
    <3> QED
      BY <1>1, <1>3, <3>1, PublicationKeeps DEF CompleteTicket
  <2>2. CASE ~Owns(claim[c])
    BY <1>1, <1>3, <2>2 DEF CompleteTicket
  <2> QED
    BY <2>1, <2>2
<1>4. \/ UNCHANGED results
      \/ \E p \in Positions, q \in Quality : Publish(p, q)
      \/ \E c \in Callers : CompleteTicket(claim[c])
  BY DEF ApiNext, Next, Request, Enqueue, Claim, ClaimRow, Release, Delete, Fail,
         Complete, ReleaseTicket, DeleteTicket, FailTicket, Drop, Tick, vars
<1> QED
  BY <1>1, <1>2, <1>3, <1>4

\* Whoever publishes, in whatever order: a request that a stored result
\* satisfies stays satisfied.
THEOREM ResultsDoNotWorsen == ApiSpec => ResultsNeverWorsen
<1>1. TypeOK /\ [ApiNext]_vars => [AnswersKept]_vars
  BY StepKeepsAnswers
<1> QED
  BY <1>1, TypesAreCorrect, PTL DEF ApiSpec, ResultsNeverWorsen, AnswersKept

\* No step takes a result away.
LEMMA StepKeepsResults ==
  TypeOK /\ [ApiNext]_vars =>
    \A p \in Positions : results[p] # NoResult => results'[p] # NoResult
<1> SUFFICES ASSUME TypeOK, [ApiNext]_vars, NEW p \in Positions, results[p] # NoResult
    PROVE  results'[p] # NoResult
  OBVIOUS
<1>1. ASSUME NEW o \in Positions, NEW q \in Quality,
             results' = [results EXCEPT ![o] = Published(Fresh(q), @)]
      PROVE  results'[p] # NoResult
  BY <1>1 DEF TypeOK, Published, NotSaved, Fresh, NoResult, Quality
<1>2. ASSUME NEW c \in Callers, CompleteTicket(claim[c]) PROVE results'[p] # NoResult
  <2>1. CASE Owns(claim[c])
    <3>1. claim[c].position \in Positions /\ claim[c].quality \in Quality
      BY <2>1, TicketOfClaim DEF Owns
    <3> QED
      BY <1>1, <1>2, <2>1, <3>1 DEF CompleteTicket
  <2>2. CASE ~Owns(claim[c])
    BY <1>2, <2>2 DEF CompleteTicket
  <2> QED
    BY <2>1, <2>2
<1>3. \/ UNCHANGED results
      \/ \E o \in Positions, q \in Quality : Publish(o, q)
      \/ \E c \in Callers : CompleteTicket(claim[c])
  BY DEF ApiNext, Next, Request, Enqueue, Claim, ClaimRow, Release, Delete, Fail,
         Complete, ReleaseTicket, DeleteTicket, FailTicket, Drop, Tick, vars
<1> QED
  BY <1>1, <1>2, <1>3 DEF Publish

CompletionStep ==
  \A c \in Callers :
    Owns(claim[c]) /\ Complete(c)
      => Satisfies(results'[claim[c].position], claim[c].quality)

\* The invariant is what rules the downgrade error out here.
LEMMA CompletesSatisfy == QueueInv => CompletionStep
<1> SUFFICES ASSUME QueueInv, NEW c \in Callers, Owns(claim[c]), Complete(c)
    PROVE  Satisfies(results'[claim[c].position], claim[c].quality)
  BY DEF CompletionStep
<1> DEFINE p == claim[c].position
           q == claim[c].quality
<1>1. p \in Positions /\ q \in Quality
  BY TicketOfClaim DEF QueueInv, Owns
<1>2. Rank(queue[p].quality) >= Rank(q)
  BY DEF QueueInv, ClaimNeverOutranksRow, Rank
<1>3. results[p] \in Result \cup {NoResult}
  BY <1>1 DEF QueueInv, TypeOK
<1>4. results'[p] = Published(Fresh(q), results[p])
  BY <1>1, <1>2 DEF Complete, CompleteTicket, QueueInv, TypeOK
<1> QED
  BY <1>1, <1>3, <1>4, PublishedAnswersClaim

\* The publication rule and the request rule agree.
THEOREM CompletionsSatisfy == ApiSpec => CompletionSatisfies
<1>1. QueueInv => [CompletionStep]_vars
  BY CompletesSatisfy
<1> QED
  BY <1>1, QueueInvariant, PTL DEF CompletionSatisfies, CompletionStep

PromotionStep ==
  \A p \in Positions :
    Live(queue[p]) /\ ~Live(queue'[p])
      => \E c \in Callers : /\ Owns(claim[c]) /\ claim[c].position = p
                           /\ claim[c].quality = queue[p].quality

LEMMA SettledIsDone ==
  ASSUME QueueInv, NEW c \in Callers, Owns(claim[c]),
         queue' = [queue EXCEPT ![claim[c].position] =
                     Settled(@, claim[c].quality)]
  PROVE  PromotionStep
<1> DEFINE o == claim[c].position
<1>1. /\ o \in Positions /\ claim[c].quality \in Quality
      /\ GoodRow(queue[o]) /\ Live(queue[o])
  BY OwnedRow DEF QueueInv, TypeOK
<1>2. queue[o] \in Row
  BY <1>1, LiveRow
<1>3. \A p \in Positions :
        queue'[p] = IF p = o THEN Settled(queue[o], claim[c].quality) ELSE queue[p]
  BY <1>1 DEF QueueInv, TypeOK
<1>4. ASSUME ~Live(queue'[o]) PROVE claim[c].quality = queue[o].quality
  <2>1. ~(Rank(queue[o].quality) > Rank(claim[c].quality))
    BY <1>1, <1>3, <1>4, RequeuedIsGood DEF Settled
  <2>2. Rank(claim[c].quality) <= Rank(queue[o].quality)
    BY DEF QueueInv, ClaimNeverOutranksRow
  <2>3. queue[o].quality \in Quality
    BY <1>2 DEF Row
  <2> QED
    BY <1>1, <2>1, <2>2, <2>3 DEF Rank, Quality
<1> QED
  BY <1>3, <1>4 DEF PromotionStep

LEMMA StepKeepsPromotion == QueueInv /\ [Next]_vars => PromotionStep
<1> SUFFICES ASSUME QueueInv, [Next]_vars PROVE PromotionStep
  OBVIOUS
<1>0. TypeOK
  BY DEF QueueInv
<1>1. ASSUME queue' = queue PROVE PromotionStep
  BY <1>1 DEF PromotionStep
<1>2. ASSUME NEW p \in Positions, NEW row, Live(row),
             queue' = [queue EXCEPT ![p] = row]
      PROVE  PromotionStep
  BY <1>0, <1>2 DEF PromotionStep, TypeOK
<1>3. ASSUME NEW p \in Positions, NEW q \in Quality, Request(p, q) \/ Enqueue(p, q)
      PROVE  PromotionStep
  <2>1. Live(Enqueued(queue[p], q))
    BY <1>0, TypeOKRows, EnqueuedIsGood DEF GoodRows
  <2> QED
    BY <1>1, <1>2, <1>3, <2>1 DEF Request, Enqueue
<1>4. ASSUME NEW p \in Positions, NEW q \in Quality, Publish(p, q)
      PROVE  PromotionStep
  BY <1>1, <1>4 DEF Publish
<1>5. ASSUME NEW c \in Callers, Claim(c) PROVE PromotionStep
  <2>1. PICK p \in Positions :
          /\ queue'[p].state = "running"
          /\ \A o \in Positions \ {p} : queue'[o] = queue[o]
    BY <1>0, <1>5, ClaimEffect
  <2> QED
    BY <2>1 DEF PromotionStep, Live
<1>6. ASSUME NEW c \in Callers, Release(c) PROVE PromotionStep
  <2>1. CASE Owns(claim[c])
    <3>1. /\ claim[c].position \in Positions
          /\ Live(Requeued(queue[claim[c].position]))
      BY <1>0, <2>1, OwnedRow, RequeuedIsGood DEF TypeOK
    <3> QED
      BY <1>2, <1>6, <2>1, <3>1 DEF Release, ReleaseTicket
  <2>2. CASE ~Owns(claim[c])
    BY <1>1, <1>6, <2>2 DEF Release, ReleaseTicket
  <2> QED
    BY <2>1, <2>2
<1>7. ASSUME NEW c \in Callers, Fail(c) \/ Complete(c) PROVE PromotionStep
  BY <1>1, <1>7, SettledIsDone DEF Fail, FailTicket, Complete, CompleteTicket
<1>8. ASSUME NEW c \in Callers, Drop(c) PROVE PromotionStep
  BY <1>1, <1>8 DEF Drop
<1>9. CASE Tick
  <2>1. \A p \in Positions : Live(queue[p]) => Live(queue'[p])
    BY <1>0, <1>9, TypeOKRows, AgedIsGood DEF GoodRows, Tick, Live
  <2> QED
    BY <2>1 DEF PromotionStep
<1>10. CASE UNCHANGED vars
  BY <1>1, <1>10 DEF vars
<1> QED
  BY <1>3, <1>4, <1>5, <1>6, <1>7, <1>8, <1>9, <1>10 DEF Next

\* The program's own steps are steps of the class.
LEMMA SpecIsApiSpec == Spec => ApiSpec
<1>1. [Next]_vars => [ApiNext]_vars
  BY DEF ApiNext
<1> QED
  BY <1>1, PTL DEF Spec, ApiSpec

\* A row goes away only when the work it asks for, at the quality it asks for
\* by then, was done or was tried and failed: promotions are never lost.
THEOREM PromotionsSurvive == Spec => PromotionSurvives
<1>1. QueueInv /\ [Next]_vars => [PromotionStep]_vars
  BY StepKeepsPromotion
<1> QED
  BY <1>1, SpecIsApiSpec, QueueInvariant, PTL
     DEF Spec, PromotionSurvives, PromotionStep

-----------------------------------------------------------------------------
(* The two invariants and the promises to the caller, each as a whole. *)

\* Rows and tickets fit each other for any positions, callers and tokens.
THEOREM RowsStayOwned == ApiSpec => []RowsAreOwned
BY TypesAreCorrect, RowsHaveTheirOwnTokens, RowsHaveOneOwner, ClaimsNeverOutrank, PTL
   DEF RowsAreOwned

\* Superseded tickets change nothing.
THEOREM TicketsStayGuarded == ApiSpec => TicketsAreGuarded
BY TakeoversAreStale, OwnersEndRunning DEF TicketsAreGuarded

\* Promotions outlive the work they find, completions satisfy, results improve.
THEOREM RequestsStayKept == Spec => RequestsAreKept
BY PromotionsSurvive, CompletionsSatisfy, ResultsDoNotWorsen, SpecIsApiSpec, PTL DEF RequestsAreKept

-----------------------------------------------------------------------------
(* The queue implements AnalysisService.  The work under way on a position *)
(* is what the ticket that owns its row was claimed for; OneOwnerPerRow is *)
(* what makes the CHOOSE in the mapping mean that ticket.                  *)

WorkIsOwned ==
  /\ \A p \in Positions : Owners(p) = {} => active[p] = "none"
  /\ \A c \in Callers :
       Owns(claim[c]) => active[claim[c].position] = claim[c].quality

LEMMA WorkOfOwner == QueueInv => WorkIsOwned
<1> SUFFICES ASSUME QueueInv PROVE WorkIsOwned
  OBVIOUS
<1>1. ASSUME NEW p \in Positions, Owners(p) = {} PROVE active[p] = "none"
  BY <1>1 DEF active
<1>2. ASSUME NEW c \in Callers, Owns(claim[c])
      PROVE  active[claim[c].position] = claim[c].quality
  <2> DEFINE p == claim[c].position
  <2>1. p \in Positions
    BY <1>2, TicketOfClaim DEF QueueInv, Owns
  <2>2. Owners(p) = {c}
    BY <1>2, OneOwner DEF OneOwnerPerRow, Owners
  <2>3. (CHOOSE d \in Owners(p) : TRUE) = c
    BY <2>2
  <2> QED
    BY <2>1, <2>2, <2>3 DEF active
<1> QED
  BY <1>1, <1>2 DEF WorkIsOwned

LEMMA WorkOfNextOwner == QueueInv' => WorkIsOwned'
BY WorkOfOwner, PTL

\* A position whose owners a step leaves alone is worked on as before.
LEMMA SameOwnersSameWork ==
  ASSUME NEW o \in Positions, Owners(o)' = Owners(o),
         \A c \in Owners(o) : claim'[c] = claim[c]
  PROVE  active'[o] = active[o]
<1>1. CASE Owners(o) = {}
  BY <1>1 DEF active
<1>2. CASE Owners(o) # {}
  <2> DEFINE c == CHOOSE d \in Owners(o) : TRUE
  <2>1. c \in Owners(o)
    BY <1>2
  <2> QED
    BY <1>2, <2>1 DEF active
<1> QED
  BY <1>1, <1>2

LEMMA WorkIsAFunction ==
  /\ active = [p \in Positions |-> active[p]]
  /\ active' = [p \in Positions |-> active'[p]]
BY DEF active

LEMMA WorkEverywhere ==
  ASSUME \A o \in Positions : active'[o] = active[o]
  PROVE  active' = active
BY WorkIsAFunction

LEMMA WorkAt ==
  ASSUME NEW p \in Positions, NEW q, active'[p] = q,
         \A o \in Positions \ {p} : active'[o] = active[o]
  PROVE  active' = [active EXCEPT ![p] = q]
BY WorkIsAFunction

\* Rows keep their state and token, tickets their holders: the work is as it was.
LEMMA QuietWork ==
  ASSUME \A p \in Positions :
           /\ (queue'[p].state = "running") <=> (queue[p].state = "running")
           /\ queue[p].state = "running" => queue'[p].token = queue[p].token,
         TypeOK, claim' = claim
  PROVE  active' = active
<1>1. \A c \in Callers : Owns(claim[c])' <=> Owns(claim[c])
  BY TicketOfClaim DEF Owns
<1>2. \A o \in Positions : Owners(o)' = Owners(o)
  BY <1>1 DEF Owners
<1> QED
  BY <1>2, SameOwnersSameWork, WorkEverywhere

\* A ticket whose row it does not own may be used or dropped without effect.
LEMMA IdleTicketWork ==
  ASSUME NEW c \in Callers, ~Owns(claim[c]), MayDrop(c), queue' = queue, TypeOK
  PROVE  active' = active
<1>1. \A d \in Callers \ {c} : claim'[d] = claim[d]
  BY DEF MayDrop, TypeOK
<1>2. claim'[c] \in {claim[c], NoClaim}
  BY DEF MayDrop, TypeOK
<1>3. ~Owns(claim[c])'
  BY <1>2 DEF Owns
<1>4. \A o \in Positions : Owners(o)' = Owners(o) /\ \A d \in Owners(o) : claim'[d] = claim[d]
  BY <1>1, <1>3 DEF Owners, Owns
<1> QED
  BY <1>4, SameOwnersSameWork, WorkEverywhere

\* The owner of a row ends its work: by taking the row out of the running
\* state, or by letting go of the ticket.
LEMMA WorkEnds ==
  ASSUME QueueInv, QueueInv', NEW c \in Callers, Owns(claim[c]), MayDrop(c),
         NEW p \in Positions, claim[c].position = p,
         \A o \in Positions \ {p} : queue'[o] = queue[o],
         queue'[p].state # "running" \/ (queue' = queue /\ claim'[c] = NoClaim)
  PROVE  /\ active[p] = claim[c].quality
         /\ active[p] # "none"
         /\ active' = [active EXCEPT ![p] = "none"]
<1>1. claim[c].quality \in Quality
  BY TicketOfClaim DEF QueueInv, Owns
<1>2. active[p] = claim[c].quality
  BY WorkOfOwner DEF WorkIsOwned
<1>3. /\ \A d \in Callers \ {c} : claim'[d] = claim[d]
      /\ claim'[c] \in {claim[c], NoClaim}
  BY DEF MayDrop, QueueInv, TypeOK
<1>4. \A d \in Callers \ {c} : ~(Owns(claim[d]) /\ claim[d].position = p)
  BY OneOwner DEF OneOwnerPerRow
<1>5. Owners(p)' = {}
  <2>1. CASE queue'[p].state # "running"
    BY <2>1 DEF Owners, Owns
  <2>2. CASE queue' = queue /\ claim'[c] = NoClaim
    BY <1>3, <1>4, <2>2 DEF Owners, Owns
  <2> QED
    BY <2>1, <2>2
<1>6. active'[p] = "none"
  BY <1>5, WorkOfNextOwner DEF WorkIsOwned
<1>7. ASSUME NEW o \in Positions \ {p} PROVE active'[o] = active[o]
  <2>1. Owners(o)' = Owners(o) /\ \A d \in Owners(o) : claim'[d] = claim[d]
    BY <1>3 DEF Owners, Owns
  <2> QED
    BY <2>1, SameOwnersSameWork
<1> QED
  BY <1>1, <1>2, <1>6, <1>7, WorkAt DEF Quality

\* What is wanted, after a step that writes one row, or none that matters.
LEMMA WantedAt ==
  ASSUME TypeOK, NEW p \in Positions, NEW row, queue' = [queue EXCEPT ![p] = row]
  PROVE  wanted' = [wanted EXCEPT ![p] = row.quality]
BY DEF wanted, TypeOK

LEMMA LiveIsWanted ==
  ASSUME TypeOK, NEW p \in Positions
  PROVE  /\ Live(queue[p]) => wanted[p] = queue[p].quality /\ wanted[p] \in Quality
         /\ ~Live(queue[p]) => wanted[p] = "none"
<1>1. GoodRow(queue[p])
  BY TypeOKRows DEF GoodRows
<1> QED
  BY <1>1, LiveRow DEF wanted, GoodRow, Row, Live, NoRow

ServiceStep == [Service!Next]_(Service!vars)

LEMMA Unnoticed ==
  ASSUME wanted' = wanted, active' = active, results' = results
  PROVE  ServiceStep
BY DEF ServiceStep, Service!vars

LEMMA EnqueuedAsks ==
  ASSUME QueueInv, NEW p \in Positions, NEW q \in Quality,
         queue' = [queue EXCEPT ![p] = Enqueued(@, q)],
         UNCHANGED <<results, claim>>
  PROVE  ServiceStep
<1>1. TypeOK /\ GoodRow(queue[p])
  BY TypeOKRows DEF GoodRows, QueueInv
<1>2. Enqueued(queue[p], q).quality = Service!Raised(wanted[p], q)
  <2>1. CASE Live(queue[p])
    <3>1. queue[p] \in Row
      BY <1>1, <2>1, LiveRow
    <3> QED
      BY <1>1, <2>1, <3>1, LiveIsWanted
         DEF Enqueued, Higher, Service!Raised, Service!Rank, Rank, Row, Quality
  <2>2. CASE ~Live(queue[p])
    BY <1>1, <2>2, LiveIsWanted DEF Enqueued, NewRow, Service!Raised
  <2> QED
    BY <2>1, <2>2
<1>3. wanted' = [wanted EXCEPT ![p] = Service!Raised(@, q)]
  BY <1>1, <1>2, WantedAt DEF wanted
<1>4. \A o \in Positions :
        /\ (queue'[o].state = "running") <=> (queue[o].state = "running")
        /\ queue[o].state = "running" => queue'[o].token = queue[o].token
  BY <1>1, EnqueuedKeeps DEF TypeOK
<1>5. active' = active
  BY <1>1, <1>4, QuietWork
<1>6. Service!Ask(p, q)
  BY <1>3, <1>5 DEF Service!Ask
<1> QED
  BY <1>6 DEF ServiceStep, Service!Next, Service!Quality, Quality

LEMMA PublishedIsBetter ==
  ASSUME NEW old \in Result \cup {NoResult}, NEW q \in Quality
  PROVE  /\ Published(Fresh(q), old) \in Service!Result
         /\ Service!AtLeast(Published(Fresh(q), old), old)
         /\ Service!Satisfies(Published(Fresh(q), old), q)
<1>1. Published(Fresh(q), old) \in Result
  BY DEF Published, NotSaved, Fresh, Result, Version, NoResult, Quality
<1>2. Satisfies(Published(Fresh(q), old), q)
  BY PublishedAnswersClaim
<1>3. \A r \in Quality : Satisfies(old, r) => Satisfies(Published(Fresh(q), old), r)
  BY PublishedKeepsAnswers
<1> QED
  BY <1>1, <1>2, <1>3
     DEF Service!Result, Service!AtLeast, Service!Satisfies, Service!Quality,
         Service!Version, Service!NoResult, Service!Rank, Service!Fresh,
         Result, Satisfies, Quality, Version, NoResult, Rank, Fresh

LEMMA PublishSupplies ==
  ASSUME QueueInv, NEW p \in Positions, NEW q \in Quality, Publish(p, q)
  PROVE  ServiceStep
<1>1. results[p] \in Result \cup {NoResult}
  BY DEF QueueInv, TypeOK
<1>2. wanted' = wanted
  BY DEF Publish, wanted
<1>3. active' = active
  BY QuietWork DEF Publish, QueueInv
<1>4. results' = [results EXCEPT ![p] = Published(Fresh(q), results[p])]
  BY DEF Publish
<1>5. Service!Supply(p)
  BY <1>1, <1>2, <1>3, <1>4, PublishedIsBetter DEF Service!Supply
<1> QED
  BY <1>5 DEF ServiceStep, Service!Next

LEMMA ClaimBegins ==
  ASSUME QueueInv, QueueInv', NEW c \in Callers, Claim(c)
  PROVE  ServiceStep
<1>1. PICK p \in Positions, t \in Tokens :
        /\ queue[p].state = "queued" \/ Stale(queue[p])
        /\ FreshToken(t)
        /\ queue'[p].state = "running" /\ queue'[p].token = t
        /\ queue'[p].quality = queue[p].quality
        /\ \A o \in Positions \ {p} : queue'[o] = queue[o]
        /\ claim[c] = NoClaim
        /\ claim'[c] = [position |-> p, quality |-> queue[p].quality, token |-> t]
        /\ \A d \in Callers \ {c} : claim'[d] = claim[d]
  BY ClaimEffect DEF QueueInv
<1>2. wanted[p] = queue[p].quality /\ wanted[p] # "none"
  BY <1>1, LiveIsWanted DEF QueueInv, Stale, Live, Quality
<1>3. wanted' = wanted
  BY <1>1 DEF wanted
<1>4. c \in Owners(p)'
  BY <1>1 DEF Owners, Owns, NoClaim
<1>5. active'[p] = wanted[p]
  <2>1. Owns(claim[c])'
    BY <1>4 DEF Owners
  <2> QED
    BY <1>1, <1>2, <2>1, WorkOfNextOwner DEF WorkIsOwned
<1>6. ASSUME NEW o \in Positions \ {p} PROVE active'[o] = active[o]
  <2>1. Owners(o)' = Owners(o) /\ \A d \in Owners(o) : claim'[d] = claim[d]
    BY <1>1 DEF Owners, Owns
  <2> QED
    BY <2>1, SameOwnersSameWork
<1>7. active' = [active EXCEPT ![p] = wanted[p]]
  BY <1>5, <1>6, WorkAt
<1>8. results' = results
  BY DEF Claim, ClaimRow
<1>9. Service!Begin(p)
  BY <1>2, <1>3, <1>7, <1>8 DEF Service!Begin
<1> QED
  BY <1>9 DEF ServiceStep, Service!Next

\* A ticket that does not own its row is an invisible one.
LEMMA LateTicketUnnoticed ==
  ASSUME QueueInv, NEW c \in Callers, ~Owns(claim[c]), MayDrop(c),
         queue' = queue, results' = results
  PROVE  ServiceStep
BY IdleTicketWork, Unnoticed DEF QueueInv, wanted

LEMMA ReleaseAbandons ==
  ASSUME QueueInv, QueueInv', NEW c \in Callers, Release(c)
  PROVE  ServiceStep
<1>1. CASE Owns(claim[c])
  <2>1. PICK p \in Positions : p = claim[c].position
    BY <1>1, TicketOfClaim DEF QueueInv, Owns
  <2>2. /\ queue' = [queue EXCEPT ![p] = Requeued(queue[p])]
        /\ results' = results /\ MayDrop(c)
    BY <1>1, <2>1 DEF Release, ReleaseTicket
  <2>3. queue[p] \in Row
    BY <1>1, <2>1, OwnedRow, LiveRow DEF QueueInv, TypeOK
  <2>4. Requeued(queue[p]).state # "running" /\ Requeued(queue[p]).quality = queue[p].quality
    BY <2>3 DEF Requeued, Row
  <2>5. queue'[p].state # "running" /\ \A o \in Positions \ {p} : queue'[o] = queue[o]
    BY <2>2, <2>4 DEF QueueInv, TypeOK
  <2>6. active[p] # "none" /\ active' = [active EXCEPT ![p] = "none"]
    BY <1>1, <2>1, <2>2, <2>5, WorkEnds
  <2>7. wanted' = wanted
    BY <2>2, <2>4 DEF wanted, QueueInv, TypeOK
  <2>8. Service!Abandon(p)
    BY <2>2, <2>6, <2>7 DEF Service!Abandon
  <2> QED
    BY <2>8 DEF ServiceStep, Service!Next
<1>2. CASE ~Owns(claim[c])
  BY <1>2, LateTicketUnnoticed DEF Release, ReleaseTicket
<1> QED
  BY <1>1, <1>2

\* Work that is over, one way or the other, leaves what remains wanted.
LEMMA SettledRemains ==
  ASSUME QueueInv, QueueInv', NEW c \in Callers, Owns(claim[c]), MayDrop(c),
         NEW p \in Positions, p = claim[c].position,
         queue' = [queue EXCEPT ![p] = Settled(@, claim[c].quality)]
  PROVE  /\ active[p] = claim[c].quality /\ active[p] # "none"
         /\ active' = [active EXCEPT ![p] = "none"]
         /\ wanted' = [wanted EXCEPT ![p] = Service!Remaining(p)]
<1> DEFINE row == Settled(queue[p], claim[c].quality)
<1>1. TypeOK /\ queue[p] \in Row /\ Live(queue[p])
  BY OwnedRow, LiveRow DEF QueueInv, TypeOK
<1>2. /\ row.state # "running"
      /\ row.quality = IF Rank(queue[p].quality) > Rank(claim[c].quality)
                         THEN queue[p].quality ELSE "none"
  BY <1>1 DEF Settled, Requeued, Row, NoRow
<1>3. queue'[p] = row /\ \A o \in Positions \ {p} : queue'[o] = queue[o]
  BY <1>1 DEF TypeOK
<1>4. /\ active[p] = claim[c].quality /\ active[p] # "none"
      /\ active' = [active EXCEPT ![p] = "none"]
  BY <1>2, <1>3, WorkEnds
<1>5. wanted' = [wanted EXCEPT ![p] = row.quality]
  BY <1>1, WantedAt
<1>6. row.quality = Service!Remaining(p)
  BY <1>1, <1>2, <1>4, LiveIsWanted DEF Service!Remaining, Service!Rank, Rank
<1> QED
  BY <1>4, <1>5, <1>6

LEMMA FailGivesUp ==
  ASSUME QueueInv, QueueInv', NEW c \in Callers, Fail(c)
  PROVE  ServiceStep
<1>1. CASE Owns(claim[c])
  <2>1. PICK p \in Positions : p = claim[c].position
    BY <1>1, TicketOfClaim DEF QueueInv, Owns
  <2>2. /\ queue' = [queue EXCEPT ![p] = Settled(@, claim[c].quality)]
        /\ results' = results /\ MayDrop(c)
    BY <1>1, <2>1 DEF Fail, FailTicket
  <2>3. Service!GiveUp(p)
    BY <1>1, <2>1, <2>2, SettledRemains DEF Service!GiveUp
  <2> QED
    BY <2>3 DEF ServiceStep, Service!Next
<1>2. CASE ~Owns(claim[c])
  BY <1>2, LateTicketUnnoticed DEF Fail, FailTicket
<1> QED
  BY <1>1, <1>2

LEMMA CompleteFinishes ==
  ASSUME QueueInv, QueueInv', NEW c \in Callers, Complete(c)
  PROVE  ServiceStep
<1>1. CASE Owns(claim[c])
  <2>1. PICK p \in Positions : p = claim[c].position
    BY <1>1, TicketOfClaim DEF QueueInv, Owns
  <2>2. claim[c].quality \in Quality /\ results[p] \in Result \cup {NoResult}
    BY <1>1, TicketOfClaim DEF QueueInv, TypeOK, Owns
  <2>3. Rank(queue[p].quality) >= Rank(claim[c].quality)
    BY <1>1, <2>1 DEF QueueInv, ClaimNeverOutranksRow, Rank
  <2>4. /\ queue' = [queue EXCEPT ![p] = Settled(@, claim[c].quality)]
        /\ results' = [results EXCEPT ![p] = Published(Fresh(claim[c].quality), results[p])]
        /\ MayDrop(c)
    BY <1>1, <2>1, <2>3 DEF Complete, CompleteTicket
  <2>5. /\ active[p] = claim[c].quality /\ active[p] # "none"
        /\ active' = [active EXCEPT ![p] = "none"]
        /\ wanted' = [wanted EXCEPT ![p] = Service!Remaining(p)]
    BY <1>1, <2>1, <2>4, SettledRemains
  <2>6. Service!Finish(p)
    BY <2>2, <2>4, <2>5, PublishedIsBetter DEF Service!Finish
  <2> QED
    BY <2>6 DEF ServiceStep, Service!Next
<1>2. CASE ~Owns(claim[c])
  BY <1>2, LateTicketUnnoticed DEF Complete, CompleteTicket
<1> QED
  BY <1>1, <1>2

LEMMA DropAbandons ==
  ASSUME QueueInv, QueueInv', NEW c \in Callers, Drop(c)
  PROVE  ServiceStep
<1>1. MayDrop(c) /\ queue' = queue /\ results' = results /\ claim'[c] = NoClaim
  BY DEF Drop, MayDrop, QueueInv, TypeOK
<1>2. CASE Owns(claim[c])
  <2>1. PICK p \in Positions : p = claim[c].position
    BY <1>2, TicketOfClaim DEF QueueInv, Owns
  <2>2. active[p] # "none" /\ active' = [active EXCEPT ![p] = "none"]
    BY <1>1, <1>2, <2>1, WorkEnds
  <2>3. Service!Abandon(p)
    BY <1>1, <2>2 DEF Service!Abandon, wanted
  <2> QED
    BY <2>3 DEF ServiceStep, Service!Next
<1>3. CASE ~Owns(claim[c])
  BY <1>1, <1>3, LateTicketUnnoticed
<1> QED
  BY <1>2, <1>3

LEMMA TickUnnoticed ==
  ASSUME QueueInv, Tick
  PROVE  ServiceStep
<1>1. TypeOK /\ \A p \in Positions : GoodRow(queue[p])
  BY TypeOKRows DEF GoodRows, QueueInv
<1>2. \A p \in Positions :
        /\ queue'[p].token = queue[p].token
        /\ queue'[p].state = queue[p].state
        /\ queue'[p].quality = queue[p].quality
  BY <1>1, AgedIsGood DEF Tick
<1>3. active' = active
  BY <1>1, <1>2, QuietWork DEF Tick
<1>4. wanted' = wanted
  BY <1>2 DEF wanted
<1> QED
  BY <1>3, <1>4, Unnoticed DEF Tick

LEMMA StepIsServiceStep == QueueInv /\ QueueInv' /\ [Next]_vars => ServiceStep
<1> SUFFICES ASSUME QueueInv, QueueInv', [Next]_vars PROVE ServiceStep
  OBVIOUS
<1>1. ASSUME UNCHANGED vars PROVE ServiceStep
  BY <1>1, QuietWork, Unnoticed DEF vars, QueueInv, wanted
<1>2. ASSUME NEW p \in Positions, NEW q \in Quality, Request(p, q)
      PROVE  ServiceStep
  <2>1. CASE NeedsWork(p, q)
    BY <1>2, <2>1, EnqueuedAsks DEF Request
  <2>2. CASE ~NeedsWork(p, q)
    BY <1>1, <1>2, <2>2 DEF Request, vars
  <2> QED
    BY <2>1, <2>2
<1>3. ASSUME NEW p \in Positions, NEW q \in Quality, Enqueue(p, q)
      PROVE  ServiceStep
  BY <1>3, EnqueuedAsks DEF Enqueue
<1>4. ASSUME NEW p \in Positions, NEW q \in Quality, Publish(p, q)
      PROVE  ServiceStep
  BY <1>4, PublishSupplies
<1>5. ASSUME NEW c \in Callers,
             Claim(c) \/ Release(c) \/ Fail(c) \/ Complete(c) \/ Drop(c)
      PROVE  ServiceStep
  BY <1>5, ClaimBegins, ReleaseAbandons, FailGivesUp, CompleteFinishes, DropAbandons
<1>6. CASE Tick
  BY <1>6, TickUnnoticed
<1> QED
  BY <1>1, <1>2, <1>3, <1>4, <1>5, <1>6 DEF Next

LEMMA InitIsServiceInit == Init => Service!Init
<1> SUFFICES ASSUME Init PROVE Service!Init
  OBVIOUS
<1>1. wanted = [p \in Positions |-> "none"]
  BY DEF Init, wanted, NoRow
<1>2. active = [p \in Positions |-> "none"]
  BY DEF Init, active, Owners, Owns
<1> QED
  BY <1>1, <1>2 DEF Init, Service!Init, Service!Result, Service!NoResult,
     Service!Quality, Service!Version, Result, NoResult, Quality, Version

\* The rows, tokens, ages and tickets of the queue, reclaims and late tickets
\* included, are an implementation of one worker per position at the quality
\* wanted when the work began.
THEOREM QueueImplementsService == Spec => ImplementsService
<1>1. QueueInv /\ QueueInv' /\ [Next]_vars => [Service!Next]_(Service!vars)
  BY StepIsServiceStep DEF ServiceStep
<1> QED
  BY <1>1, InitIsServiceInit, SpecIsApiSpec, QueueInvariant, PTL
     DEF Spec, ImplementsService, Service!Spec

=============================================================================
