---------------------------- MODULE AnalysisQueue ----------------------------
(***************************************************************************)
(* The live analysis queue (table derived_analysis_queue), the stored      *)
(* results it feeds, and the tickets its callers hold.  Every operation of *)
(* QueueService and of the request and publication repositories is one     *)
(* BEGIN IMMEDIATE transaction, hence one action here; what interleaves is *)
(* the order of the operations of several callers, the passing of time and *)
(* tickets used long after the row they name has moved on.                 *)
(*                                                                         *)
(* Timestamps are kept as ages, in ticks: the code only ever compares a    *)
(* stored stamp with the present or with another stamp.                    *)
(***************************************************************************)
EXTENDS AnalysisResults

CONSTANTS
  Positions,   \* position ids that have a row in derived_position
  Callers,     \* holders of at most one QueueClaim each
  Tokens,      \* claim tokens (uuid4 strings)
  NoToken,     \* SQL NULL in daq_claim_token
  StaleAfter,  \* STALE_CLAIM_AFTER, in ticks
  Horizon      \* bound: request ages from Horizon on are not told apart

ASSUME QueueAssumption ==
  /\ Positions \subseteq Nat
  /\ NoToken \notin Tokens
  /\ StaleAfter \in Nat \ {0}
  /\ Horizon \in Nat

VARIABLES
  queue,    \* queue[p]: the row of position p, or NoRow
  results,  \* results[p]: the stored result of position p, or NoResult
  claim     \* claim[c]: the QueueClaim caller c holds, or NoClaim

vars == <<queue, results, claim>>

-----------------------------------------------------------------------------

Row == [quality : Quality, state : {"queued", "running"},
        requestedAge : 0..Horizon, claimedAge : 0..StaleAfter,
        token : Tokens \cup {NoToken}]

NoRow == [quality |-> "none", state |-> "absent", requestedAge |-> 0,
          claimedAge |-> 0, token |-> NoToken]

Live(row) == row.state # "absent"

Claims == [position : Positions, quality : Quality, token : Tokens]

NoClaim == [position |-> 0, quality |-> "none", token |-> NoToken]

Higher(a, b) == IF Rank(a) > Rank(b) THEN a ELSE b

NewRow(q) == [quality |-> q, state |-> "queued", requestedAge |-> 0,
              claimedAge |-> 0, token |-> NoToken]

\* Slip: the conflict clause takes the newly requested quality.
EnqueuedOverwriting(row, q) ==
  IF Live(row)
    THEN [row EXCEPT !.quality = q, !.requestedAge = 0]
    ELSE NewRow(q)

\* Slip: the conflict clause resets the row.
EnqueuedResetting(row, q) ==
  IF Live(row) THEN NewRow(Higher(row.quality, q)) ELSE NewRow(q)

\* INSERT ... ON CONFLICT DO UPDATE: the quality only grows, the request is
\* stamped anew, state and claim columns stay as they are.
Enqueued(row, q) ==
  IF Live(row)
    THEN [row EXCEPT !.quality = Higher(row.quality, q), !.requestedAge = 0]
    ELSE NewRow(q)

\* Slip: the claim columns keep their values.
RequeuedKeepingToken(row) == [row EXCEPT !.state = "queued"]

\* daq_state = 'queued', claim columns NULL.
Requeued(row) ==
  [row EXCEPT !.state = "queued", !.claimedAge = 0, !.token = NoToken]

\* What is left of a row once work at the claimed quality is over: a request
\* promoted meanwhile goes back to the queue, any other is gone.
Settled(row, claimed) ==
  IF Rank(row.quality) > Rank(claimed) THEN Requeued(row) ELSE NoRow

\* Slip: any running row of the ticket's position matches.
OwnsAnyToken(k) == k # NoClaim /\ queue[k.position].state = "running"

\* The compare-and-set condition of every operation on a ticket.
Owns(k) ==
  /\ k # NoClaim
  /\ queue[k.position].state = "running"
  /\ queue[k.position].token = k.token

-----------------------------------------------------------------------------
(* Choosing a row to claim. *)

\* Slip: every running row counts as stale.
StaleAtOnce(row) == row.state = "running"

Stale(row) == row.state = "running" /\ row.claimedAge >= StaleAfter

\* Slip: stale rows are never taken over.
ClaimableQueuedOnly(excluded) ==
  {p \in Positions \ excluded : queue[p].state = "queued"}

Claimable(excluded) ==
  {p \in Positions \ excluded : queue[p].state = "queued" \/ Stale(queue[p])}

\* p sorts no later than o by (requested_at, position id).  Two requests both
\* older than the horizon may sort either way.
NotAfter(p, o) ==
  \/ queue[p].requestedAge > queue[o].requestedAge
  \/ /\ queue[p].requestedAge = queue[o].requestedAge
     /\ p <= o \/ queue[p].requestedAge = Horizon

Oldest(p, excluded) ==
  /\ p \in Claimable(excluded)
  /\ \A o \in Claimable(excluded) : NotAfter(p, o)

\* Slip: the table is not consulted for the token.
FreshTokenUnchecked(t) == \A c \in Callers : claim[c].token # t

\* _fresh_token rejects a token that is live in the table; that a new uuid4
\* also differs from every ticket still held is a property of uuid4.
FreshToken(t) ==
  /\ \A p \in Positions : queue[p].state = "running" => queue[p].token # t
  /\ \A c \in Callers : claim[c].token # t

Running(row, t) ==
  [row EXCEPT !.state = "running", !.claimedAge = 0, !.token = t]

-----------------------------------------------------------------------------
(* The transactions, as changes to the tables. *)

\* Slip: release matches on the position alone.
ReleaseTicketUnchecked(k) ==
  /\ queue' = IF k # NoClaim /\ queue[k.position].state = "running"
                THEN [queue EXCEPT ![k.position] = Requeued(@)]
                ELSE queue
  /\ UNCHANGED results

ReleaseTicket(k) ==
  /\ queue' = IF Owns(k)
                THEN [queue EXCEPT ![k.position] = Requeued(@)]
                ELSE queue
  /\ UNCHANGED results

DeleteTicket(k) ==
  /\ queue' = IF Owns(k) THEN [queue EXCEPT ![k.position] = NoRow] ELSE queue
  /\ UNCHANGED results

\* Slip: a failed row is deleted whatever it asks for by now.
FailTicketDeleting(k) == DeleteTicket(k)

FailTicket(k) ==
  /\ queue' = IF Owns(k)
                THEN [queue EXCEPT ![k.position] = Settled(@, k.quality)]
                ELSE queue
  /\ UNCHANGED results

\* Publication and the end of the row are one transaction.  A ticket that
\* outranks its row raises QueueQualityError, and nothing changes.
CompleteTicket(k) ==
  IF Owns(k) /\ Rank(queue[k.position].quality) >= Rank(k.quality)
    THEN /\ results' = [results EXCEPT
                          ![k.position] = Published(Fresh(k.quality), @)]
         /\ queue' = [queue EXCEPT ![k.position] = Settled(@, k.quality)]
    ELSE UNCHANGED <<queue, results>>

ClaimRow(c, p, t, excluded) ==
  /\ Oldest(p, excluded)
  /\ FreshToken(t)
  /\ queue' = [queue EXCEPT ![p] = Running(@, t)]
  /\ claim' = [claim EXCEPT ![c] =
                 [position |-> p, quality |-> queue[p].quality, token |-> t]]
  /\ UNCHANGED results

-----------------------------------------------------------------------------
(* The operations. *)

\* A live request is reused unless it asks for less; without one, so is a
\* stored result that satisfies the request.
NeedsWork(p, q) ==
  IF Live(queue[p])
    THEN Rank(queue[p].quality) < Rank(q)
    ELSE ~Satisfies(results[p], q)

\* AnalysisRequestRepository._request.
Request(p, q) ==
  /\ queue' = IF NeedsWork(p, q)
                THEN [queue EXCEPT ![p] = Enqueued(@, q)]
                ELSE queue
  /\ UNCHANGED <<results, claim>>

\* QueueService.enqueue, which stamps the request anew even when it adds
\* nothing.
Enqueue(p, q) ==
  /\ queue' = [queue EXCEPT ![p] = Enqueued(@, q)]
  /\ UNCHANGED <<results, claim>>

Claim(c) ==
  /\ claim[c] = NoClaim
  /\ \E p \in Positions, t \in Tokens, excluded \in SUBSET Positions :
       ClaimRow(c, p, t, excluded)

\* A QueueClaim value outlives the call it is passed to, so a caller may use
\* it again, whatever has become of its row, or let go of it.
MayDrop(c) == claim' \in {claim, [claim EXCEPT ![c] = NoClaim]}

Release(c)  == ReleaseTicket(claim[c])  /\ MayDrop(c)
Delete(c)   == DeleteTicket(claim[c])   /\ MayDrop(c)
Fail(c)     == FailTicket(claim[c])     /\ MayDrop(c)
Complete(c) == CompleteTicket(claim[c]) /\ MayDrop(c)

\* AnalysisRepository.publish: a result that does not come through the queue.
Publish(p, q) ==
  /\ results' = [results EXCEPT ![p] = Published(Fresh(q), @)]
  /\ UNCHANGED <<queue, claim>>

\* The caller lets go of its ticket: it returned, or its process died.
Drop(c) ==
  /\ claim[c] # NoClaim
  /\ claim' = [claim EXCEPT ![c] = NoClaim]
  /\ UNCHANGED <<queue, results>>

Older(age, cap) == IF age < cap THEN age + 1 ELSE cap

Aged(row) ==
  IF Live(row)
    THEN [row EXCEPT
            !.requestedAge = Older(@, Horizon),
            !.claimedAge = IF row.state = "running"
                             THEN Older(@, StaleAfter) ELSE 0]
    ELSE row

Tick ==
  /\ queue' = [p \in Positions |-> Aged(queue[p])]
  /\ UNCHANGED <<results, claim>>

-----------------------------------------------------------------------------

Init ==
  /\ queue = [p \in Positions |-> NoRow]
  /\ results \in [Positions -> Result \cup {NoResult}]
  /\ claim = [c \in Callers |-> NoClaim]

Next ==
  \/ \E p \in Positions, q \in Quality :
       Request(p, q) \/ Enqueue(p, q) \/ Publish(p, q)
  \/ \E c \in Callers :
       Claim(c) \/ Release(c) \/ Fail(c) \/ Complete(c) \/ Drop(c)
  \/ Tick

Spec == Init /\ [][Next]_vars

\* The whole class, with the one operation nothing in the program calls.
ApiNext == Next \/ \E c \in Callers : Delete(c)

ApiSpec == Init /\ [][ApiNext]_vars

-----------------------------------------------------------------------------
(* Properties. *)

\* Rows and tickets are well formed, the table's CHECK constraint included:
\* claim columns are set exactly on running rows.
TypeOK ==
  /\ queue \in [Positions -> Row \cup {NoRow}]
  /\ results \in [Positions -> Result \cup {NoResult}]
  /\ claim \in [Callers -> Claims \cup {NoClaim}]
  /\ \A p \in Positions :
       (queue[p].token # NoToken) <=> (queue[p].state = "running")

\* The UNIQUE claim_token column: no two running rows share a token, so the
\* token a ticket carries can match at most the one row it was issued for.
TokensIdentifyRows ==
  \A p, o \in Positions :
    p # o /\ queue[p].state = "running" /\ queue[o].state = "running"
      => queue[p].token # queue[o].token

\* One row is never owned through two tickets: whatever expires, is reclaimed
\* or is released, at most one caller's complete, fail or release can act.
OneOwnerPerRow ==
  \A c, d \in Callers :
    Owns(claim[c]) /\ Owns(claim[d]) /\ claim[c].position = claim[d].position
      => c = d

\* The owner's claimed quality never exceeds what the row asks for, however
\* requests, promotions and reclaims interleave: complete never reaches its
\* "queue requested quality cannot downgrade a claim" error.
ClaimNeverOutranksRow ==
  \A c \in Callers :
    Owns(claim[c]) =>
      Rank(claim[c].quality) <= Rank(queue[claim[c].position].quality)

\* Work under way is taken over only after the stale interval: a running row
\* changes its token only if it was claimed at least STALE_CLAIM_AFTER ago.
TakeoverOnlyWhenStale ==
  [][\A p \in Positions :
       /\ queue[p].state = "running" /\ queue'[p].state = "running"
       /\ queue'[p].token # queue[p].token
       => queue[p].claimedAge >= StaleAfter]_vars

\* A running row leaves that state only through the ticket that owns it: a
\* late complete, fail or release on a superseded ticket changes nothing.
OnlyOwnerEndsRunning ==
  [][\A p \in Positions :
       queue[p].state = "running" /\ queue'[p].state # "running"
       => \E c \in Callers : Owns(claim[c]) /\ claim[c].position = p]_vars

\* A row goes away only when the work it asks for, at the quality it asks for
\* by then, was done or was tried and failed: a promotion that arrives while
\* lower-quality work runs is never lost.  Not a property of ApiSpec: delete
\* drops the row as it is.
PromotionSurvives ==
  [][\A p \in Positions :
       Live(queue[p]) /\ ~Live(queue'[p])
       => \E c \in Callers : /\ Owns(claim[c]) /\ claim[c].position = p
                            /\ claim[c].quality = queue[p].quality]_vars

\* The publication rule and the request rule agree: once a completion has been
\* applied, a repeated request for the claimed quality finds it satisfied,
\* even where the new result was not saved.
CompletionSatisfies ==
  [][\A c \in Callers :
       Owns(claim[c]) /\ Complete(c)
       => Satisfies(results'[claim[c].position], claim[c].quality)]_vars

\* Whoever publishes, in whatever order: a stored result is never replaced by
\* one of lower quality, nor a current one by anything of the same quality.
ResultsNeverWorsen ==
  [][\A p \in Positions, q \in Quality :
       Satisfies(results[p], q) => Satisfies(results'[p], q)]_vars

\* However claims expire, are taken over and come back late: a live row has a token
\* of its own, one ticket at most owns it, and the ticket never was claimed for more
\* than the row asks, so that complete need not look at its quality
\* (queue_service.py:323, 345).
RowsAreOwned == TypeOK /\ TokensIdentifyRows /\ OneOwnerPerRow /\ ClaimNeverOutranksRow

\* Whatever a late or superseded ticket is used for, running work changes hands only
\* when it is stale and ends only by its owner (queue_helpers.py:135,
\* queue_service.py:323).
TicketsAreGuarded == TakeoverOnlyWhenStale /\ OnlyOwnerEndsRunning

\* No request is forgotten and no answer gets worse: a promotion that arrives while
\* weaker work runs outlives it, what was completed satisfies the same request, and
\* publications in any order only improve a result (queue_service.py:345,
\* requests.py:264, repository.py:213).
RequestsAreKept == PromotionSurvives /\ CompletionSatisfies /\ ResultsNeverWorsen

-----------------------------------------------------------------------------
(* Refinement of AnalysisService *)

wanted == [p \in Positions |-> queue[p].quality]

Owners(p) == {c \in Callers : Owns(claim[c]) /\ claim[c].position = p}

active ==
  [p \in Positions |->
     IF Owners(p) = {}
       THEN "none"
       ELSE claim[CHOOSE c \in Owners(p) : TRUE].quality]

Service == INSTANCE AnalysisService

\* Every behaviour of the queue, read through the mapping, is a behaviour of
\* the abstract service: reclaims, late tickets and rollbacks are invisible or
\* count as a restart, and no request is dropped before work at its quality.
ImplementsService == Service!Spec

-----------------------------------------------------------------------------
(* A small instance: tokens and callers are interchangeable, positions are ordered. *)

LOCAL INSTANCE TLC

Symmetry == Permutations(Tokens) \cup Permutations(Callers)

=============================================================================
