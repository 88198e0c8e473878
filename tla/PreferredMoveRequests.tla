------------------------- MODULE PreferredMoveRequests -------------------------
(***************************************************************************)
(* The requests of /api/preferred-moves, from the router to the table and  *)
(* back.  Each request is served by a thread with a connection of its own. *)
(* PUT and DELETE amend the schedule of one position between BEGIN         *)
(* IMMEDIATE and COMMIT; GET reads in two queries, each of which sees what *)
(* is committed at its moment.  Any step may fail, a lock may not be had   *)
(* in time, and the server may stop between any two steps.                 *)
(*                                                                         *)
(* A transaction writes to a copy, staged, that its COMMIT puts into the   *)
(* tables and a rollback or the death of the server discards.              *)
(***************************************************************************)
EXTENDS PreferredMoves

CONSTANTS
  Requests,
  Bodies,       \* Bodies[r]: what request r may ask
  MaxStops      \* bound: how often the server stops

\* The order in which the checks of a request find its faults.
FaultOrder == <<"preference", "fen", "from", "until", "window", "uci", "illegal">>

Body ==
  [kind : {"get", "put", "delete"}, position : Positions, range : Period,
   faults : SUBSET ToSet(FaultOrder)]

ASSUME RequestAssumption ==
  \A r \in Requests : \A b \in Bodies[r] :
    /\ b \in Body
    /\ b.kind = "get" => b.range.until \in Day
    /\ b.kind = "delete" => b.range.preference = NoPreference

VARIABLES
  known,     \* committed rows of derived_position
  body,      \* what each request asks
  pc,        \* where each request is
  lock,      \* who holds the write lock, as a set
  current,   \* the schedule a request has loaded
  staged,    \* the rows a request has written and not committed
  reply,     \* status, code and periods
  applied,   \* requests whose transaction was committed
  moments,   \* moments[r]: the schedules of r's position since r was sent
  stops

vars == <<table, known, body, pc, lock, current, staged, reply, applied, moments, stops>>

tables == <<table, known, applied, moments>>

NoReply == [status |-> 0, code |-> "none", periods |-> <<>>]
Refused(code) == [status |-> 422, code |-> code, periods |-> <<>>]
Unavailable == [status |-> 503, code |-> "preferred_moves_unavailable", periods |-> <<>>]
Success(periods) == [status |-> 200, code |-> "none", periods |-> periods]

Writing == {"locked", "position", "normalized", "replaced", "verified"}
Reading == {"opened", "found"}
Over    == {"answered", "lost"}

Position(r) == body[r].position
Span(r)    == body[r].range

-----------------------------------------------------------------------------
(* Before the database. *)

\* __post_init__ of the requests, _validate_preference, and what the router
\* makes of the error: the first fault names the answer.
FirstFault(b) ==
  FaultOrder[Min({i \in DOMAIN FaultOrder : FaultOrder[i] \in b.faults})]

Check(r) ==
  /\ pc[r] = "sent"
  /\ IF body[r].faults # {}
       THEN /\ reply' = [reply EXCEPT ![r] = Refused(FirstFault(body[r]))]
            /\ pc' = [pc EXCEPT ![r] = "answered"]
       ELSE /\ pc' = [pc EXCEPT ![r] = "opened"]
            /\ UNCHANGED reply
  /\ moments' = [moments EXCEPT ![r] = {Schedule(Position(r))}]
  /\ UNCHANGED <<table, known, body, lock, current, staged, applied, stops>>

-----------------------------------------------------------------------------
(* PUT and DELETE: PreferredMoveRepository._amend. *)

Step(r, from, to) == pc[r] = from /\ pc' = [pc EXCEPT ![r] = to]

Amends(r) == body[r].kind # "get"

Lock(r) ==
  /\ Amends(r) /\ lock = {}
  /\ Step(r, "opened", "locked")
  /\ lock' = {r}
  /\ UNCHANGED <<tables, body, current, staged, reply, stops>>

ResolvePosition(r) ==
  /\ Step(r, "locked", "position")
  /\ staged' = [staged EXCEPT ![r].known = known \cup {Position(r)}]
  /\ UNCHANGED <<tables, body, lock, current, reply, stops>>

\* Slip: the schedule amended is not the one under the lock.
AmendEarlier(r) ==
  /\ Step(r, "position", "normalized")
  /\ current' = [current EXCEPT ![r] =
       Overlay(CHOOSE s \in moments[r] : \A t \in moments[r] : Len(s) <= Len(t),
               Span(r), body[r].kind = "put")]
  /\ UNCHANGED <<tables, body, lock, staged, reply, stops>>

\* The schedule is loaded and amended.
Amended(r) ==
  /\ Step(r, "position", "normalized")
  /\ current' = [current EXCEPT ![r] =
       Overlay(Schedule(Position(r)), Span(r), body[r].kind = "put")]
  /\ UNCHANGED <<tables, body, lock, staged, reply, stops>>

Replace(r) ==
  /\ Step(r, "normalized", "replaced")
  /\ staged' = [staged EXCEPT ![r].rows = ToSet(current[r])]
  /\ UNCHANGED <<tables, body, lock, current, reply, stops>>

\* What was written is read back and compared.
Verify(r) ==
  /\ Step(r, "replaced", "verified")
  /\ Normalized(Sorted(staged[r].rows)) = current[r]
  /\ UNCHANGED <<tables, body, lock, current, staged, reply, stops>>

\* Slip: each request is told the schedule it had found.
CommitTellsEarlier(r) ==
  /\ Step(r, "verified", "committed")
  /\ table' = [table EXCEPT ![Position(r)] = staged[r].rows]
  /\ known' = staged[r].known
  /\ lock' = {}
  /\ applied' = applied \cup {r}
  /\ reply' = [reply EXCEPT ![r] = Success(Schedule(Position(r)))]
  /\ moments' = [o \in Requests |->
       IF Position(o) = Position(r) THEN moments[o] \cup {current[r]} ELSE moments[o]]
  /\ UNCHANGED <<body, current, staged, stops>>

Commit(r) ==
  /\ Step(r, "verified", "committed")
  /\ table' = [table EXCEPT ![Position(r)] = staged[r].rows]
  /\ known' = staged[r].known
  /\ lock' = {}
  /\ applied' = applied \cup {r}
  /\ reply' = [reply EXCEPT ![r] = Success(current[r])]
  /\ moments' = [o \in Requests |->
       IF Position(o) = Position(r) THEN moments[o] \cup {current[r]} ELSE moments[o]]
  /\ UNCHANGED <<body, current, staged, stops>>

-----------------------------------------------------------------------------
(* GET: PreferredMoveTimelineRepository.read. *)

Told(r, s) == Success(Timeline(s, Span(r).from, Span(r).until))

\* A position that was never stored has an empty schedule.
FindPosition(r) ==
  /\ ~Amends(r)
  /\ pc[r] = "opened"
  /\ IF Position(r) \in known
       THEN pc' = [pc EXCEPT ![r] = "found"] /\ UNCHANGED reply
       ELSE /\ pc' = [pc EXCEPT ![r] = "read"]
            /\ reply' = [reply EXCEPT ![r] = Told(r, <<>>)]
  /\ UNCHANGED <<tables, body, lock, current, staged, stops>>

\* Slip: the rows of a running transaction are read.
ReadStaged(r) ==
  /\ Step(r, "found", "read")
  /\ LET rows == IF \E o \in lock : Position(o) = Position(r) /\ pc[o] \in {"replaced", "verified"}
                   THEN staged[CHOOSE o \in lock : TRUE].rows
                   ELSE table[Position(r)]
     IN reply' = [reply EXCEPT ![r] = Told(r, Normalized(Sorted(rows)))]
  /\ UNCHANGED <<tables, body, lock, current, staged, stops>>

ReadSchedule(r) ==
  /\ Step(r, "found", "read")
  /\ reply' = [reply EXCEPT ![r] = Told(r, Schedule(Position(r)))]
  /\ UNCHANGED <<tables, body, lock, current, staged, stops>>

-----------------------------------------------------------------------------
(* Failure. *)

\* Slip: a failed transaction keeps the lock.
BreakLocked(r) ==
  /\ pc[r] \in Reading \cup Writing
  /\ pc' = [pc EXCEPT ![r] = "answered"]
  /\ reply' = [reply EXCEPT ![r] = Unavailable]
  /\ UNCHANGED <<tables, body, lock, current, staged, stops>>

\* Slip: a transaction that fails after its check is committed all the same.
BreakCommits(r) ==
  /\ pc[r] \in Reading \cup Writing
  /\ pc' = [pc EXCEPT ![r] = "answered"]
  /\ lock' = lock \ {r}
  /\ reply' = [reply EXCEPT ![r] = Unavailable]
  /\ IF pc[r] = "verified"
       THEN /\ table' = [table EXCEPT ![Position(r)] = staged[r].rows]
            /\ known' = staged[r].known
            /\ applied' = applied \cup {r}
            /\ UNCHANGED moments
       ELSE UNCHANGED tables
  /\ UNCHANGED <<body, current, staged, stops>>

\* Slip: what fails is tried again.
BreakRetries(r) ==
  /\ pc[r] \in Reading \cup Writing
  /\ pc' = [pc EXCEPT ![r] = "opened"]
  /\ lock' = lock \ {r}
  /\ UNCHANGED <<tables, body, current, staged, reply, stops>>

\* A file that is not there or not compatible, a lock that is not had in time,
\* an error of SQLite or of the stored schedule; a transaction is rolled back.
Break(r) ==
  /\ pc[r] \in Reading \cup Writing
  /\ pc' = [pc EXCEPT ![r] = "answered"]
  /\ lock' = lock \ {r}
  /\ reply' = [reply EXCEPT ![r] = Unavailable]
  /\ UNCHANGED <<tables, body, current, staged, stops>>

Answer(r) ==
  /\ pc[r] \in {"committed", "read"}
  /\ pc' = [pc EXCEPT ![r] = "answered"]
  /\ UNCHANGED <<tables, body, lock, current, staged, reply, stops>>

\* The server stops; requests that have not been answered never will be.
Stop ==
  /\ stops < MaxStops
  /\ stops' = stops + 1
  /\ pc' = [r \in Requests |-> IF pc[r] \in {"sent", "answered"} THEN pc[r] ELSE "lost"]
  /\ lock' = {}
  /\ UNCHANGED <<tables, body, current, staged, reply>>

-----------------------------------------------------------------------------

Init ==
  /\ table = [p \in Positions |-> {}]
  /\ known \in SUBSET Positions
  /\ body \in {f \in [Requests -> UNION {Bodies[r] : r \in Requests}] :
                 \A r \in Requests : f[r] \in Bodies[r]}
  /\ pc = [r \in Requests |-> "sent"]
  /\ lock = {}
  /\ current = [r \in Requests |-> <<>>]
  /\ staged = [r \in Requests |-> [rows |-> {}, known |-> {}]]
  /\ reply = [r \in Requests |-> NoReply]
  /\ applied = {}
  /\ moments = [r \in Requests |-> {}]
  /\ stops = 0

Serve(r) ==
  \/ Check(r) \/ Lock(r) \/ ResolvePosition(r) \/ Amended(r) \/ Replace(r) \/ Verify(r)
  \/ Commit(r) \/ FindPosition(r) \/ ReadSchedule(r) \/ Break(r) \/ Answer(r)

Next == (\E r \in Requests : Serve(r)) \/ Stop

Spec == Init /\ [][Next]_vars

\* A thread that can go on does; a wait for the lock ends, with or without it.
FairSpec == Spec /\ \A r \in Requests : WF_vars(Serve(r))

-----------------------------------------------------------------------------
(* Properties. *)

TypeOK ==
  /\ table \in [Positions -> SUBSET Period]
  /\ \A p \in Positions : table[p] # {} => p \in known
  /\ \A r \in Requests :
       /\ body[r] \in Bodies[r]
       /\ r \in lock <=> pc[r] \in Writing
       /\ pc[r] \in Over \cup Reading \cup Writing \cup {"sent", "committed", "read"}

\* A request to amend is answered with success exactly if its amendment has
\* been stored; one that has a fault, or could not be served, has changed
\* nothing.
AnswersAreTrue ==
  \A r \in Requests :
    pc[r] = "answered" /\ Amends(r) =>
      /\ reply[r].status = 200 <=> r \in applied
      /\ reply[r].status = 422 <=> body[r].faults # {}

\* The schedule a PUT or DELETE returns is in force for the range it asked: on
\* each day of the range the answer says what was asked, also when others
\* amended the position at the same time.
AnswerShowsTheAmendment ==
  \A r \in Requests :
    reply[r].status = 200 /\ Amends(r) =>
      \A d \in Day : Covers(Span(r), d) =>
        Resolve(reply[r].periods, d) =
          IF body[r].kind = "put" THEN Span(r).preference ELSE Unconfigured

\* A timeline is the one of a schedule that was in force at a moment between
\* the request and its answer, although it is read in two queries.
TimelineIsOfAMoment ==
  \A r \in Requests :
    reply[r].status = 200 /\ ~Amends(r) =>
      \E s \in moments[r] : reply[r] = Told(r, s)

\* The rows change by whole amendments, one after the other: threads, failures
\* and stops are not to be seen in the table.
ImplementsAmendments == TableSpec

\* What schedules and answers say: no legal amendment is refused by the checks of
\* what was normalized, equal schedules have equal rows (ranges.py), a timeline shows
\* day by day what the rows say (timeline.py); a request succeeds exactly if its
\* amendment is stored, and answers with it; and a timeline, though read in two
\* queries, is that of one moment.
SchedulesAreTrue ==
  /\ RowsArePeriods
  /\ NeverRefused
  /\ TimelineExact
  /\ NormalForm
  /\ TypeOK
  /\ AnswersAreTrue
  /\ AnswerShowsTheAmendment
  /\ TimelineIsOfAMoment

\* Every request is answered, unless the server stops.
RequestsAnswered == \A r \in Requests : (pc[r] = "sent") ~> (pc[r] \in Over)

=============================================================================
