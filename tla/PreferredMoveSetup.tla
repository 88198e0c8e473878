-------------------------- MODULE PreferredMoveSetup --------------------------
(***************************************************************************)
(* The set-up of preferred moves (preferred_moves/setup.py): runs of       *)
(* PreferredMoveSetupService.run, each a process of its own, beside the    *)
(* import of games and the amendment of schedules.  A run checks the       *)
(* schema, takes the write lock, refuses a table that holds a period,      *)
(* reads every game, infers the periods of every position, inserts them    *)
(* row by row and commits, or rolls back on any error.                     *)
(*                                                                         *)
(* Everybody else writes in transactions of one step, which wait for the   *)
(* lock; the rows a run has inserted are seen by nobody before it commits. *)
(***************************************************************************)
EXTENDS PreferredMoveSchedule

CONSTANTS
  Positions,
  Side,          \* Side[p]: "white" or "black", who is to move in position p
  LastPly,       \* the last ply that counts, 29
  Window, MinimumMatches, UciOrder, MaxPlayed,   \* as in PreferredMoveInference
  Runs,          \* runs of set-up
  GamesOffered,  \* games that may be imported
  Amendments,    \* bound: periods that are set or unset by hand
  MaxGames,      \* bound: how many games are imported
  MaxAmendments  \* bound: how many amendments are made

NoDate == Forever    \* a game without a start time

\* A game: its start, the trainer's colour and, ply by ply, the position and
\* the move that left it.
GameShape(g) ==
  /\ g.started \in Day \cup {NoDate}
  /\ g.color \in {"white", "black"}
  /\ \A i \in 1..Len(g.plies) : g.plies[i] \in Positions \X Moves

SetupAssumption ==
  /\ Side \in [Positions -> {"white", "black"}]
  /\ LastPly \in Nat
  /\ \A g \in GamesOffered : GameShape(g)
  /\ Amendments \subseteq Positions \X Period

VARIABLES
  games,    \* datasource_game with its derived_game_position, by game id
  table,    \* table[p]: the committed periods of position p
  pc,       \* where each run is
  seen,     \* the games a run has read
  pending,  \* the rows a run has yet to insert
  staged,   \* the rows a run has inserted
  result,   \* the summary a run returned, if it returned, as a set
  amended   \* how many amendments were made

vars == <<games, table, pc, seen, pending, staged, result, amended>>

Locked == \E r \in Runs : pc[r] \in {"locked", "empty", "read", "inserting"}

NoRows == [p \in Positions |-> {}]

-----------------------------------------------------------------------------
(* Reading and inferring. *)

\* Slip: the moves of both players count.
CountsEither(gs, g, i, p, d, m) ==
  /\ gs[g].started = d /\ gs[g].plies[i] = <<p, m>> /\ i - 1 <= LastPly

\* Occurrence i of game g is an observation of move m in position p on day d:
\* the trainer made it, early enough, in a game whose day is known.
Counts(gs, g, i, p, d, m) ==
  /\ gs[g].started = d
  /\ gs[g].plies[i] = <<p, m>>
  /\ i - 1 <= LastPly
  /\ Side[p] = gs[g].color

Played(gs, p) ==
  [d \in Day |-> [m \in Moves |->
     Cardinality({x \in (DOMAIN gs) \X (1..LastPly + 2) :
        x[2] \in DOMAIN gs[x[1]].plies /\ Counts(gs, x[1], x[2], p, d, m)})]]

Inference(p) == INSTANCE PreferredMoveInference WITH played <- Played(games, p)

PeriodsOf(gs) == [p \in Positions |-> ToSet(Inference(p)!Inferred(Played(gs, p)))]

\* Slip: games that no position was derived from are not counted.
SummaryOfOccurrences(gs, rows) ==
  [examined    |-> Cardinality({g \in DOMAIN gs : gs[g].plies # <<>>}),
   skipped     |-> Cardinality({g \in DOMAIN gs : gs[g].started = NoDate}),
   qualifying  |-> Cardinality({p \in Positions : rows[p] # {}}),
   applied     |-> MapThenSumSet(LAMBDA p : Cardinality(rows[p]), Positions),
   conflicting |-> Cardinality({p \in Positions : Inference(p)!Reported(Played(gs, p))})]

\* The five counts of PreferredMoveSetupResult.
Summary(gs, rows) ==
  [examined    |-> Cardinality(DOMAIN gs),
   skipped     |-> Cardinality({g \in DOMAIN gs : gs[g].started = NoDate}),
   qualifying  |-> Cardinality({p \in Positions : rows[p] # {}}),
   applied     |-> MapThenSumSet(LAMBDA p : Cardinality(rows[p]), Positions),
   conflicting |-> Cardinality({p \in Positions : Inference(p)!Reported(Played(gs, p))})]

-----------------------------------------------------------------------------
(* The steps of a run. *)

\* _assert_compatible_schema, before the transaction.
Open(r) ==
  /\ pc[r] = "idle"
  /\ pc' = [pc EXCEPT ![r] = "opened"]
  /\ UNCHANGED <<games, table, seen, pending, staged, result, amended>>

\* BEGIN IMMEDIATE.
Lock(r) ==
  /\ pc[r] = "opened" /\ ~Locked
  /\ pc' = [pc EXCEPT ![r] = "locked"]
  /\ UNCHANGED <<games, table, seen, pending, staged, result, amended>>

\* Somebody holds the lock for longer than the timeout.
LockTimesOut(r) ==
  /\ pc[r] = "opened" /\ Locked
  /\ pc' = [pc EXCEPT ![r] = "failed"]
  /\ UNCHANGED <<games, table, seen, pending, staged, result, amended>>

\* Slip: the table is not looked at.
RequireNothing(r) ==
  /\ pc[r] = "locked"
  /\ pc' = [pc EXCEPT ![r] = "empty"]
  /\ UNCHANGED <<games, table, seen, pending, staged, result, amended>>

\* Slip: a run waits, with the lock, for the table to become empty.
RequireEmptyWaits(r) ==
  /\ pc[r] = "locked" /\ table = NoRows
  /\ pc' = [pc EXCEPT ![r] = "empty"]
  /\ UNCHANGED <<games, table, seen, pending, staged, result, amended>>

\* _require_empty_schedule: PreferredMoveSetupRefused unless there is no period.
RequireEmpty(r) ==
  /\ pc[r] = "locked"
  /\ pc' = [pc EXCEPT ![r] = IF table = NoRows THEN "empty" ELSE "refused"]
  /\ UNCHANGED <<games, table, seen, pending, staged, result, amended>>

\* Slip: the games are read before the lock is taken.
ReadFirst(r) ==
  \/ /\ pc[r] = "opened" /\ seen[r] = <<>>
     /\ seen' = [seen EXCEPT ![r] = games]
     /\ UNCHANGED <<games, table, pc, pending, staged, result, amended>>
  \/ /\ pc[r] = "empty"
     /\ pc' = [pc EXCEPT ![r] = "read"]
     /\ UNCHANGED <<games, table, seen, pending, staged, result, amended>>

\* _read_data.
Read(r) ==
  /\ pc[r] = "empty"
  /\ seen' = [seen EXCEPT ![r] = games]
  /\ pc' = [pc EXCEPT ![r] = "read"]
  /\ UNCHANGED <<games, table, pending, staged, result, amended>>

\* infer_preferred_moves and _validate_complete_result, which refuses nothing
\* that inference returns (PreferredMoveInference, TypeOK).
Infer(r) ==
  /\ pc[r] = "read"
  /\ pending' = [pending EXCEPT ![r] = PeriodsOf(seen[r])]
  /\ pc' = [pc EXCEPT ![r] = "inserting"]
  /\ UNCHANGED <<games, table, seen, staged, result, amended>>

\* One row of _insert_periods.
Insert(r) ==
  /\ pc[r] = "inserting"
  /\ \E p \in Positions : \E row \in pending[r][p] :
       /\ pending' = [pending EXCEPT ![r][p] = @ \ {row}]
       /\ staged' = [staged EXCEPT ![r][p] = @ \cup {row}]
  /\ UNCHANGED <<games, table, pc, seen, result, amended>>

Commit(r) ==
  /\ pc[r] = "inserting" /\ pending[r] = NoRows
  /\ table' = [p \in Positions |-> table[p] \cup staged[r][p]]
  /\ result' = [result EXCEPT ![r] = {Summary(seen[r], staged[r])}]
  /\ pc' = [pc EXCEPT ![r] = "done"]
  /\ UNCHANGED <<games, seen, pending, staged, amended>>

\* Slip: an error within the transaction is swallowed.
RollbackSilently(r) ==
  /\ pc[r] \in {"locked", "empty", "read", "inserting"}
  /\ pc' = [pc EXCEPT ![r] = "done"]
  /\ UNCHANGED <<games, table, seen, pending, staged, result, amended>>

\* An error or an interrupt within the transaction; a process that dies leaves
\* a transaction that SQLite rolls back.
Rollback(r) ==
  /\ pc[r] \in {"locked", "empty", "read", "inserting"}
  /\ pc' = [pc EXCEPT ![r] = "failed"]
  /\ UNCHANGED <<games, table, seen, pending, staged, result, amended>>

-----------------------------------------------------------------------------
(* The others. *)

Schedules == INSTANCE PreferredMoves

ImportGame ==
  /\ ~Locked /\ Len(games) < MaxGames
  /\ \E g \in GamesOffered : games' = Append(games, g)
  /\ UNCHANGED <<table, pc, seen, pending, staged, result, amended>>

AmendSchedule ==
  /\ ~Locked /\ amended < MaxAmendments
  /\ amended' = amended + 1
  /\ \E x \in Amendments :
       Schedules!SetPreference(x[1], x[2]) \/ Schedules!UnsetPreference(x[1], x[2])
  /\ UNCHANGED <<games, pc, seen, pending, staged, result>>

Init ==
  /\ games = <<>>
  /\ table = NoRows
  /\ pc = [r \in Runs |-> "idle"]
  /\ seen = [r \in Runs |-> <<>>]
  /\ pending = [r \in Runs |-> NoRows]
  /\ staged = [r \in Runs |-> NoRows]
  /\ result = [r \in Runs |-> {}]
  /\ amended = 0

Works(r) ==
  Lock(r) \/ LockTimesOut(r) \/ RequireEmpty(r) \/ Read(r) \/ Infer(r) \/ Insert(r) \/ Commit(r)

Next ==
  \/ \E r \in Runs : Open(r) \/ Works(r) \/ Rollback(r)
  \/ ImportGame
  \/ AmendSchedule

Spec == Init /\ [][Next]_vars

\* A run goes on by itself; nobody has to start one.
FairSpec == Spec /\ \A r \in Runs : WF_vars(Works(r))

-----------------------------------------------------------------------------
(* Properties. *)

TypeOK ==
  /\ \A i \in 1..Len(games) : games[i] \in GamesOffered
  /\ \A p \in Positions : table[p] \subseteq Period
  /\ \A r \in Runs : result[r] # {} <=> pc[r] = "done"

\* Set-up does what PreferredMoves says of it and no more: it fills an empty
\* table in one step, and no amendment is lost to it or mixed with it.
ImplementsSchedules == Schedules!TableSpec

\* At the moment a run commits, the table is what inference says of all the
\* games that are then in the database: none that was imported while the run
\* waited for the lock is missing.
CommitIsOfAllGames ==
  [][\A r \in Runs : pc'[r] = "done" /\ pc[r] # "done" => table' = PeriodsOf(games)]_vars

\* The summary a run returns agrees with the table it leaves and with the games
\* it was made from.
SummaryIsTrue ==
  [][\A r \in Runs : pc'[r] = "done" /\ pc[r] # "done" =>
       \E x \in result'[r] :
         /\ x.applied = MapThenSumSet(LAMBDA p : Cardinality(table'[p]), Positions)
         /\ x.qualifying = Cardinality({p \in Positions : table'[p] # {}})
         /\ x.examined = Len(games)
         /\ x.examined - x.skipped
              = Cardinality({i \in 1..Len(games) : games[i].started \in Day})]_vars

\* Unless periods were set by hand, every period says what the trainer did in
\* some game of its first day, with the trainer's own pieces and within the
\* plies that count.
PeriodsAreTheTrainers ==
  amended = 0 =>
    \A p \in Positions : \A row \in table[p] :
      \E i \in 1..Len(games) : \E k \in 1..Len(games[i].plies) :
        /\ k <= LastPly + 1
        /\ games[i].plies[k] = <<p, row.preference>>
        /\ games[i].started = row.from
        /\ games[i].color = Side[p]

\* Every run that is started ends.
RunsEnd ==
  \A r \in Runs : pc[r] = "opened" ~> pc[r] \in {"done", "refused", "failed"}

=============================================================================
