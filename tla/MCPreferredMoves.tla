--------------------------- MODULE MCPreferredMoves ---------------------------
(* Preferred moves: three requests to the server (PreferredMoveRequests), the *)
(* schedules of two positions (PreferredMoves) under any amendments, two runs  *)
(* of the set-up beside imports and amendments (PreferredMoveSetup), and what  *)
(* is inferred from games (PreferredMoveInference).  Set-up and requests       *)
(* implement the schedules; each behaviour is of one of the four.              *)
EXTENDS PreferredMoveRequests, TLC

CONSTANTS
  e4, d4, pos1, pos2, r1, r2, put1, put2, get1,
  Side, LastPly, Window, MinimumMatches, UciOrder, MaxPlayed, Runs, GamesOffered,
  Amendments, MaxGames, MaxAmendments   \* see PreferredMoveSetup

VARIABLES
  part,     \* whose behaviour it is
  played,   \* see PreferredMoveInference
  games, rows, run, seen, pending, inserted, result, amended   \* see PreferredMoveSetup

setting == <<games, rows, run, seen, pending, inserted, result, amended>>
mcvars == <<part, vars, played, setting>>

-----------------------------------------------------------------------------
(* Games without a day or without a ply, played with either colour, that reach *)
(* pos1 and pos2, and one that reaches pos1 a ply too late.                  *)

Game(started, color, plies) == [started |-> started, color |-> color, plies |-> plies]

MCGames ==
  {Game(d, c, <<<<pos1, e4>>, <<pos2, d4>>>>) : d \in {0, 2}, c \in {"white", "black"}}
  \cup {Game(1, "white", <<<<pos1, d4>>, <<pos2, e4>>, <<pos1, e4>>>>),
        Game(Forever, "white", <<<<pos1, d4>>>>),
        Game(0, "black", <<>>)}

MCAmendments ==
  {<<pos1, [from |-> 1, until |-> Forever, preference |-> NoPreference]>>,
   <<pos2, [from |-> 0, until |-> 2, preference |-> e4]>>}

MCSide == (pos1 :> "white") @@ (pos2 :> "black")

MCOrder == <<e4, d4>>

\* Two matches instead of the one that is enough for the set-up.
Inferring == INSTANCE PreferredMoveInference WITH MinimumMatches <- 2

Setting == INSTANCE PreferredMoveSetup WITH table <- rows, pc <- run, staged <- inserted

-----------------------------------------------------------------------------
(* Two amendments, that overlap, adjoin or differ in their position, and a     *)
(* reader of all but the last day.                                             *)

Ask(kind, position, from, until, preference, faults) ==
  [kind |-> kind, position |-> position,
   range |-> [from |-> from, until |-> until, preference |-> preference],
   faults |-> faults]

MCBodies ==
  (put1 :> {Ask("put", pos1, 0, 1, e4, {}),
            Ask("put", pos1, 0, Forever, e4, {}),
            Ask("put", pos1, 1, Forever, e4, {"window", "illegal"})})
  @@
  (put2 :> {Ask("put", pos1, 1, Forever, e4, {}),
            Ask("put", pos1, 1, 2, NoPreference, {}),
            Ask("put", pos2, 1, 2, e4, {}),
            Ask("delete", pos1, 0, 2, NoPreference, {}),
            Ask("delete", pos1, 0, 2, NoPreference, {"fen"})})
  @@
  (get1 :> {Ask("get", pos1, 0, 2, NoPreference, {}),
            Ask("get", pos1, 1, 2, NoPreference, {"from"})})

\* Bound: whether they are answered is asked of one request of each kind.
Few ==
  /\ body[put1] = Ask("put", pos1, 0, Forever, e4, {})
  /\ body[put2].kind = "delete"
  /\ body[get1].faults = {}

-----------------------------------------------------------------------------

ASSUME Setting!SetupAssumption /\ Inferring!InferenceAssumption

\* Bound: pos2 never has more than one period.
OneRow == Cardinality(table[pos2]) <= 1

MCInit ==
  /\ Init /\ Inferring!Init /\ Setting!Init
  /\ part \in {"setup", "ends", "inference", "requests", "answers", "table"}
  /\ known = {p \in Positions : part = "table"}
  /\ part = "answers" => Few
  /\ part \notin {"requests", "answers"} => Few /\ body[put2].faults = {}

OfSetup(A) == A /\ UNCHANGED <<part, played, vars>>
OfServer(A) == A /\ UNCHANGED <<part, played, setting>>

\* Bound: whether runs end is asked with one game at most, played with white on
\* the first day, and without amendments.
Fewer ==
  /\ Len(games) <= 1 /\ amended = 0
  /\ \A i \in DOMAIN games : games[i].started = 0 /\ games[i].color = "white"

MCNext ==
  \/ part = "setup" /\ OfSetup(Setting!Next)
  \/ part = "ends" /\ OfSetup(Setting!Next) /\ Fewer'
  \/ part = "inference" /\ Inferring!Next /\ UNCHANGED <<part, vars, setting>>
  \/ part = "requests" /\ OfServer(Next)
  \/ part = "answers" /\ OfServer(Next) /\ UNCHANGED stops
  \/ /\ part = "table" /\ TableNext /\ OneRow'
     /\ UNCHANGED <<known, body, pc, lock, current, staged, reply, applied, moments, stops>>
     /\ UNCHANGED <<part, played, setting>>

\* The fairness of PreferredMoveSetup and of PreferredMoveRequests.
MCSpec ==
  /\ MCInit /\ [][MCNext]_mcvars
  /\ \A r \in Runs : WF_mcvars(part = "ends" /\ OfSetup(Setting!Works(r)))
  /\ \A r \in {put1, put2, get1} : WF_mcvars(part = "answers" /\ OfServer(Serve(r)))

-----------------------------------------------------------------------------
\* Set-up fills an empty table in one step, with what inference says of all the
\* games that are then in the database, though games are imported and periods set
\* by hand while it waits for the lock; and its summary agrees with both (setup.py).
SetupIsOneStep ==
  Setting!ImplementsSchedules /\ Setting!CommitIsOfAllGames /\ Setting!SummaryIsTrue

\* What is inferred: every period is one of the trainer's own moves, with evidence
\* in its window; a position not reported as conflicting shows every dominating
\* move; a move gives way only to one played more; the result is in normal form, so
\* that the checks of set-up refuse nothing (inference.py); and a game changes
\* nothing that lies a window or more before its day, whenever it is imported.
InferenceIsRight ==
  /\ [](/\ Setting!TypeOK
        /\ Setting!PeriodsAreTheTrainers
        /\ Inferring!TypeOK
        /\ Inferring!PeriodsHaveEvidence
        /\ Inferring!UndisputedIsShown
        /\ Inferring!TieKeepsTheOlder)
  /\ Inferring!LaterGamesKeepThePast

\* Every run of the set-up that is started ends, and every request is answered
\* while the server does not stop.
EverybodyIsAnswered ==
  /\ part = "ends" => Setting!RunsEnd
  /\ part = "answers" => RequestsAnswered

===============================================================================
