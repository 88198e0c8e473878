---------------------------- MODULE PositionInsight ----------------------------
(***************************************************************************)
(* What is known of one position (positions/insight_*.py, backend          *)
(* position_insight/router.py): the statistics of the stored games, the    *)
(* preference, the opening and the analysis, for one trainer colour.       *)
(*                                                                         *)
(* The identifier of the position, the statistics (one SELECT), the queue  *)
(* row and the preference are read in this order on one connection without *)
(* a transaction, opening and result on further ones; games, requests,     *)
(* results and routes are written meanwhile.  AnalysisObservation has the  *)
(* two SELECTs of the result itself, PreferredMoveSchedule the resolution  *)
(* of a preference.                                                        *)
(***************************************************************************)
EXTENDS Integers, FiniteSets, Sequences, FiniteSetsExt, SequencesExt

CONSTANTS
  Versions,     \* Versions[g]: the contents [color, line] game g may be imported with; a line is a sequence of positions
  RouteTables,  \* the tables an opening publication may leave: position -> opening, on its endpoints
  Positions,
  Preferences,  \* what a schedule may resolve to; "unconfigured" among them
  None,
  Outages,      \* whether a read may fail
  MaxWrites     \* bound: how many transactions commit

Games == DOMAIN Versions
Colors == {"white", "black"}

PositionInsightAssumption ==
  /\ MaxWrites \in Nat /\ Outages \in BOOLEAN /\ "unconfigured" \in Preferences
  /\ Positions \subseteq Nat /\ None \notin Positions /\ None \notin {"queued", "running"}
  /\ \A g \in Games : \A v \in Versions[g] : v.color \in Colors /\ v.line \in Seq(Positions) \ {<<>>}
  /\ \A t \in RouteTables : DOMAIN t \subseteq Positions

VARIABLES
  games,      \* datasource_game and derived_game_position
  stored,     \* derived_position
  routes,     \* derived_opening_route
  requests,   \* the live rows of the analysis queue: position -> "queued" or "running"
  results,    \* the analyzed positions
  preference, \* what each position's schedule resolves to at the date asked for
  reading,    \* the request that is answered and what has been read for it
  insight,    \* the last answer
  begun,      \* how many transactions had committed when the request came (history)
  rested,     \* during the reads the position was once neither requested nor analyzed (history)
  writes

tables == <<games, stored, routes, requests, results, preference>>
vars == <<tables, reading, insight, begun, rested, writes>>

-----------------------------------------------------------------------------
(* The statistics: _read_position_statistics. *)

\* The move out of a ply is named by the next position; the last ply has none.
Move(line, i) == IF i < Len(line) THEN line[i + 1] ELSE None

Rows(p) == {r \in UNION {{[game |-> g, ply |-> i - 1, move |-> Move(games[g].line, i), color |-> games[g].color] :
                            i \in DOMAIN games[g].line} : g \in DOMAIN games} :
              games[r.game].line[r.ply + 1] = p}

\* Slip: a game is counted as often as it reaches the position.
CountsRepeated(rows) == [games |-> Cardinality(rows), occurrences |-> Cardinality(rows)]

Counts(rows) == [games |-> Cardinality({r.game : r \in rows}), occurrences |-> Cardinality(rows)]

\* Slip: the rows of the other colour are counted as well.
StatisticsOfBoth(p, color) ==
  LET rows == Rows(p)
  IN [observed |-> rows # {}, total |-> Cardinality({g \in DOMAIN games : games[g].color = color}),
      experience |-> Counts({r \in rows : r.color = color}), outgoing |-> Counts({r \in rows : r.move # None}),
      terminal |-> Counts({r \in rows : r.move = None}),
      moves |-> [m \in {r.move : r \in rows} \ {None} |-> Counts({r \in rows : r.move = m})]]

Statistics(p, color) ==
  LET rows == {r \in Rows(p) : r.color = color}
  IN [observed |-> Rows(p) # {}, total |-> Cardinality({g \in DOMAIN games : games[g].color = color}),
      experience |-> Counts(rows), outgoing |-> Counts({r \in rows : r.move # None}),
      terminal |-> Counts({r \in rows : r.move = None}),
      moves |-> [m \in {r.move : r \in rows} \ {None} |-> Counts({r \in rows : r.move = m})]]

\* Without an identifier the SELECT finds no row but counts the games.
NoStatistics(color) ==
  [observed |-> FALSE, total |-> Cardinality({g \in DOMAIN games : games[g].color = color}),
   experience |-> Counts({}), outgoing |-> Counts({}), terminal |-> Counts({}), moves |-> <<>>]

\* The order of the observed moves: more games first.
MoveBefore(moves, m, n) == moves[m].games > moves[n].games \/ (moves[m].games = moves[n].games /\ m < n)

MoveOrder(moves) == CHOOSE s \in SetToSeqs(DOMAIN moves) : \A i, j \in DOMAIN s : i < j => MoveBefore(moves, s[i], s[j])

-----------------------------------------------------------------------------
(* The writers: each action is a transaction that commits. *)

Resting(p) == p \notin DOMAIN requests /\ p \notin results

Commit ==
  /\ writes < MaxWrites
  /\ writes' = writes + 1
  /\ UNCHANGED <<reading, insight, begun>>
  /\ rested' = (rested \/ (reading.next # "idle" /\ Resting(reading.position)'))

Import(g, v) ==
  /\ g \in DOMAIN games => v # games[g]
  /\ games' = [x \in DOMAIN games \cup {g} |-> IF x = g THEN v ELSE games[x]]
  /\ stored' = stored \cup ToSet(v.line)
  /\ UNCHANGED <<routes, requests, results, preference>> /\ Commit

\* Slip: the endpoints of the routes are not stored.
PublishUnstored(table) ==
  /\ routes' = table /\ table # routes
  /\ UNCHANGED <<games, stored, requests, results, preference>> /\ Commit

Publish(table) ==
  /\ routes' = table /\ table # routes
  /\ stored' = stored \cup DOMAIN table
  /\ UNCHANGED <<games, requests, results, preference>> /\ Commit

Enqueue(p) ==
  /\ p \notin DOMAIN requests
  /\ requests' = [x \in DOMAIN requests \cup {p} |-> IF x = p THEN "queued" ELSE requests[x]]
  /\ stored' = stored \cup {p}
  /\ UNCHANGED <<games, routes, results, preference>> /\ Commit

\* A worker takes the request up, or recovery puts it back.
Claim(p) ==
  /\ p \in DOMAIN requests
  /\ requests' = [requests EXCEPT ![p] = IF @ = "queued" THEN "running" ELSE "queued"]
  /\ UNCHANGED <<games, stored, routes, results, preference>> /\ Commit

Without(p) == [x \in DOMAIN requests \ {p} |-> requests[x]]

\* Result and request change in one transaction.
Complete(p) ==
  /\ p \in DOMAIN requests /\ requests[p] = "running"
  /\ requests' = Without(p) /\ results' = results \cup {p}
  /\ UNCHANGED <<games, stored, routes, preference>> /\ Commit

RemoveRequest(p) ==
  /\ p \in DOMAIN requests
  /\ requests' = Without(p)
  /\ UNCHANGED <<games, stored, routes, results, preference>> /\ Commit

Prefer(p, kind) ==
  /\ kind # preference[p] /\ p \in stored
  /\ preference' = [preference EXCEPT ![p] = kind]
  /\ UNCHANGED <<games, stored, routes, requests, results>> /\ Commit

-----------------------------------------------------------------------------
(* The insight. *)

Idle == [next |-> "idle", position |-> None, color |-> None, statistics |-> None, moves |-> <<>>, queue |-> None,
         preference |-> "unconfigured", opening |-> None]

\* A request with a legal position; others are answered with 422 before anything is read.
Begin(p, color) ==
  /\ reading.next = "idle"
  /\ reading' = [Idle EXCEPT !.next = "position", !.position = p, !.color = color]
  /\ insight' = None /\ begun' = writes /\ rested' = Resting(p)
  /\ UNCHANGED <<tables, writes>>

Reading(step) == reading.next = step /\ UNCHANGED <<tables, begun, rested, writes>>

\* Slip: only a running request is shown.
StateRunning(queue, analyzed) ==
  CASE queue = "running"              -> queue
    [] queue # "running" /\ analyzed  -> "ready"
    [] OTHER                          -> "not_requested"

\* _analysis_state: a live request goes before the result.
State(queue, analyzed) ==
  CASE queue # None               -> queue
    [] queue = None /\ analyzed   -> "ready"
    [] OTHER                      -> "not_requested"

Answer(analyzed) ==
  /\ insight' = [position |-> reading.position, color |-> reading.color, statistics |-> reading.statistics,
                 moves |-> reading.moves, state |-> State(reading.queue, analyzed), analyzed |-> analyzed,
                 preference |-> reading.preference, opening |-> reading.opening]
  /\ reading' = Idle

\* A position that is not stored is answered for after the statistics.
FindPosition ==
  /\ Reading("position")
  /\ reading' = [reading EXCEPT !.next = IF reading.position \in stored THEN "statistics" ELSE "sparse"]
  /\ UNCHANGED insight

ReadStatistics ==
  /\ Reading("statistics")
  /\ LET s == Statistics(reading.position, reading.color)
     IN reading' = [reading EXCEPT !.next = "queue", !.statistics = s, !.moves = MoveOrder(s.moves)]
  /\ UNCHANGED insight

Sparse ==
  /\ Reading("sparse")
  /\ insight' = [position |-> reading.position, color |-> reading.color, statistics |-> NoStatistics(reading.color),
                 moves |-> <<>>, state |-> "not_requested", analyzed |-> FALSE, preference |-> "unconfigured", opening |-> None]
  /\ reading' = Idle

Queued(p) == IF p \in DOMAIN requests THEN requests[p] ELSE None

ReadQueue ==
  /\ Reading("queue")
  /\ reading' = [reading EXCEPT !.next = "preference", !.queue = Queued(reading.position)]
  /\ UNCHANGED insight

ReadPreference ==
  /\ Reading("preference")
  /\ reading' = [reading EXCEPT !.next = "opening", !.preference = preference[reading.position]]
  /\ UNCHANGED insight

ReadOpening ==
  /\ Reading("opening")
  /\ reading' = [reading EXCEPT !.next = "result",
                   !.opening = IF reading.position \in DOMAIN routes THEN routes[reading.position] ELSE None]
  /\ UNCHANGED insight

ReadResult == Reading("result") /\ Answer(reading.position \in results)

CannotRead ==
  /\ Outages /\ reading.next # "idle"
  /\ Reading(reading.next)
  /\ insight' = None /\ reading' = Idle

-----------------------------------------------------------------------------
Init ==
  /\ games = <<>> /\ results = {} /\ requests = <<>>
  /\ routes \in RouteTables /\ stored = DOMAIN routes
  /\ preference = [p \in Positions |-> "unconfigured"]
  /\ reading = Idle /\ insight = None /\ begun = 0 /\ rested = FALSE /\ writes = 0

Write ==
  \/ \E g \in Games : \E v \in Versions[g] : Import(g, v)
  \/ \E table \in RouteTables : Publish(table)
  \/ \E p \in Positions : Enqueue(p) \/ Claim(p) \/ Complete(p) \/ RemoveRequest(p) \/ \E kind \in Preferences : Prefer(p, kind)

Read == FindPosition \/ ReadStatistics \/ Sparse \/ ReadQueue \/ ReadPreference \/ ReadOpening \/ ReadResult \/ CannotRead

Next == Write \/ Read \/ \E p \in Positions, color \in Colors : Begin(p, color)

Spec == Init /\ [][Next]_vars

-----------------------------------------------------------------------------
(* Properties. *)

\* Games, positions, requests and what has been read are what they should be.
TypeOK ==
  /\ DOMAIN games \subseteq Games /\ \A g \in DOMAIN games : games[g] \in Versions[g] /\ ToSet(games[g].line) \subseteq stored
  /\ routes \in RouteTables /\ DOMAIN routes \subseteq stored /\ stored \subseteq Positions
  /\ DOMAIN requests \subseteq stored /\ \A p \in DOMAIN requests : requests[p] \in {"queued", "running"}
  /\ results \subseteq stored /\ preference \in [Positions -> Preferences]
  /\ reading.next \in {"idle", "position", "statistics", "sparse", "queue", "preference", "opening", "result"}
  /\ begun \in 0..writes /\ writes \in 0..MaxWrites /\ rested \in BOOLEAN

Answered == insight # None

\* As many pairs as the numbers of counted come to in all.
Pairs(counted) == UNION {{m} \X (1..counted[m]) : m \in DOMAIN counted}

\* The numbers of an answer fit each other, whatever is imported while it is read: every occurrence of the trainer has
\* a move or ends its game, every move is listed and counted, and no count of games exceeds the games there are.
StatisticsAgree ==
  Answered =>
    LET s == insight.statistics
        sum(counted) == Cardinality(Pairs(counted))
    IN /\ s.experience.occurrences = s.outgoing.occurrences + s.terminal.occurrences
       /\ s.outgoing.occurrences = sum([m \in DOMAIN s.moves |-> s.moves[m].occurrences])
       /\ s.experience.games =< s.total /\ s.outgoing.games =< s.experience.games
       /\ s.outgoing.games =< sum([m \in DOMAIN s.moves |-> s.moves[m].games])
       /\ s.experience.games =< s.outgoing.games + s.terminal.games
       /\ s.experience.occurrences > 0 => s.observed
       /\ ToSet(insight.moves) = DOMAIN s.moves

\* While nothing is written the answer says of the games what they say themselves, and names opening and preference.
UndisturbedIsExact ==
  Answered /\ begun = writes =>
    LET p == insight.position
        mine == {g \in DOMAIN games : games[g].color = insight.color}
        with == {g \in mine : \E i \in DOMAIN games[g].line : games[g].line[i] = p}
        plies(g) == {i \in DOMAIN games[g].line : games[g].line[i] = p}
        s == insight.statistics
    IN /\ s.total = Cardinality(mine)
       /\ s.experience = [games |-> Cardinality(with), occurrences |-> Cardinality(UNION {{<<g, i>> : i \in plies(g)} : g \in mine})]
       /\ s.terminal.games = Cardinality({g \in mine : games[g].line[Len(games[g].line)] = p})
       /\ s.observed = (\E g \in DOMAIN games : p \in ToSet(games[g].line))
       /\ \A m \in Positions : (m \in DOMAIN s.moves) = (\E g \in mine : \E i \in plies(g) : i < Len(games[g].line) /\ games[g].line[i + 1] = m)
       /\ \A i \in 1..Len(insight.moves) - 1 : s.moves[insight.moves[i]].games >= s.moves[insight.moves[i + 1]].games
       /\ insight.opening = IF p \in DOMAIN routes THEN routes[p] ELSE None
       /\ insight.preference = preference[p]

\* Work that is requested, taken up or completed between two reads is never overlooked: "not requested" is said only
\* of a position that was neither requested nor analyzed at some moment of the request.
NotRequestedWasTrue ==
  Answered /\ insight.state = "not_requested" => rested

\* What an insight promises.
Honest == TypeOK /\ StatisticsAgree /\ UndisturbedIsExact /\ NotRequestedWasTrue

=============================================================================
