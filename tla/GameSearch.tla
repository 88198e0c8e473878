------------------------------ MODULE GameSearch ------------------------------
(***************************************************************************)
(* Searching and reading the stored games (games/search_*.py,              *)
(* games/reading.py, backend games/router.py).                             *)
(*                                                                         *)
(* A search reads five tables with five SELECTs outside of a transaction:  *)
(* between two of them an import, a publication of the openings, an        *)
(* analysis or an edit of the repertoire may commit.  Filters, order and   *)
(* page are computed in memory.  A client walks the pages of a query, each *)
(* page a search of its own, and may open a game that was listed.          *)
(*                                                                         *)
(* started stands for both timestamps, rating for both ratings, class for  *)
(* the fields compared for equality (colour, outcome, reason, opponent,    *)
(* time control, time class); a move is named by the position it leads to. *)
(***************************************************************************)
EXTENDS Integers, FiniteSets, Sequences, FiniteSetsExt, SequencesExt

CONSTANTS
  Versions,     \* Versions[uuid]: the contents a game may be imported with
  RouteTables,  \* the derived_opening_route tables: sets of <<position, opening key>>
  Positions,
  Legal,        \* the legal moves: pairs of positions
  Queries,      \* the queries that are asked
  Begins,       \* the databases a run begins with: [known, results, preferred]
  None,
  Outages,      \* whether the database may be unreadable for a while
  MaxWrites     \* bound: how many transactions commit

Uuids == DOMAIN Versions

States == {"none", "partial", "complete"}

\* The fields of a query; a walk begins at its first page.
Query ==
  [page : Nat \ {0}, pageSize : Nat, sort : {"started_at", "length", "rating", "game_uuid"}, descending : BOOLEAN,
   from : Nat \cup {None}, to : Nat \cup {None}, min : Nat \cup {None}, max : Nat \cup {None}, class : Nat \cup {None},
   opening : Nat \cup {None}, match : {None, "reached", "deepest"}, contains : Positions \cup {None},
   movePosition : Positions \cup {None}, move : Positions \cup {None}, shortest : Nat \cup {None}, longest : Nat \cup {None},
   analysis : States \cup {None}, preferred : States \cup {None}]

GameSearchAssumption ==
  /\ Uuids \subseteq Nat /\ MaxWrites \in Nat /\ Outages \in BOOLEAN
  /\ None \notin Nat \cup Positions /\ None \notin States \cup {"ok", "deepest"} /\ None \notin Query
  /\ \A u \in Uuids :
       /\ Versions[u] # {}
       /\ \A v \in Versions[u] :
            /\ v.started \in Nat \cup {None} /\ v.rating \in Nat \cup {None} /\ v.class \in Nat
            /\ v.line \in Seq(Positions) /\ v.line # <<>>
            /\ \A i \in 1..Len(v.line) - 1 : <<v.line[i], v.line[i + 1]>> \in Legal
  /\ \A table \in RouteTables : table \subseteq Positions \X Nat
  /\ \A q \in Queries : q \in Query /\ q.page = 1
  /\ \A b \in Begins : /\ b.known \subseteq Uuids /\ IsFiniteSet(b.known)
                       /\ b.results \subseteq Positions /\ b.preferred \subseteq Positions

VARIABLES
  games,      \* datasource_game and derived_game_position: uuid -> content
  routes,     \* derived_opening_route
  results,    \* the positions of derived_analysis_result
  preferred,  \* the positions of datasource_preferred_move_period
  search,     \* the search that runs: what it reads next and what it has read
  reply,      \* the last response of GET /games
  detail,     \* the last response of GET /games/{uuid}
  query,      \* the query whose pages the client walks
  seen,       \* the games on the pages it was given
  start,      \* the database when the walk began, and the writes before (history)
  moved,      \* a game of the walk was corrected or may have left it (history)
  writes

database == <<games, routes, results, preferred>>
vars == <<database, search, reply, detail, query, seen, start, moved, writes>>

-----------------------------------------------------------------------------
(* The query. *)

Ordered(lower, upper) == lower # None /\ upper # None => lower =< upper

\* GameSearchQuery.__post_init__: what the router answers with 422 otherwise.
Valid(q) ==
  /\ q.page >= 1 /\ q.pageSize \in 1..100
  /\ Ordered(q.from, q.to) /\ Ordered(q.min, q.max) /\ Ordered(q.shortest, q.longest)
  /\ (q.opening = None) <=> (q.match = None)
  /\ (q.movePosition = None) <=> (q.move = None)
  /\ q.movePosition # None => <<q.movePosition, q.move>> \in Legal

InBounds(value, lower, upper) ==
  \/ lower = None /\ upper = None
  \/ /\ value # None
     /\ lower = None \/ value >= lower
     /\ upper = None \/ value =< upper

-----------------------------------------------------------------------------
(* One game, from the rows that were read: [content, line, openings, analysed, preferred]. *)

Length(line) == Len(line) - 1
Occurrences(line) == ToSet(line)

\* Slip: the first ply of an opening is kept.
OpeningMatchesFirst(line, table) ==
  LET plies(k) == {i \in 1..Len(line) : <<line[i], k>> \in table}
  IN [k \in {k \in {r[2] : r \in table} : plies(k) # {}} |-> Min(plies(k)) - 1]

\* The deepest ply of each opening a game reaches.
OpeningMatches(line, table) ==
  LET plies(k) == {i \in 1..Len(line) : <<line[i], k>> \in table}
  IN [k \in {k \in {r[2] : r \in table} : plies(k) # {}} |-> Max(plies(k)) - 1]

\* The opening with the deepest ply, the least key among several.
Deepest(matches) ==
  IF matches = <<>> THEN None
  ELSE LET deepest == {k \in DOMAIN matches : \A l \in DOMAIN matches : matches[l] =< matches[k]}
       IN Min(deepest)

\* Slip: the positions are counted with their repetitions.
CoverageRepeated(line, covered) ==
  LET count == Cardinality(Occurrences(line) \cap covered)
  IN IF count = 0 THEN "none" ELSE IF count = Len(line) THEN "complete" ELSE "partial"

Coverage(line, covered) ==
  LET count == Cardinality(Occurrences(line) \cap covered)
  IN IF count = 0 THEN "none" ELSE IF count = Cardinality(Occurrences(line)) THEN "complete" ELSE "partial"

Summarize(u, s) ==
  [uuid |-> u, started |-> s.games[u].started, rating |-> s.games[u].rating, class |-> s.games[u].class,
   length |-> Length(s.lines[u]), line |-> s.lines[u], openings |-> s.openings[u], deepest |-> Deepest(s.openings[u]),
   analysis |-> Coverage(s.lines[u], s.analysed), preferred |-> Coverage(s.lines[u], s.preferred)]

Matches(g, q) ==
  /\ InBounds(g.started, q.from, q.to)
  /\ q.class # None => g.class = q.class
  /\ InBounds(g.rating, q.min, q.max)
  /\ q.opening # None =>
       IF q.match = "reached" THEN q.opening \in DOMAIN g.openings ELSE g.deepest = q.opening
  /\ q.contains # None => q.contains \in Occurrences(g.line)
  /\ q.movePosition # None =>
       \E i \in 1..g.length : g.line[i] = q.movePosition /\ g.line[i + 1] = q.move
  /\ q.shortest # None => g.length >= q.shortest
  /\ q.longest # None => g.length =< q.longest
  /\ q.analysis # None => g.analysis = q.analysis
  /\ q.preferred # None => g.preferred = q.preferred

\* Slip: the order is turned around as a whole.
PrecedesReversed(left, right, descending) ==
  IF descending THEN (left = None /\ right # None) \/ (left # None /\ right # None /\ left > right)
                ELSE (left # None /\ right = None) \/ (left # None /\ right # None /\ left < right)

\* What is not stored comes last in both directions.
Precedes(left, right, descending) ==
  /\ left # None
  /\ right # None => IF descending THEN left > right ELSE left < right

Before(g, h, q) ==
  LET key(x) == CASE q.sort = "started_at" -> x.started
                  [] q.sort = "length"     -> x.length
                  [] q.sort = "rating"     -> x.rating
                  [] OTHER                 -> x.uuid
  IN \/ Precedes(key(g), key(h), q.descending)
     \/ key(g) = key(h) /\ g.uuid < h.uuid

Sorted(found, q) == CHOOSE s \in SetToSeqs(found) : \A i, j \in DOMAIN s : i < j => Before(s[i], s[j], q)

Page(sorted, q) ==
  LET first == (q.page - 1) * q.pageSize
  IN SubSeq(sorted, first + 1, IF first + q.pageSize < Len(sorted) THEN first + q.pageSize ELSE Len(sorted))

\* Slip: only a full next page is announced.
HasNextWhenMore(total, q) == (q.page + 1) * q.pageSize =< total

\* page < ceil(total / page_size)
HasNext(total, q) == q.page * q.pageSize < total

-----------------------------------------------------------------------------
(* The writers: each action is a transaction that commits. *)

Found(s, q) == {g \in {Summarize(u, s) : u \in DOMAIN s.games} : Matches(g, q)}

\* Everything a search reads, as the tables hold it at one moment.
Snapshot(db) ==
  [games |-> db.games, lines |-> [u \in DOMAIN db.games |-> db.games[u].line],
   openings |-> [u \in DOMAIN db.games |-> OpeningMatches(db.games[u].line, db.routes)],
   analysed |-> db.results, preferred |-> db.preferred]

Database == [games |-> games, routes |-> routes, results |-> results, preferred |-> preferred, writes |-> writes]

Walking == query # None

\* What the commit does to the games of the walk: a game it corrects, or no longer matches.
Commit ==
  /\ writes < MaxWrites
  /\ writes' = writes + 1
  /\ moved' = (moved \/ (Walking /\
                 LET db == [games |-> games', routes |-> routes', results |-> results', preferred |-> preferred']
                 IN \/ \E u \in DOMAIN games : games'[u] # games[u]
                    \/ ~ {g.uuid : g \in Found(Snapshot(Database), query)}
                           \subseteq {g.uuid : g \in Found(Snapshot(db), query)}))
  /\ UNCHANGED <<search, reply, detail, query, seen, start>>

\* A game is inserted, or every field and occurrence of it replaced.
Import(u, v) ==
  /\ u \in DOMAIN games => v # games[u]
  /\ games' = [x \in DOMAIN games \cup {u} |-> IF x = u THEN v ELSE games[x]]
  /\ UNCHANGED <<routes, results, preferred>>
  /\ Commit

Publish(table) ==
  /\ routes' = table /\ table # routes
  /\ UNCHANGED <<games, results, preferred>>
  /\ Commit

StoreResult(p) ==
  /\ p \notin results
  /\ results' = results \cup {p}
  /\ UNCHANGED <<games, routes, preferred>>
  /\ Commit

EditPreferred(p) ==
  /\ preferred' = IF p \in preferred THEN preferred \ {p} ELSE preferred \cup {p}
  /\ UNCHANGED <<games, routes, results>>
  /\ Commit

-----------------------------------------------------------------------------
(* The search. *)

Nothing == [next |-> "idle", games |-> <<>>, lines |-> <<>>, openings |-> <<>>, analysed |-> {}, preferred |-> {}]
NoReply == [status |-> None, items |-> <<>>, total |-> 0, hasNext |-> FALSE]

Respond(status) == reply' = [NoReply EXCEPT !.status = status] /\ search' = Nothing

\* The first page of a query.
Ask(q) ==
  /\ search.next = "idle"
  /\ query' = q /\ seen' = <<>> /\ start' = Database /\ moved' = FALSE
  /\ IF Valid(q) THEN search' = [Nothing EXCEPT !.next = "games"] /\ reply' = NoReply
                 ELSE Respond("invalid")
  /\ UNCHANGED <<database, detail, writes>>

\* The page after one that announced it.
AskNext ==
  /\ search.next = "idle" /\ reply.hasNext
  /\ query' = [query EXCEPT !.page = @ + 1]
  /\ search' = [Nothing EXCEPT !.next = "games"] /\ reply' = NoReply
  /\ UNCHANGED <<database, detail, seen, start, moved, writes>>

Reading(step) == search.next = step /\ UNCHANGED <<database, detail, query, start, moved, writes>>

LoadGames ==
  /\ Reading("games")
  /\ search' = [search EXCEPT !.next = "occurrences", !.games = games]
  /\ UNCHANGED <<reply, seen>>

\* Slip: the occurrences of games that were not read are kept.
LoadAllOccurrences ==
  /\ Reading("occurrences")
  /\ search' = [search EXCEPT !.next = "openings", !.lines = [u \in DOMAIN games |-> games[u].line]]
  /\ UNCHANGED <<reply, seen>>

\* An occurrence of a game that was not read is taken for damage.
LoadOccurrences ==
  /\ Reading("occurrences")
  /\ IF DOMAIN games \subseteq DOMAIN search.games
       THEN /\ search' = [search EXCEPT !.next = "openings", !.lines = [u \in DOMAIN search.games |-> games[u].line]]
            /\ UNCHANGED reply
       ELSE Respond("unavailable")
  /\ UNCHANGED seen

LoadOpenings ==
  /\ Reading("openings")
  /\ LET matches(u) == OpeningMatches(games[u].line, routes)
     IN IF \A u \in DOMAIN games \ DOMAIN search.games : matches(u) = <<>>
          THEN /\ search' = [search EXCEPT !.next = "analysed", !.openings = [u \in DOMAIN search.games |-> matches(u)]]
               /\ UNCHANGED reply
          ELSE Respond("unavailable")
  /\ UNCHANGED seen

LoadAnalysed ==
  /\ Reading("analysed")
  /\ search' = [search EXCEPT !.next = "preferred", !.analysed = results]
  /\ UNCHANGED <<reply, seen>>

\* The last SELECT; the connection is closed and the page computed.
LoadPreferred ==
  /\ Reading("preferred")
  /\ LET read == [search EXCEPT !.preferred = preferred]
         found == Found(read, query)
         items == Page(Sorted(found, query), query)
     IN /\ reply' = [status |-> "ok", items |-> items, total |-> Cardinality(found),
                     hasNext |-> HasNext(Cardinality(found), query)]
        /\ seen' = seen \o [i \in DOMAIN items |-> items[i].uuid]
  /\ search' = Nothing

\* The database cannot be read: missing, locked, of another schema.
CannotRead ==
  /\ Outages /\ search.next # "idle"
  /\ Reading(search.next)
  /\ Respond("outage")
  /\ UNCHANGED seen

\* Slip: the occurrences come from what the list has read.
ReadGameCached(u) ==
  /\ detail' = IF u \in DOMAIN games
                 THEN [status |-> "ok", uuid |-> u,
                       game |-> [games[u] EXCEPT !.line = IF u \in DOMAIN search.lines THEN search.lines[u] ELSE @]]
                 ELSE [status |-> "not_found", uuid |-> u, game |-> None]
  /\ UNCHANGED <<database, search, reply, query, seen, start, moved, writes>>

\* One SELECT joins the game and its occurrences.
ReadGame(u) ==
  /\ detail' = IF u \in DOMAIN games THEN [status |-> "ok", uuid |-> u, game |-> games[u]]
                                     ELSE [status |-> "not_found", uuid |-> u, game |-> None]
  /\ UNCHANGED <<database, search, reply, query, seen, start, moved, writes>>

GetGame == \E u \in ToSet(seen) : ReadGame(u)

-----------------------------------------------------------------------------
Init ==
  /\ \E b \in Begins : /\ games = [u \in b.known |-> CHOOSE v \in Versions[u] : TRUE]
                       /\ results = b.results /\ preferred = b.preferred
  /\ routes \in RouteTables
  /\ search = Nothing /\ reply = NoReply /\ detail = None
  /\ query = None /\ seen = <<>> /\ writes = 0 /\ start = Database /\ moved = FALSE

Write ==
  \/ \E u \in Uuids : \E v \in Versions[u] : Import(u, v)
  \/ \E table \in RouteTables : Publish(table)
  \/ \E p \in Positions : StoreResult(p) \/ EditPreferred(p)

Read == LoadGames \/ LoadOccurrences \/ LoadOpenings \/ LoadAnalysed \/ LoadPreferred \/ CannotRead

Next == Write \/ (\E q \in Queries : Ask(q)) \/ AskNext \/ Read \/ GetGame

Spec == Init /\ [][Next]_vars

-----------------------------------------------------------------------------
(* Properties. *)

\* The tables hold games, routes and positions; a search has read some of them; a walk has seen known games.
TypeOK ==
  /\ DOMAIN games \subseteq Uuids /\ \A u \in DOMAIN games : games[u] \in Versions[u]
  /\ routes \in RouteTables /\ results \subseteq Positions /\ preferred \subseteq Positions
  /\ search.next \in {"idle", "games", "occurrences", "openings", "analysed", "preferred"}
  /\ DOMAIN search.lines \subseteq DOMAIN search.games /\ DOMAIN search.games \subseteq DOMAIN games
  /\ reply.status \in {None, "ok", "invalid", "unavailable", "outage"} /\ Len(reply.items) =< reply.total
  /\ ToSet(seen) \subseteq DOMAIN games
  /\ moved \in BOOLEAN /\ writes \in 0..MaxWrites

WalkEnded == reply.status = "ok" /\ ~ reply.hasNext

\* The uuids that match the query in the database db, said of the games themselves.
Matching(db) ==
  {u \in DOMAIN db.games :
     LET g == db.games[u]
         plies(k) == {i \in 1..Len(g.line) : <<g.line[i], k>> \in db.routes}
         covered(set, state) ==
           CASE state = "none"     -> \A p \in ToSet(g.line) : p \notin set
             [] state = "complete" -> \A p \in ToSet(g.line) : p \in set
             [] OTHER              -> \E p, r \in ToSet(g.line) : p \in set /\ r \notin set
     IN /\ query.from # None => g.started # None /\ ~ (g.started < query.from)
        /\ query.to # None => g.started # None /\ ~ (g.started > query.to)
        /\ query.min # None => g.rating # None /\ ~ (g.rating < query.min)
        /\ query.max # None => g.rating # None /\ ~ (g.rating > query.max)
        /\ query.class \in {None, g.class}
        /\ query.opening # None => plies(query.opening) # {}
        /\ query.match = "deepest" =>
             \A r \in db.routes : \A i \in plies(r[2]) :
               \E j \in plies(query.opening) : j > i \/ (j = i /\ query.opening =< r[2])
        /\ query.contains # None => \E i \in DOMAIN g.line : g.line[i] = query.contains
        /\ query.movePosition # None =>
             \E i, j \in DOMAIN g.line : j = i + 1 /\ <<g.line[i], g.line[j]>> = <<query.movePosition, query.move>>
        /\ query.shortest # None => Len(g.line) > query.shortest
        /\ query.longest # None => Len(g.line) =< query.longest + 1
        /\ query.analysis # None => covered(db.results, query.analysis)
        /\ query.preferred # None => covered(db.preferred, query.preferred)}

\* While nothing is written, the pages of a query, walked to the end, hold every game that matches once and
\* no other game, and each page gives their number.
PagesPartition ==
  WalkEnded /\ Database = start => IsInjective(seen) /\ ToSet(seen) = Matching(start) /\ reply.total = Len(seen)

\* On a page and from page to page the games come in the order asked for: those without a value last whichever
\* the direction, and those that agree by uuid, so that the order is the same in every search.
PagesInOrder ==
  reply.status = "ok" /\ Database = start =>
    \A i, j \in DOMAIN seen : i < j =>
      LET g == start.games[seen[i]]
          h == start.games[seen[j]]
          inOrder(a, b) == \/ a = b /\ seen[i] < seen[j]
                           \/ b = None /\ a # None
                           \/ a # None /\ b # None /\ IF query.descending THEN a > b ELSE a < b
      IN CASE query.sort = "started_at" -> inOrder(g.started, h.started)
           [] query.sort = "rating"     -> inOrder(g.rating, h.rating)
           [] query.sort = "length"     -> inOrder(Len(g.line), Len(h.line))
           [] OTHER                     -> IF query.descending THEN seen[i] > seen[j] ELSE seen[i] < seen[j]

\* The query filters by one at most of the tables that a search reads apart: openings, results, preferred moves.
OneFilter(q) == Cardinality({f \in {"opening", "analysis", "preferred"} : q[f] # None}) =< 1

\* While games are imported between two pages, a walk may be given a game again but never misses one that
\* matched when it began, unless a write corrected a game or took one out of the matches.  With two of the
\* filters it may: a search that reads one table before a write and the other after the next can list a game
\* that never matched, which the next search does not count, so that the page begins too late.
NoGameSkipped ==
  WalkEnded /\ ~ moved /\ OneFilter(query) => Matching(start) \subseteq ToSet(seen)

\* The analysis coverage of a game the search gives was true of it at some moment of the search, although game and
\* results are read at different moments: it claims no more than the results hold now and no less than when it began.
CoverageWasTrue ==
  reply.status = "ok" =>
    \A i \in DOMAIN reply.items :
      LET g == reply.items[i]
          none(set) == ToSet(g.line) \cap set = {}
      IN /\ g.analysis = "complete" => ToSet(g.line) \subseteq results
         /\ g.analysis = "partial" => ~ none(results) /\ ~ (ToSet(g.line) \subseteq start.results)
         /\ g.analysis = "none" => none(start.results)

\* A game that was listed can be opened, and is shown as one import left it: a correction that commits while it is
\* read mixes no fields and moves of two imports.
DetailIsOneImport ==
  detail # None => detail.status = "ok" /\ detail.game \in Versions[detail.uuid]

\* What a search promises while others write, and while nobody does.
Honest ==
  /\ TypeOK
  /\ NoGameSkipped
  /\ CoverageWasTrue
  /\ DetailIsOneImport
  /\ PagesPartition
  /\ PagesInOrder

\* A database that can be read serves every valid query: the search reports a "game occurrence row is malformed"
\* (src/chess_move_trainer/database/games/search_repository.py:226) only of a row that is malformed, and no row is.
HealthyDatabaseIsServed == reply.status # "unavailable"

=============================================================================
