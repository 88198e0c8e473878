-------------------------- MODULE OpeningCatalogue --------------------------
(***************************************************************************)
(* The stored opening catalogue: replaced as a whole in one transaction,   *)
(* read by recognition (lookup_fen, replay_pgn) and by the catalogue       *)
(* pages.  Each reader makes two SELECTs that no transaction holds         *)
(* together: sqlite3 begins one only before a write, so a replacement may  *)
(* come between the two.                                                   *)
(***************************************************************************)
EXTENDS Integers, FiniteSets, Sequences, SequencesExt, FiniteSetsExt

CONSTANTS
  Labels,      \* the openings, numbered in the order of their keys: ECO, then name
  EcoOf,       \* EcoOf[l], NameOf[l]: the ECO and the name, numbered in their order
  NameOf,
  Texts,       \* the sets of labels whose ECO or name contains a text that is searched for
  Unnamed,     \* the labels whose name is empty
  Start,       \* the initial position
  Play,        \* Play[<<p, m>>]: the position after the legal move m in p
  NoPosition,
  Sources,     \* the sets of routes that may be published
  Games,       \* Games[g]: the moves of a stored game
  PageSizes,   \* the sizes of pages that are asked for
  Readers

VARIABLES
  source,    \* the routes of the last publication
  tables,    \* datasource_opening, derived_opening_route and its moves
  reader,    \* reader[r]: what r is reading
  answer     \* answer[r]: the outcome of its last reading

vars == <<source, tables, reader, answer>>

-----------------------------------------------------------------------------

(***************************************************************************)
(* Positions and routes.  A route is [label, moves]; its endpoint is where *)
(* its moves lead.                                                         *)
(***************************************************************************)

\* The position after each ply, NoPosition from an illegal move on.
Along(moves) ==
  LET at[n \in 0..Len(moves)] ==
        IF n = 0 THEN Start
        ELSE IF <<at[n - 1], moves[n]>> \in DOMAIN Play THEN Play[<<at[n - 1], moves[n]>>]
        ELSE NoPosition
  IN  at

Endpoint(moves) == Along(moves)[Len(moves)]

\* What the source loader accepts: routes of at least one move, all of them legal.
\* Moves are numbered in the order of their UCI text.
CatalogueAssumption ==
  /\ Labels \subseteq Nat /\ Unnamed \subseteq Labels /\ Texts \subseteq SUBSET Labels
  /\ EcoOf \in [Labels -> Nat] /\ NameOf \in [Labels -> Nat]
  /\ \A a, b \in Labels : a < b => EcoOf[a] < EcoOf[b] \/ (EcoOf[a] = EcoOf[b] /\ NameOf[a] < NameOf[b])
  /\ \A s \in Sources :
       /\ IsFiniteSet(s) /\ s \subseteq [label : Labels, moves : Seq(Nat) \ {<< >>}]
       /\ \A r \in s : Endpoint(r.moves) # NoPosition
  /\ IsFiniteSet(DOMAIN Games) /\ \A g \in DOMAIN Games : Games[g] \in Seq(Nat)
  /\ PageSizes \subseteq Nat \ {0}

\* Sorted by ECO, name and moves.
MovesBefore(a, b) ==
  \/ Len(a) < Len(b) /\ \A k \in DOMAIN a : a[k] = b[k]
  \/ \E k \in DOMAIN a \cap DOMAIN b : a[k] < b[k] /\ \A j \in 1..(k - 1) : a[j] = b[j]

RouteBefore(a, b) == a.label < b.label \/ (a.label = b.label /\ MovesBefore(a.moves, b.moves))

\* _insert_labels, _insert_routes, _insert_route_moves after everything was
\* deleted: identifiers are counted from 1 again.
Tables(s) ==
  LET labels == CHOOSE q \in SetToSeqs({r.label : r \in s}) : \A i, j \in DOMAIN q : i < j => q[i] < q[j]
      routes == CHOOSE q \in SetToSeqs(s) : \A i, j \in DOMAIN q : i < j => RouteBefore(q[i], q[j])
  IN  [labels |-> labels,
       routes |-> [id \in DOMAIN routes |->
                    [label |-> routes[id].label, endpoint |-> Endpoint(routes[id].moves)]],
       moves  |-> UNION {{[route |-> id, ply |-> n, move |-> routes[id].moves[n]] :
                            n \in DOMAIN routes[id].moves} : id \in DOMAIN routes}]

\* _verify_publication: labels, routes with their endpoints, plies without gaps.
Verified(s, t) ==
  /\ ToSet(t.labels) = {r.label : r \in s} /\ Len(t.labels) = Cardinality({r.label : r \in s})
  /\ Len(t.routes) = Cardinality(s)
  /\ \A id \in DOMAIN t.routes :
       {m.ply : m \in {x \in t.moves : x.route = id}}
         = 1..Cardinality({x \in t.moves : x.route = id})

-----------------------------------------------------------------------------

(***************************************************************************)
(* _materialize_routes: the rows of the two SELECTs are put together, and  *)
(* any route whose moves are missing, have a gap, are illegal or do not    *)
(* end where its row says is refused, as are moves of no route.            *)
(***************************************************************************)

MovesOf(id, moves) ==
  LET mine == {m \in moves : m.route = id}
  IN  IF {m.ply : m \in mine} = 1..Cardinality(mine)
        THEN [n \in 1..Cardinality(mine) |-> (CHOOSE m \in mine : m.ply = n).move]
        ELSE << >>

\* Slip: the endpoint of the row is taken as it is.
SoundMoves(row, moves) == moves # << >> /\ Endpoint(moves) # NoPosition

Sound(row, moves) ==
  /\ moves # << >>
  /\ Endpoint(moves) = row.endpoint

Sane(rows, moves) ==
  /\ \A id \in DOMAIN rows : Sound(rows[id], MovesOf(id, moves))
  /\ \A m \in moves : m.route \in DOMAIN rows

\* Slip: one route for each label.
MaterializedByLabel(rows, moves) ==
  {[label |-> rows[id].label, moves |-> MovesOf(id, moves)] :
     id \in {k \in DOMAIN rows : \A j \in 1..(k - 1) : rows[j].label # rows[k].label}}

Materialized(rows, moves) ==
  {[label |-> rows[id].label, moves |-> MovesOf(id, moves)] : id \in DOMAIN rows}

-----------------------------------------------------------------------------

(***************************************************************************)
(* Recognition.  Evidence is a set of [ply, label, match], with one match  *)
(* for a label at a ply: "route" when there is one.                        *)
(***************************************************************************)

EndingAt(p, routes) == {r \in routes : Endpoint(r.moves) = p}

NoOpening == [ply |-> 0, label |-> 0, match |-> "none"]

\* Slip: the smallest label, however early.
CurrentSmallest(evidence) ==
  IF evidence = {} THEN NoOpening
  ELSE CHOOSE e \in evidence : \A x \in evidence : e.label <= x.label

\* Slip: the deepest label by name alone.
CurrentByName(evidence) ==
  IF evidence = {} THEN NoOpening
  ELSE LET deepest == {e \in evidence : \A x \in evidence : x.ply <= e.ply}
       IN  CHOOSE e \in deepest : \A x \in deepest : e.label <= x.label

\* _select_current: the deepest, a route rather than a transposition, then
\* the smallest label.
Current(evidence) ==
  IF evidence = {} THEN NoOpening
  ELSE LET deepest == {e \in evidence : \A x \in evidence : x.ply <= e.ply}
           exact == {e \in deepest : e.match = "route"}
           best == IF exact # {} THEN exact ELSE deepest
       IN  CHOOSE e \in best : \A x \in best : e.label <= x.label

\* replay_pgn.
ReplayEvidence(game, routes) ==
  LET at == Along(game)
      reached(n) == {r \in routes : Endpoint(r.moves) = at[n]}
  IN  UNION {{[ply |-> n, label |-> r.label,
               match |-> IF \E x \in reached(n) : x.label = r.label /\ x.moves = SubSeq(game, 1, n)
                           THEN "route" ELSE "transposition"] : r \in reached(n)} :
             n \in DOMAIN game}

\* lookup_fen: the labels met along every route that ends at p.
LookupEvidence(p, routes) ==
  UNION {UNION {{[ply |-> n, label |-> x.label, match |-> "transposition"] :
                   x \in EndingAt(Along(r.moves)[n], routes)} : n \in DOMAIN r.moves} :
         r \in EndingAt(p, routes)}

-----------------------------------------------------------------------------

(***************************************************************************)
(* The catalogue pages.                                                    *)
(***************************************************************************)

\* The join of game positions, routes and openings, one row per occurrence.
Usage(t) ==
  UNION {{[game |-> g, ply |-> n, id |-> id, label |-> t.labels[id]] :
            n \in {k \in DOMAIN Games[g] : \E x \in DOMAIN t.routes :
                     /\ t.routes[x].label = t.labels[id]
                     /\ t.routes[x].endpoint = Along(Games[g])[k]}} :
         g \in DOMAIN Games, id \in DOMAIN t.labels}

\* An empty name, or an occurrence of an opening that the first SELECT did
\* not have, is a malformed row.
Readable(labels, usage) ==
  /\ ToSet(labels) \cap Unnamed = {}
  /\ \A u \in usage : u.id \in DOMAIN labels /\ labels[u.id] = u.label

GamesReached(label, usage) == {u.game : u \in {x \in usage : x.label = label}}

\* Slip: the first opening of a game counts.
FirstOf(game, usage) ==
  LET mine == {u \in usage : u.game = game}
      first == {u \in mine : \A x \in mine : x.ply >= u.ply}
  IN  CHOOSE l \in {u.label : u \in first} : \A u \in first : l <= u.label

\* The opening a game counts for as its deepest.
DeepestOf(game, usage) ==
  LET mine == {u \in usage : u.game = game}
      deepest == {u \in mine : \A x \in mine : x.ply <= u.ply}
  IN  CHOOSE l \in {u.label : u \in deepest} : \A u \in deepest : l <= u.label

Entries(labels, routes, usage) ==
  {[label |-> l,
    route_count |-> Cardinality({id \in DOMAIN routes : routes[id].label = l}),
    games_reached |-> Cardinality(GamesReached(l, usage)),
    games_deepest |-> Cardinality({g \in {u.game : u \in usage} : DeepestOf(g, usage) = l})] :
   l \in ToSet(labels)}

Sorts == {"eco", "name", "route_count", "games_reached", "games_deepest"} \X {"asc", "desc"}

Value(e, sort) ==
  CASE sort = "eco" -> EcoOf[e.label]
    [] sort = "name" -> NameOf[e.label]
    [] sort = "route_count" -> e.route_count
    [] sort = "games_reached" -> e.games_reached
    [] sort = "games_deepest" -> e.games_deepest

\* Slip: the direction turns the order of the keys around as well.
ReversedBefore(a, b, sort) ==
  LET x == Value(a, sort[1])
      y == Value(b, sort[1])
      up == x < y \/ (x = y /\ a.label < b.label)
  IN  IF sort[2] = "asc" THEN up ELSE ~up /\ a # b

\* _compare: by the value, then by the key, which is always ascending.
EntryBefore(a, b, sort) ==
  LET x == Value(a, sort[1])
      y == Value(b, sort[1])
  IN  IF x = y THEN a.label < b.label
      ELSE IF sort[2] = "asc" THEN x < y ELSE x > y

\* _matches: the ECO is from eco_from to eco_to, and the text searched for is found.
Matches(e, from, to, found) ==
  from <= EcoOf[e.label] /\ EcoOf[e.label] <= to /\ e.label \in found

Ordered(entries, from, to, found, sort) ==
  CHOOSE q \in SetToSeqs({e \in entries : Matches(e, from, to, found)}) :
    \A i, j \in DOMAIN q : i < j => EntryBefore(q[i], q[j], sort)

TotalPages(n, size) == (n + size - 1) \div size

Page(ordered, page, size) ==
  [items |-> SubSeq(ordered, (page - 1) * size + 1, Min({page * size, Len(ordered)})),
   has_next |-> page < TotalPages(Len(ordered), size)]

-----------------------------------------------------------------------------

Idle == [pc |-> "idle", first |-> << >>, routes |-> << >>, whole |-> TRUE]

Nothing == [kind |-> "none", routes |-> {}, entries |-> {}, whole |-> TRUE, source |-> {}]

\* Slip: what was there is not deleted.
ReplaceAdds(s) ==
  /\ s # source
  /\ source' = s
  /\ tables' = Tables(s \cup source)
  /\ reader' = [r \in Readers |-> [reader[r] EXCEPT !.whole = FALSE]]
  /\ UNCHANGED answer

\* replace: one transaction; readers that are between their SELECTs notice.
Replace(s) ==
  /\ s # source
  /\ Verified(s, Tables(s))
  /\ source' = s
  /\ tables' = Tables(s)
  /\ reader' = [r \in Readers |-> [reader[r] EXCEPT !.whole = FALSE]]
  /\ UNCHANGED answer

\* The first SELECT of recognition, or of the pages.
ReadFirst(r, pc) ==
  /\ reader[r].pc = "idle"
  /\ reader' = [reader EXCEPT ![r] =
       [pc |-> pc, first |-> IF pc = "routes" THEN tables.routes ELSE tables.labels,
        routes |-> tables.routes, whole |-> TRUE]]
  /\ UNCHANGED <<source, tables, answer>>

\* The second SELECT of recognition, and what is made of the two.
ReadMoves(r) ==
  LET rows == reader[r].first
  IN  /\ reader[r].pc = "routes"
      /\ answer' = [answer EXCEPT ![r] =
           IF Sane(rows, tables.moves)
             THEN [Nothing EXCEPT !.kind = "routes", !.routes = Materialized(rows, tables.moves),
                                  !.whole = reader[r].whole, !.source = source]
             ELSE [Nothing EXCEPT !.kind = "error", !.whole = reader[r].whole, !.source = source]]
      /\ reader' = [reader EXCEPT ![r] = Idle]
      /\ UNCHANGED <<source, tables>>

\* The second SELECT of the pages.
ReadUsage(r) ==
  LET labels == reader[r].first
      usage == Usage(tables)
  IN  /\ reader[r].pc = "labels"
      /\ answer' = [answer EXCEPT ![r] =
           IF Readable(labels, usage)
             THEN [Nothing EXCEPT !.kind = "entries",
                                  !.entries = Entries(labels, reader[r].routes, usage),
                                  !.whole = reader[r].whole, !.source = source]
             ELSE [Nothing EXCEPT !.kind = "error", !.whole = reader[r].whole, !.source = source]]
      /\ reader' = [reader EXCEPT ![r] = Idle]
      /\ UNCHANGED <<source, tables>>

Init ==
  /\ source \in Sources
  /\ tables = Tables(source)
  /\ reader = [r \in Readers |-> Idle]
  /\ answer = [r \in Readers |-> Nothing]

Next ==
  \/ \E s \in Sources : Replace(s)
  \/ \E r \in Readers : \/ ReadFirst(r, "routes") \/ ReadFirst(r, "labels")
                        \/ ReadMoves(r) \/ ReadUsage(r)

Spec == Init /\ [][Next]_vars

-----------------------------------------------------------------------------

TypeOK ==
  /\ source \in Sources
  /\ tables = Tables(source)
  /\ \A r \in Readers :
       /\ reader[r].pc \in {"idle", "routes", "labels"}
       /\ answer[r].kind \in {"none", "routes", "entries", "error"}

\* Recognition works only with routes that can be played and end where the
\* catalogue says, even when its two reads straddle a replacement.
RoutesReplay ==
  \A r \in Readers :
    /\ \A x \in answer[r].routes : Endpoint(x.moves) # NoPosition
    /\ \A x \in answer[r].routes :
         \E s \in Sources : \E y \in s :
           y.label = x.label /\ Endpoint(y.moves) = Endpoint(x.moves)

\* A reading that no replacement came into is exact, for the pages unless a
\* name is empty, and an error says that one did.
UndisturbedIsExact ==
  \A r \in Readers :
    answer[r].whole =>
      CASE answer[r].kind = "routes" -> answer[r].routes = answer[r].source
        [] answer[r].kind = "entries" ->
             {e.label : e \in answer[r].entries} = {x.label : x \in answer[r].source}
        [] answer[r].kind = "error" -> \E x \in answer[r].source : x.label \in Unnamed
        [] OTHER -> TRUE

\* What has been published can be browsed.
PublishedIsBrowsed ==
  \A r \in Readers : answer[r].kind = "error" => ~answer[r].whole

\* A position is recognized when a route ends there, and under the smallest of
\* the labels of such routes, although the evidence is gathered along all of
\* them, which differ in length and pass through other openings.
LookupNamesThePosition ==
  \A r \in Readers :
    answer[r].kind = "routes" =>
      LET routes == answer[r].routes
      IN  \A p \in {Endpoint(x.moves) : x \in routes} \cup {Start} :
            LET here == {x.label : x \in EndingAt(p, routes)}
                found == Current(LookupEvidence(p, routes))
            IN  IF here = {} THEN found = NoOpening
                ELSE found.label \in here /\ \A l \in here : found.label <= l

\* Replaying a game names the opening it left last: nothing later is reached,
\* an exact route wins over a transposition, and what was recognized so far
\* does not depend on the moves to come.
ReplayNamesTheLast ==
  \A r \in Readers, g \in DOMAIN Games :
    answer[r].kind = "routes" =>
      LET routes == answer[r].routes
          game == Games[g]
          found == Current(ReplayEvidence(game, routes))
          plies == {n \in DOMAIN game : EndingAt(Along(game)[n], routes) # {}}
          exact(n) == {x.label : x \in {y \in routes : y.moves = SubSeq(game, 1, n)}}
      IN  /\ (plies = {}) = (found = NoOpening)
          /\ plies # {} =>
               /\ found.ply = Max(plies)
               /\ IF exact(found.ply) # {} THEN found.label = Min(exact(found.ply))
                  ELSE found.label = Min({x.label : x \in EndingAt(Along(game)[found.ply], routes)})
          /\ \A n \in DOMAIN game :
               ReplayEvidence(SubSeq(game, 1, n), routes)
                 = {e \in ReplayEvidence(game, routes) : e.ply <= n}

\* Every game that reached an opening counts as deepest for exactly one of
\* those that end where it was last in one.
DeepestCountsOnce ==
  \A r \in Readers :
    answer[r].kind = "entries" /\ answer[r].whole =>
      LET plies(g) == {n \in DOMAIN Games[g] : EndingAt(Along(Games[g])[n], answer[r].source) # {}}
          reaching == {g \in DOMAIN Games : plies(g) # {}}
          last(g) == {x.label : x \in EndingAt(Along(Games[g])[Max(plies(g))], answer[r].source)}
          counted == UNION {{e} \X (1..e.games_deepest) : e \in answer[r].entries}
      IN  /\ Cardinality(counted) = Cardinality(reaching)
          /\ \A e \in answer[r].entries :
               /\ e.games_deepest <= e.games_reached
               /\ e.games_deepest <= Cardinality({g \in reaching : e.label \in last(g)})

\* Whatever the order, the range and the text searched for, the pages show every
\* entry that matches exactly once, and has_next leads through all of them and no
\* further.
PagesCoverOnce ==
  \A r \in Readers :
    answer[r].kind = "entries" =>
      \A sort \in Sorts, from, to \in {EcoOf[l] : l \in Labels}, found \in Texts, size \in PageSizes :
        LET ordered == Ordered(answer[r].entries, from, to, found, sort)
            chosen == {e \in answer[r].entries : Matches(e, from, to, found)}
            pages == TotalPages(Len(ordered), size)
            shown(p) == Page(ordered, p, size).items
            places == UNION {{p} \X DOMAIN shown(p) : p \in 1..pages}
            entry(x) == shown(x[1])[x[2]]
            sooner(x, y) == x[1] < y[1] \/ (x[1] = y[1] /\ x[2] < y[2])
        IN  /\ {entry(x) : x \in places} = chosen
            /\ \A p \in 1..(pages + 1) : Page(ordered, p, size).has_next <=> p < pages
            /\ \A p \in 1..pages : p < pages => Len(shown(p)) = size
            /\ \A x, y \in places :
                 sooner(x, y) =>
                   LET a == Value(entry(x), sort[1])
                       b == Value(entry(y), sort[1])
                   IN  /\ entry(x) # entry(y) /\ IF sort[2] = "asc" THEN a <= b ELSE a >= b
                       /\ a = b => entry(x).label < entry(y).label

\* What recognition and the pages promise.
Right ==
  /\ TypeOK
  /\ RoutesReplay
  /\ UndisturbedIsExact
  /\ LookupNamesThePosition
  /\ ReplayNamesTheLast
  /\ DeepestCountsOnce
  /\ PagesCoverOnce

=============================================================================
