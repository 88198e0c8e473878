-------------------------------- MODULE MCReads --------------------------------
(* A finite instance of what is read by several SELECTs while others write: the *)
(* observation of an analysis (AnalysisObservation), the insight into a         *)
(* position, the search for games and the catalogue of openings (Reads), the    *)
(* search with few queries in a database that changes, and with many in one     *)
(* that does not.                                                               *)
EXTENDS AnalysisObservation, Reads, FiniteSets, TLC

VARIABLE part   \* whose behaviour it is

-----------------------------------------------------------------------------
(* PositionInsight: games that repeat a position, end in it, leave it by        *)
(* different moves or are played with the other colour.                         *)

MCPlayed(color, line) == [color |-> color, line |-> line]

MCPlays == << {MCPlayed("white", <<1, 2, 1, 3>>), MCPlayed("white", <<1, 2>>)},
              {MCPlayed("white", <<1, 2, 1>>), MCPlayed("black", <<1, 3>>)},
              {MCPlayed("black", <<1, 2, 1>>)} >>

MCEndings == {<<"opening">>, [p \in {2} |-> "other"]}

-----------------------------------------------------------------------------
(* GameSearch. *)

MCGame(started, rating, class, line) == [started |-> started, rating |-> rating, class |-> class, line |-> line]

\* Games 1 to 3 are corrected: other fields and another line.  Of games 4 to 7 one
\* repeats a position, one has neither timestamp nor rating and two agree in both.
MCVersions ==
  << {MCGame(5, 2, 1, <<0, 1>>), MCGame(4, 1, 1, <<0, 2>>)},
     {MCGame(6, None, 1, <<0, 2, 0>>)}, {MCGame(None, 1, 1, <<0>>)},
     {MCGame(5, 2, 1, <<0, 1, 2, 0>>)}, {MCGame(None, None, 2, <<0, 2>>)},
     {MCGame(5, 2, 2, <<0, 1, 3>>)}, {MCGame(6, 1, 1, <<0>>)} >>

MCFewRoutes == {{<<1, 1>>}, {<<0, 1>>, <<2, 2>>}}
MCManyRoutes == {<<0, 1>>, <<1, 1>>, <<1, 2>>, <<0, 3>>}
MCRoutes == MCFewRoutes \cup {MCManyRoutes}

MCLegal == {<<0, 1>>, <<1, 2>>, <<2, 0>>, <<1, 3>>, <<0, 2>>}

MCAll ==
  [page |-> 1, pageSize |-> 2, sort |-> "game_uuid", descending |-> FALSE, from |-> None, to |-> None, min |-> None,
   max |-> None, class |-> None, opening |-> None, match |-> None, contains |-> None, movePosition |-> None, move |-> None,
   shortest |-> None, longest |-> None, analysis |-> None, preferred |-> None]

MCFew ==
  {[MCAll EXCEPT !.pageSize = 1, !.sort = "started_at", !.descending = TRUE],
   [MCAll EXCEPT !.pageSize = 1, !.analysis = "none"],
   [MCAll EXCEPT !.opening = 1, !.match = "deepest"]}

MCStates == {None, "none", "partial", "complete"}

MCMany ==
  {[MCAll EXCEPT !.sort = s, !.descending = d, !.pageSize = n] :
     s \in {"started_at", "length", "rating", "game_uuid"}, d \in BOOLEAN, n \in {0, 1, 2, 101}}
  \cup {[MCAll EXCEPT !.from = f, !.to = t] : f, t \in {None, 5, 6}}
  \cup {[MCAll EXCEPT !.min = f, !.max = t] : f, t \in {None, 1, 2}}
  \cup {[MCAll EXCEPT !.opening = k, !.match = m] : k \in {None, 1, 2, 3, 4}, m \in {None, "reached", "deepest"}}
  \cup {[MCAll EXCEPT !.contains = p, !.class = k] : p \in {None, 0, 1, 2}, k \in {None, 1}}
  \cup {[MCAll EXCEPT !.movePosition = p, !.move = m] : p, m \in {None, 0, 2}}
  \cup {[MCAll EXCEPT !.shortest = f, !.longest = t] : f, t \in {None, 0, 1, 2}}
  \cup {[MCAll EXCEPT !.analysis = s, !.preferred = p] : s, p \in MCStates}

MCQueries == MCFew \cup MCMany

MCBegins ==
  {[known |-> k, results |-> {}, preferred |-> {}] : k \in SUBSET {1, 2, 3}}
  \cup {[known |-> {4, 5, 6, 7}, results |-> r, preferred |-> p] : r, p \in {{}, {0}, {0, 1, 2}}}

-----------------------------------------------------------------------------
(* OpeningCatalogue. *)

\* White has the moves 1 and 2, Black 3 and 4, each of them once; a position is the
\* set of the moves made, so that their order does not matter.
MCLeads ==
  [pm \in {x \in (SUBSET (1..4)) \X (1..4) :
             /\ x[2] \notin x[1]
             /\ x[2] \in IF Cardinality(x[1]) % 2 = 0 THEN {1, 2} ELSE {3, 4}} |->
     pm[1] \cup {pm[2]}]

MCRoute(label, moves) == [label |-> label, moves |-> moves]

MCSources ==
  {{MCRoute(1, <<1>>), MCRoute(2, <<1, 3, 2>>), MCRoute(3, <<2, 3, 1>>), MCRoute(2, <<2, 4, 1, 3>>)},
   {MCRoute(1, <<1>>), MCRoute(2, <<2, 3, 1>>), MCRoute(3, <<1, 3, 2>>), MCRoute(2, <<1, 3, 2, 4>>)},
   {MCRoute(1, <<2, 3, 1>>), MCRoute(3, <<2>>), MCRoute(4, <<1, 3, 2, 4>>)},
   {MCRoute(3, <<1, 3>>), MCRoute(3, <<1, 3, 2>>), MCRoute(4, <<1, 3, 2>>)},
   {MCRoute(2, <<1, 3, 2>>), MCRoute(1, <<2, 3, 1>>), MCRoute(3, <<1, 4>>)}}

\* Two openings of one ECO; the order of the names is not that of the ECOs; a text
\* that every opening, the last two or one of them contains.
MCEcoOf == <<1, 1, 2, 3>>
MCNameOf == <<1, 3, 2, 0>>
MCTexts == {1..4, {2, 3}, {1}}

MCScores == <<<<1, 3, 2, 4>>, <<2, 3, 1, 4>>, <<2, 4, 1>>, <<1, 4>>>>

-----------------------------------------------------------------------------

MCInit ==
  /\ Init /\ ReadsInit
  /\ \/ part \in {"observation", "insight", "catalogue"} /\ games = << >> /\ routes = MCManyRoutes
     \/ part = "changing" /\ DOMAIN games \subseteq {1, 2, 3} /\ routes \in MCFewRoutes
     \/ part = "still" /\ 4 \in DOMAIN games /\ routes = MCManyRoutes
  /\ asked = CASE part \in {"changing", "still"} -> "search"
               [] part = "catalogue" -> "catalogue"
               [] OTHER -> "insight"
  /\ part # "observation" => results = [p \in Positions |-> Q!NoResult]
  /\ part # "insight" => endings = CHOOSE t \in MCEndings : TRUE
  /\ part # "catalogue" => source = CHOOSE s \in MCSources : TRUE

Pages == Search!AskNext \/ Search!Read \/ Search!GetGame

\* A database that changes has the first three games and few queries.
InChanging ==
  \/ \E u \in {1, 2, 3} : \E v \in Versions[u] : Search!Import(u, v)
  \/ \E table \in MCFewRoutes : Search!Publish(table)
  \/ \E p \in Places : Search!StoreResult(p) \/ Search!EditPreferred(p)
  \/ \E q \in MCFew : Search!Ask(q)
  \/ Pages

InStill == (\E q \in MCMany : Search!Ask(q)) \/ Pages

\* A part takes steps of ReadsNext.
MCNext ==
  \/ part = "observation" /\ Next /\ UNCHANGED <<part, reads>>
  \/ part = "insight" /\ Insight!Next /\ UNCHANGED <<part, asked, vars, searchVars, openings>>
  \/ part = "changing" /\ InChanging /\ UNCHANGED <<part, asked, vars, insightVars, openings>>
  \/ part = "still" /\ InStill /\ UNCHANGED <<part, asked, vars, insightVars, openings>>
  \/ part = "catalogue" /\ Catalogue!Next /\ UNCHANGED <<part, asked, vars, insightVars, searchVars>>

MCSpec == MCInit /\ [][MCNext]_<<part, vars, reads>>

\* Tokens and readers are interchangeable.
Symmetry == Permutations(Tokens) \cup Permutations(Readers)

===============================================================================
