----------------------------- MODULE BulkTargets -----------------------------
(***************************************************************************)
(* The targets of a bulk launch (BulkTargetSelector.iter_targets): game    *)
(* positions by falling frequency, read page by page behind a cursor, then *)
(* the positions of opening routes that no page has shown.  Each page and  *)
(* each eligibility check is a connection of its own; games are imported   *)
(* and results published between them.  The initial preset                 *)
(* (InitialAnalysisTargetSelector) takes its common positions from the     *)
(* same iteration, eligible or not, and serves them and the technical ones *)
(* afterwards.                                                             *)
(***************************************************************************)
EXTENDS Integers, FiniteSets, Sequences, SequencesExt

CONSTANTS
  Ids,          \* position ids, a set of numbers
  Games,        \* games that are imported or corrected meanwhile
  Variants,     \* what a game can be: sequences of positions by ply
  Routes,       \* opening routes: sequences of the positions they reach
  Start,        \* the initial position, which every route visits
  MaxPly,       \* TARGET_MAX_PLY
  PageSize,
  Technical,    \* INITIAL_TECHNICAL_POSITIONS
  CommonCount,  \* INITIAL_COMMON_TARGET_COUNT
  Limits,       \* the limits a launch may be given, or NoLimit
  NoLimit,
  MaxImports    \* bound on imports and corrections

ASSUME TargetAssumption ==
  /\ Ids \subseteq Nat \ {0} /\ IsFiniteSet(Ids) /\ IsFiniteSet(Games)
  /\ Start \in Ids
  /\ Variants \cup Routes \subseteq Seq(Ids) \ {<< >>}
  /\ PageSize \in Nat \ {0} /\ CommonCount \in Nat \ {0}
  /\ Technical \in Seq(Ids)
  /\ Limits \subseteq (Nat \ {0}) \cup {NoLimit} /\ NoLimit \in Limits
  /\ MaxPly \in Nat /\ MaxImports \in Nat

VARIABLES
  game,       \* game[g]: the stored occurrences of game g, << >> before its import
  results,    \* positions whose result makes them ineligible
  at,
  preset,     \* whether the initial preset runs
  limit,      \* the limit of this launch, or NoLimit
  page,       \* what is left of the page in hand
  cursor,     \* the last target of the last page
  shown,      \* game_position_ids
  routes,     \* what is left of route_only
  common,     \* the common positions of the initial preset
  serving,    \* what is left of (*common, *technical)
  yielded,    \* how many targets were yielded
  rose, fell, \* positions whose frequency went up or down during the iteration
  failed,     \* targets the consumer got no result for
  imports

table == <<game, results>>
iteration == <<at, preset, limit, page, cursor, shown, routes, common, serving, yielded>>
history == <<rose, fell, failed, imports>>
targeting == <<table, iteration, history>>

-----------------------------------------------------------------------------

NoTarget == [position |-> 0, frequency |-> 0]

\* game_counts: occurrences up to ply MaxPly (index 1 is ply 0).
Frequency(games, p) ==
  Cardinality({o \in Games \X (1 .. MaxPly + 1) :
                 o[2] \in DOMAIN games[o[1]] /\ games[o[1]][o[2]] = p})

Held(games) == {p \in Ids : Frequency(games, p) > 0}

Targets(games) ==
  {[position |-> p, frequency |-> Frequency(games, p)] : p \in Held(games)}

\* ORDER BY occurrence_count DESC, position_id ASC.
Before(a, b) ==
  \/ a.frequency > b.frequency
  \/ a.frequency = b.frequency /\ a.position < b.position

Sorted(targets) ==
  CHOOSE s \in SetToSeqs(targets) : \A i, j \in DOMAIN s : i < j => Before(s[i], s[j])

FirstOf(targets) ==
  LET all == Sorted(targets)
  IN  SubSeq(all, 1, IF Len(all) < PageSize THEN Len(all) ELSE PageSize)

\* Slip: the cursor's own target is read again.
PageAgain(games, last) ==
  FirstOf({t \in Targets(games) : last = NoTarget \/ ~Before(t, last)})

\* Slip: of the targets as frequent as the cursor's, none is read any more.
PageBelow(games, last) ==
  FirstOf({t \in Targets(games) : last = NoTarget \/ t.frequency < last.frequency})

\* _load_game_page: the first PageSize targets behind the cursor.
Page(games, last) ==
  FirstOf({t \in Targets(games) : last = NoTarget \/ Before(last, t)})

\* _replay_route_positions: the start, and what is reached up to ply MaxPly.
RoutePositions ==
  UNION {{Start} \cup {r[i] : i \in DOMAIN r \cap (1 .. MaxPly)} : r \in Routes}

\* The positions in the order of their ids.
ById(ids) ==
  CHOOSE s \in SetToSeqs(ids) : \A i, j \in DOMAIN s : i < j => s[i] < s[j]

\* Slip: positions the pages have shown are offered once more.
RouteOnlyAll(ids) == ById(RoutePositions)

RouteOnly(ids) == ById(RoutePositions \ ids)

Eligible(p) == p \notin results

\* Slip: the limit is noticed one target late.
LimitReachedLate(n) == limit # NoLimit /\ n > limit

LimitReached(n) == limit # NoLimit /\ n >= limit

-----------------------------------------------------------------------------

\* The initial preset takes no limit.
Begin(initial, most) ==
  /\ at = "off"
  /\ initial => most = NoLimit
  /\ at' = "load"
  /\ preset' = initial /\ limit' = most
  /\ cursor' = NoTarget /\ shown' = {} /\ yielded' = 0
  /\ page' = << >> /\ routes' = << >> /\ common' = << >> /\ serving' = << >>
  /\ rose' = {} /\ fell' = {} /\ failed' = {}
  /\ UNCHANGED <<table, imports>>

LoadPage ==
  /\ at = "load"
  /\ page' = Page(game, cursor)
  /\ IF page' = << >>
       THEN /\ at' = "routes"
            /\ routes' = RouteOnly(shown)
            /\ UNCHANGED cursor
       ELSE /\ at' = "page"
            /\ cursor' = Last(page')
            /\ UNCHANGED routes
  /\ UNCHANGED <<table, preset, limit, shown, common, serving, yielded, history>>

\* The consumer publishes a result for the target it was given, or fails; the
\* generator goes on, or returns at the limit.
Consume(p, then) ==
  /\ \/ results' = results \cup {p} /\ UNCHANGED failed
     \/ failed' = failed \cup {p} /\ UNCHANGED results
  /\ yielded' = yielded + 1
  /\ at' = IF LimitReached(yielded') THEN "end" ELSE then
  /\ UNCHANGED <<game, rose, fell, imports>>

Skip(then) ==
  /\ at' = then
  /\ UNCHANGED <<table, yielded, history>>

Offer(p, then) ==
  /\ ~preset
  /\ IF Eligible(p) THEN Consume(p, then) ELSE Skip(then)
  /\ UNCHANGED <<common, serving>>

\* Slip: technical positions count as common ones.
CollectTechnical(p, then) ==
  /\ preset
  /\ common' = Append(common, p)
  /\ IF Len(common') = CommonCount
       THEN Skip("serve") /\ serving' = common' \o Technical
       ELSE Skip(then) /\ UNCHANGED serving

Collect(p, then) ==
  /\ preset
  /\ common' = IF p \in ToSet(Technical) THEN common ELSE Append(common, p)
  /\ IF Len(common') = CommonCount
       THEN Skip("serve") /\ serving' = common' \o Technical
       ELSE Skip(then) /\ UNCHANGED serving

PageTarget ==
  /\ at = "page"
  /\ LET p == Head(page).position
         then == IF Len(page) = 1 THEN "load" ELSE "page"
     IN  /\ shown' = shown \cup {p}
         /\ Offer(p, then) \/ Collect(p, then)
  /\ page' = Tail(page)
  /\ UNCHANGED <<preset, limit, cursor, routes>>

RouteTarget ==
  /\ at = "routes"
  /\ routes # << >>
  /\ Offer(Head(routes), "routes") \/ Collect(Head(routes), "routes")
  /\ routes' = Tail(routes)
  /\ UNCHANGED <<preset, limit, page, cursor, shown>>

\* Too few common positions end the initial preset before it serves any.
Exhausted ==
  /\ at = "routes"
  /\ routes = << >>
  /\ at' = IF preset THEN "error" ELSE "end"
  /\ UNCHANGED <<table, preset, limit, page, cursor, shown, routes, common, serving, yielded, history>>

Serve ==
  /\ at = "serve"
  /\ serving # << >>
  /\ IF Eligible(Head(serving)) THEN Consume(Head(serving), "serve") ELSE Skip("serve")
  /\ serving' = Tail(serving)
  /\ UNCHANGED <<preset, limit, page, cursor, shown, routes, common>>

Served ==
  /\ at = "serve"
  /\ serving = << >>
  /\ at' = "end"
  /\ UNCHANGED <<table, preset, limit, page, cursor, shown, routes, common, serving, yielded, history>>

End ==
  /\ at \in {"end", "error"}
  /\ at' = "off"
  /\ UNCHANGED <<table, preset, limit, page, cursor, shown, routes, common, serving, yielded, history>>

\* A game is imported, or corrected: its occurrences are replaced at once.
ImportGame(g, v) ==
  /\ imports < MaxImports
  /\ imports' = imports + 1
  /\ game' = [game EXCEPT ![g] = v]
  /\ rose' = rose \cup {p \in Ids : Frequency(game', p) > Frequency(game, p)}
  /\ fell' = fell \cup {p \in Ids : Frequency(game', p) < Frequency(game, p)}
  /\ UNCHANGED <<results, failed, iteration>>

\* A worker launch of another process stores a result.
StoreResult(p) ==
  /\ results' = results \cup {p}
  /\ UNCHANGED <<game, iteration, history>>

TargetInit ==
  /\ game \in [Games -> Variants \cup {<< >>}]
  /\ results = {}
  /\ at = "off" /\ preset = FALSE /\ limit = NoLimit /\ page = << >> /\ cursor = NoTarget /\ shown = {}
  /\ routes = << >> /\ common = << >> /\ serving = << >> /\ yielded = 0
  /\ rose = {} /\ fell = {} /\ failed = {} /\ imports = 0

Iterate == LoadPage \/ PageTarget \/ RouteTarget \/ Exhausted \/ Serve \/ Served \/ End

TargetNext ==
  \/ \E initial \in BOOLEAN, most \in Limits : Begin(initial, most)
  \/ Iterate
  \/ \E g \in Games, v \in Variants : ImportGame(g, v)
  \/ \E p \in Ids : StoreResult(p)

TargetSpec == TargetInit /\ [][TargetNext]_targeting

\* The launch runs its iteration through.
FairTargetSpec == TargetSpec /\ WF_targeting(Iterate)

-----------------------------------------------------------------------------

TargetTypeOK ==
  /\ game \in [Games -> Variants \cup {<< >>}]
  /\ results \cup shown \cup rose \cup fell \cup failed \subseteq Ids
  /\ at \in {"off", "load", "page", "routes", "serve", "end", "error"}
  /\ at = "page" => Len(page) \in 1 .. PageSize
  /\ cursor \in {NoTarget} \cup [position : Ids, frequency : Nat \ {0}]
  /\ ToSet(routes) \subseteq RoutePositions
  /\ Len(common) <= CommonCount
  /\ limit \in Limits /\ (limit # NoLimit => yielded <= limit)

\* When a launch without a limit has run through, every position of a game and
\* every position of a route has its result, unless its analysis failed or games
\* made it more frequent behind the cursor's back (targets.py:145, 148).
EndMeansDone ==
  at = "end" /\ ~preset /\ limit = NoLimit =>
    (Held(game) \cup RoutePositions) \ results \subseteq rose \cup failed

\* A launch offers no position twice, unless a correction made it rarer meanwhile
\* (targets.py:138, 152).
RepeatedOnlyByFalling ==
  [][/\ (at = "page" /\ page # page') =>
          (Head(page).position \in shown => Head(page).position \in fell)
     /\ (at = "routes" /\ routes # routes') => Head(routes) \notin shown]_targeting

\* The initial preset serves CommonCount common positions, no two the same unless
\* a correction made one rarer, and no technical one among them (targets.py:327).
InitialMixture ==
  at = "serve" =>
    /\ Len(common) = CommonCount
    /\ ToSet(common) \cap ToSet(Technical) = {}
    /\ \A i, j \in DOMAIN common :
         i < j /\ common[i] = common[j] => common[i] \in fell

\* The initial preset fails only when there are too few positions: games and
\* routes hold fewer common ones than it needs, but for those that rose (333).
ErrorMeansTooFew ==
  at = "error" =>
    Cardinality((Held(game) \cup RoutePositions) \ (ToSet(Technical) \cup rose)) < CommonCount

\* What a bulk launch offers, whatever is imported between two pages: when it has
\* run through, every position of a game or a route has its result, unless its
\* analysis failed or it rose behind the cursor (targets.py:145); the initial preset
\* serves CommonCount common positions, distinct unless one fell, and fails only
\* when there are too few (targets.py:327).
TargetsAreRight == TargetTypeOK /\ EndMeansDone /\ InitialMixture /\ ErrorMeansTooFew

\* An iteration ends, whatever is imported meanwhile (targets.py:133).
IterationEnds == (at # "off") ~> (at = "off")
=============================================================================
