------------------------ MODULE PreferredMoveInference ------------------------
(***************************************************************************)
(* The inference of preferred moves from the moves the trainer played      *)
(* (preferred_moves/inference.py).  For one position, played[d][m] says    *)
(* how often move m was played on day d; infer_preferred_moves treats the  *)
(* positions apart.  Games are imported in any order and any number of     *)
(* times between two inferences, so the state is what has been played and  *)
(* a step plays one move on one day, early or late.                        *)
(*                                                                         *)
(* Window and MinimumMatches stand for the 90 days and the 21 matches of   *)
(* the code.                                                               *)
(***************************************************************************)
EXTENDS PreferredMoveSchedule

CONSTANTS
  Window,          \* QUALIFICATION_WINDOW_DAYS
  MinimumMatches,  \* MINIMUM_MATCHES
  UciOrder,        \* the moves in the order of their UCI strings
  MaxPlayed        \* bound: how often the position is played in all

InferenceAssumption ==
  /\ Window \in Nat \ {0}
  /\ MinimumMatches \in Nat \ {0}
  /\ ToSet(UciOrder) = Moves /\ Len(UciOrder) = Cardinality(Moves)

VARIABLE played

-----------------------------------------------------------------------------
(* Evidence. *)

\* Slip: the window is closed at both ends.
DaysClosed(from, until) == {d \in Day : from <= d /\ d <= until}

Days(from, until) == {d \in Day : from <= d /\ d < until}

Uses(o, m, from, until) == MapThenSumSet(LAMBDA d : o[d][m], Days(from, until))

PlayedOn(o, d) == \E m \in Moves : o[d][m] > 0

Total(o, from, until) == MapThenSumSet(LAMBDA m : Uses(o, m, from, until), Moves)

\* Move m has the matches and the share that qualify it in the window of day s.
Frequent(o, m, s) ==
  LET matching == Uses(o, m, s, s + Window)
  IN matching >= MinimumMatches /\ matching * 5 >= Total(o, s, s + Window) * 4

\* Slip: a move becomes a candidate on the first day of its window.
CandidateFromWindow(o, m, s) == s

\* The first day of the window on which m was played.
CandidateFrom(o, m, s) == Min({d \in Days(s, s + Window) : o[d][m] > 0})

\* Every day with a game opens a window; evidence is the first day of it.
Qualifications(o) ==
  {[evidence |-> s, candidate |-> CandidateFrom(o, m, s), move |-> m] :
     <<s, m>> \in {x \in Day \X Moves : PlayedOn(o, x[1]) /\ Frequent(o, x[2], x[1])}}

OverlapFrom(a, b)  == Max({a.evidence, b.evidence})
OverlapUntil(a, b) == Min({a.evidence, b.evidence}) + Window
Overlapping(a, b)  == OverlapFrom(a, b) < OverlapUntil(a, b)

\* Slip: as many uses are as good as more.
OutplaysOrTies(a, b, o) ==
  Overlapping(a, b) =>
    Uses(o, a.move, OverlapFrom(a, b), OverlapUntil(a, b))
      >= Uses(o, b.move, OverlapFrom(a, b), OverlapUntil(a, b))

\* _compare_evidence(a, b) > 0: evidence that does not overlap is replaced,
\* otherwise the more uses in the overlap decide.
Outplays(a, b, o) ==
  Overlapping(a, b) =>
    Uses(o, a.move, OverlapFrom(a, b), OverlapUntil(a, b))
      > Uses(o, b.move, OverlapFrom(a, b), OverlapUntil(a, b))

\* Slip: only evidence of one and the same day conflicts.
ConflictingSameDay(quals) ==
  \E a, b \in quals : a.move # b.move /\ a.evidence = b.evidence

\* _has_conflicting_evidence.
Conflicting(quals) ==
  \E a, b \in quals : a.move # b.move /\ Overlapping(a, b)

-----------------------------------------------------------------------------
(* The schedule. *)

Rank(m) == CHOOSE i \in 1..Len(UciOrder) : UciOrder[i] = m

\* _deduplicate_candidate_signals: of each move the signal of the earliest
\* window, in the order of windows and names.
Signals(quals, day) ==
  LET ofDay == {q \in quals : q.candidate = day}
      first == {q \in ofDay : \A r \in ofDay : r.move = q.move => q.evidence <= r.evidence}
  IN SetToSortSeq(first, LAMBDA a, b :
       \/ a.evidence < b.evidence
       \/ (a.evidence = b.evidence /\ Rank(a.move) < Rank(b.move)))

\* _choose_initial_signal: one that outplays all others, as a set.
Initial(group, o) ==
  {a \in ToSet(group) : \A b \in ToSet(group) \ {a} : Outplays(a, b, o)}

\* The signal of the day for the active move, which else stays as it was.
Incumbent(group, active) ==
  LET same == {q \in ToSet(group) : q.move = active.move}
  IN IF same = {} THEN active ELSE CHOOSE q \in same : TRUE

Challengers(group, incumbent, o) ==
  SelectSeq(group, LAMBDA q : q.move # incumbent.move /\ Outplays(q, incumbent, o))

\* _choose_replacement_signal: each challenger in turn against the best so far.
Replacement(challengers, o) ==
  FoldLeft(LAMBDA best, q : IF Outplays(q, best, o) THEN q ELSE best,
           Head(challengers), Tail(challengers))

\* One candidate day of the loop of _infer_position; active is empty or holds
\* the signal in force.
Decided(acc, day, quals, o) ==
  LET group == Signals(quals, day)
  IN IF acc.active = {}
       THEN [active   |-> Initial(group, o),
             accepted |-> acc.accepted \o
               SetToSeq({[from |-> day, move |-> q.move] : q \in Initial(group, o)})]
       ELSE LET incumbent   == Incumbent(group, CHOOSE q \in acc.active : TRUE)
                challengers == Challengers(group, incumbent, o)
            IN IF challengers = <<>>
                 THEN [acc EXCEPT !.active = {incumbent}]
                 ELSE LET q == Replacement(challengers, o)
                      IN [active   |-> {q},
                          accepted |-> Append(acc.accepted, [from |-> day, move |-> q.move])]

Accepted(o) ==
  LET quals == Qualifications(o)
      days  == SetToSortSeq({q.candidate : q \in quals}, <)
  IN FoldLeft(LAMBDA acc, day : Decided(acc, day, quals, o),
              [active |-> {}, accepted |-> <<>>], days).accepted

\* Slip: the last period ends with its window.
PeriodsEnd(a) ==
  Normalized([i \in DOMAIN a |->
    [from |-> a[i].from,
     until |-> IF i < Len(a) THEN a[i + 1].from ELSE Min({a[i].from + Window, Forever}),
     preference |-> a[i].move]])

\* Each accepted move until the next.
Periods(a) ==
  Normalized([i \in DOMAIN a |->
    [from |-> a[i].from,
     until |-> IF i < Len(a) THEN a[i + 1].from ELSE Forever,
     preference |-> a[i].move]])

\* The periods of one position, and whether it is reported as conflicting.
Inferred(o) == Periods(Accepted(o))

Reported(o) == Conflicting(Qualifications(o))

-----------------------------------------------------------------------------

Play(d, m) ==
  /\ Total(played, 0, Forever) < MaxPlayed
  /\ played' = [played EXCEPT ![d][m] = @ + 1]

Init == played = [d \in Day |-> [m \in Moves |-> 0]]

Next == \E d \in Day, m \in Moves : Play(d, m)

Spec == Init /\ [][Next]_played

-----------------------------------------------------------------------------
(* Properties. *)

Complete(s) ==
  /\ ToSet(s) \subseteq Period
  /\ Normalized(s) = s
  /\ \A i \in 1..Len(s) :
       /\ s[i].preference \in Moves
       /\ s[i].until = IF i = Len(s) THEN Forever ELSE s[i + 1].from

\* What inference returns is a complete schedule in normal form: contiguous
\* periods of moves, the last open-ended, so that the checks set-up makes of it
\* (_validate_complete_result) refuse nothing.
TypeOK == Complete(Inferred(played))

\* Move m is at least four fifths of what was played in the Window days from s
\* on, counted anew.
Dominates(m, s) ==
  LET days  == {d \in Day : s <= d /\ d < s + Window}
      count == [x \in Moves |-> MapThenSumSet(LAMBDA d : played[d][x], days)]
  IN /\ \E x \in Moves : played[s][x] > 0
     /\ count[m] >= MinimumMatches
     /\ 5 * count[m] >= 4 * MapThenSumSet(LAMBDA x : count[x], Moves)

\* No move is preferred without evidence: each period begins on a day the move
\* was played, inside a window that it dominates.
PeriodsHaveEvidence ==
  \A r \in ToSet(Inferred(played)) :
    /\ played[r.from][r.preference] > 0
    /\ \E s \in Day : s <= r.from /\ r.from < s + Window /\ Dominates(r.preference, s)

Undisputed(s) ==
  /\ (\E m \in Moves, d \in Day : Dominates(m, d)) => s # <<>> \/ Reported(played)
  /\ ~Reported(played) =>
       \A m \in Moves, d \in Day :
         Dominates(m, d) =>
           \E e \in Day :
             /\ d <= e /\ played[e][m] > 0
             /\ \A c \in Day : d <= c /\ c < e => played[c][m] = 0
             /\ Resolve(s, e) = m

\* A position that is not reported as conflicting has a schedule that shows
\* every dominating move on the first day of its window that it was played on;
\* and a position with evidence is never left without both.
UndisputedIsShown == Undisputed(Inferred(played))

\* A game of day d, whenever it is imported, changes what inference says of no
\* day that lies a window or more before d.
LaterGamesKeepThePast ==
  [][\A d \in Day :
       played'[d] # played[d] =>
         \A e \in Day : e + Window <= d =>
           Resolve(Inferred(played'), e) = Resolve(Inferred(played), e)]_played

\* The later of two moves was played more in the days their windows share, or
\* its window begins when that of the older is over.
Supersedes(old, new, day) ==
  \E e \in Day :
    /\ e <= day /\ day < e + Window /\ Dominates(new, e)
    /\ \E d \in Day :
         /\ d < e + Window /\ Dominates(old, d)
         /\ e < d + Window =>
              Uses(played, new, Max({d, e}), Min({d, e}) + Window)
                > Uses(played, old, Max({d, e}), Min({d, e}) + Window)

Succession(s) ==
  \A i \in 2..Len(s) : Supersedes(s[i - 1].preference, s[i].preference, s[i].from)

\* A move in force gives way only to one that was played more: a tie keeps the
\* older move.
TieKeepsTheOlder == Succession(Inferred(played))

=============================================================================
