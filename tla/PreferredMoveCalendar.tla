------------------------ MODULE PreferredMoveCalendar ------------------------
(***************************************************************************)
(* What preferred moves are to their user: for every position a calendar,  *)
(* each day of which shows a move, no preference, or nothing.  Periods,    *)
(* their normal form and the rows they are stored in do not exist here.    *)
(***************************************************************************)
EXTENDS Integers

CONSTANTS Positions, LastDay, Moves, NoPreference, Unconfigured

Day == 0..LastDay

VARIABLE calendar   \* calendar[p][d]

\* The days from first up to but not including end show v, all others of the
\* position and all other positions what they showed before.
Mark(p, first, end, v) ==
  calendar' = [calendar EXCEPT ![p] =
                 [d \in Day |-> IF first <= d /\ d < end THEN v ELSE @[d]]]

\* Set-up fills an empty calendar: a position shows nothing up to some day
\* and a move on every day from then on.
FillIn ==
  /\ \A p \in Positions, d \in Day : calendar[p][d] = Unconfigured
  /\ calendar' \in [Positions -> [Day -> Moves \cup {Unconfigured}]]
  /\ \A p \in Positions, d \in Day :
       calendar'[p][d] # Unconfigured =>
         \A e \in Day : e > d => calendar'[p][e] # Unconfigured

Init == calendar = [p \in Positions |-> [d \in Day |-> Unconfigured]]

Next ==
  \/ \E p \in Positions, first \in Day, end \in Day \cup {LastDay + 1},
        v \in Moves \cup {NoPreference, Unconfigured} :
       first < end /\ Mark(p, first, end, v)
  \/ FillIn

Spec == Init /\ [][Next]_calendar

=============================================================================
