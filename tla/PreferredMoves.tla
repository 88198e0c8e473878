---------------------------- MODULE PreferredMoves ----------------------------
(***************************************************************************)
(* The table of preferred-move periods and the transactions that change    *)
(* it.  put_preferred_move, delete_preferred_move and the repository's set *)
(* and unset read the schedule of one position, amend it and replace all   *)
(* of its rows in one BEGIN IMMEDIATE transaction; set-up fills the whole  *)
(* table in another.  A transaction that fails is rolled back and changes  *)
(* nothing, so what interleaves is whole amendments, in any order.         *)
(***************************************************************************)
EXTENDS PreferredMoveSchedule

CONSTANT Positions

VARIABLE table   \* table[p]: the rows of position p

Schedule(p) == Normalized(Sorted(table[p]))

\* The guards are the checks whose failure would roll the transaction back:
\* the order of the periods as loaded and as amended, and the comparison of
\* what was written with what was to be written.
Amendable(p, a, included) ==
  LET fragments   == Fragments(ToSet(Schedule(p)), a, included)
      replacement == Overlay(Schedule(p), a, included)
  IN /\ Ordered(Sorted(table[p]))
     /\ Ordered(Sorted(fragments))
     /\ Normalized(Sorted(ToSet(replacement))) = replacement

Amend(p, a, included) ==
  /\ Amendable(p, a, included)
  /\ table' = [table EXCEPT ![p] = ToSet(Overlay(Schedule(p), a, included))]

SetPreference(p, a) == Amend(p, a, TRUE)

UnsetPreference(p, a) ==
  a.preference = NoPreference /\ Amend(p, a, FALSE)

\* The periods inference accepts: a move from each of the days in accepted
\* until the next of them.
Inferred(accepted) ==
  {[from |-> d,
    until |-> Min({e \in DOMAIN accepted : e > d} \cup {Forever}),
    preference |-> accepted[d]] : d \in DOMAIN accepted}

\* Inference may accept any move on any day.
Inferrable ==
  {ToSet(Normalized(Sorted(Inferred(accepted)))) :
     accepted \in UNION {[D -> Moves] : D \in SUBSET Day}}

\* Slip: only the positions that get periods have to be empty.
SetupUnguarded ==
  \E rows \in [Positions -> Inferrable] :
    /\ \A p \in Positions : rows[p] # {} => table[p] = {}
    /\ table' = [p \in Positions |-> table[p] \cup rows[p]]

\* Set-up refuses a table that is not empty.
Setup ==
  /\ \A p \in Positions : table[p] = {}
  /\ table' \in [Positions -> Inferrable]

TableInit == table = [p \in Positions |-> {}]

TableNext ==
  \/ \E p \in Positions, a \in Period : SetPreference(p, a) \/ UnsetPreference(p, a)
  \/ Setup

TableSpec == TableInit /\ [][TableNext]_table

-----------------------------------------------------------------------------
(* Properties. *)

\* Every stored period is a period: no amendment leaves an empty one behind.
RowsArePeriods == \A p \in Positions : table[p] \subseteq Period

\* No legal amendment is ever refused: the order checks of normalize_periods
\* and "persisted schedule did not match its normalized replacement" cannot
\* fail, whatever amendments came before.
NeverRefused ==
  \A p \in Positions, a \in Period, included \in BOOLEAN :
    Amendable(p, a, included)

\* What the rows of position p say of day d.
Shown(p, d) ==
  LET rows == {r \in table[p] : Covers(r, d)} IN
  IF rows = {} THEN Unconfigured ELSE (CHOOSE r \in rows : TRUE).preference

\* The rows are a normal form: two positions that show the same preference on
\* every day have the same rows, whatever amendments led there.
NormalForm ==
  \A p, o \in Positions :
    (\A d \in Day : Shown(p, d) = Shown(o, d))
      => table[p] = table[o]

\* A timeline covers its window exactly, shows day by day what resolve_date
\* and the rows say, and has no equal neighbours: the checks of
\* PreferredMoveTimeline never fail on what _materialize_timeline builds.
TimelineExact ==
  \A p \in Positions, start \in Day, end \in 1..LastDay + 1 :
    start < end =>
      LET t == Timeline(Schedule(p), start, end) IN
      /\ t # <<>> /\ t[1].from = start /\ Last(t).until = end
      /\ \A i \in 1..Len(t) :
           /\ t[i].from < t[i].until
           /\ i > 1 => /\ t[i].from = t[i - 1].until
                       /\ t[i].preference # t[i - 1].preference
           /\ \A d \in t[i].from..t[i].until - 1 :
                /\ Resolve(Schedule(p), d) = t[i].preference
                /\ Shown(p, d) = t[i].preference

Calendar == INSTANCE PreferredMoveCalendar WITH
  calendar <- [p \in Positions |-> [d \in Day |-> Shown(p, d)]]

\* The table implements the calendar: an amendment changes the days of its
\* own range of its own position and no other, however periods are split,
\* cut and joined.
ImplementsCalendar == Calendar!Spec

=============================================================================
