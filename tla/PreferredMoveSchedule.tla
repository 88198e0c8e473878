------------------------ MODULE PreferredMoveSchedule ------------------------
(***************************************************************************)
(* The algebra of preferred-move schedules (preferred_moves/ranges.py) and *)
(* the finite timeline read from one (timeline.py).  A schedule says what  *)
(* to play in one position on each calendar day; it is stored as half-open *)
(* periods, of which two neighbours never carry the same preference.       *)
(*                                                                         *)
(* Days are numbers.  The end of an indefinite period, None in the code,   *)
(* is Forever, a number later than every day: all the comparisons of the   *)
(* code that test for None first say just that.                            *)
(***************************************************************************)
EXTENDS Integers, Sequences, SequencesExt

CONSTANTS
  LastDay,       \* the last calendar day; the first is 0
  Moves,         \* moves that are legal in the position
  NoPreference,  \* the preference of a period without a move, NULL in the table
  Unconfigured   \* no period covers the day

ASSUME ScheduleAssumption ==
  /\ LastDay \in Nat
  /\ NoPreference \notin Moves
  /\ Unconfigured \notin Moves \cup {NoPreference}

Day == 0..LastDay

Forever == LastDay + 1

Preference == Moves \cup {NoPreference}

Period ==
  {r \in [from : Day, until : Day \cup {Forever}, preference : Preference] :
     r.from < r.until}

Covers(r, d) == r.from <= d /\ d < r.until

Intersects(a, b) == a.from < b.until /\ b.from < a.until

-----------------------------------------------------------------------------
(* Normal form. *)

\* normalize_periods refuses a sequence in which a period starts before its
\* predecessor ends.
Ordered(s) == \A i \in 1..Len(s) - 1 : s[i].until <= s[i + 1].from

\* s extended by r, which is joined to the last period of s if it continues it.
Joined(s, r) ==
  IF s # <<>> /\ Last(s).until = r.from /\ Last(s).preference = r.preference
    THEN Append(Front(s), [Last(s) EXCEPT !.until = r.until])
    ELSE Append(s, r)

\* Slip: neighbours are checked, not joined.
NormalizedUnjoined(s) == s

Normalized(s) == FoldLeft(Joined, <<>>, s)

\* SELECT ... ORDER BY dpm_effective_from.
Sorted(rows) ==
  CHOOSE s \in SetToSeqs(rows) : \A i, j \in DOMAIN s : i < j => s[i].from <= s[j].from

-----------------------------------------------------------------------------
(* Amendments. *)

\* Slip: an amendment that starts with the period leaves an empty period.
KeptEmpty(r, a) ==
  IF ~Intersects(r, a)
    THEN {r}
    ELSE {x \in {[r EXCEPT !.until = a.from]} : r.from <= a.from}
         \cup {x \in {[r EXCEPT !.from = a.until]} : a.until < r.until}

\* Slip: a period that begins before the amendment is kept as it is.
KeptUncut(r, a) ==
  IF ~Intersects(r, a) \/ r.from < a.from
    THEN {r}
    ELSE {x \in {[r EXCEPT !.from = a.until]} : a.until < r.until}

\* What an amendment to the range of a leaves of period r.
Kept(r, a) ==
  IF ~Intersects(r, a)
    THEN {r}
    ELSE {x \in {[r EXCEPT !.until = a.from]} : r.from < a.from}
         \cup {x \in {[r EXCEPT !.from = a.until]} : a.until < r.until}

Fragments(rows, a, included) ==
  (UNION {Kept(r, a) : r \in rows}) \cup {x \in {a} : included}

\* The schedule, as a sequence, once a has been laid over it (set_preference)
\* or its range has been cleared (unset_preference).
Overlay(s, a, included) ==
  Normalized(Sorted(Fragments(ToSet(s), a, included)))

-----------------------------------------------------------------------------
(* Reading. *)

\* resolve_date walks the schedule up to the first period that ends after d.
Resolve(s, d) ==
  LET ahead == {i \in 1..Len(s) : d < s[i].until} IN
  IF ahead = {} THEN Unconfigured
  ELSE LET r == s[Min(ahead)] IN
       IF d < r.from THEN Unconfigured ELSE r.preference

Later(a, b) == IF a > b THEN a ELSE b

Earlier(a, b) == IF a < b THEN a ELSE b

Segment(from, until, preference) ==
  [from |-> from, until |-> until, preference |-> preference]

\* The segments of acc, with the days from its cursor up to from filled in.
Filled(acc, from) ==
  IF acc.cursor < from
    THEN Joined(acc.segments, Segment(acc.cursor, from, Unconfigured))
    ELSE acc.segments

\* Slip: the days before a period are not filled in.
ClippedUnfilled(acc, r, start, end) ==
  IF r.until <= start \/ r.from >= end THEN acc
  ELSE [cursor   |-> Earlier(end, r.until),
        segments |-> Joined(acc.segments,
          Segment(Later(start, r.from), Earlier(end, r.until), r.preference))]

\* Period r, clipped to the days from start until end, put behind acc.
Clipped(acc, r, start, end) ==
  IF r.until <= start \/ r.from >= end THEN acc
  ELSE LET from  == Later(start, r.from)
           until == Earlier(end, r.until)
       IN [cursor   |-> until,
           segments |-> Joined(Filled(acc, from),
                               Segment(Later(acc.cursor, from), until, r.preference))]

\* _materialize_timeline: the schedule clipped to the days from start until
\* end, gaps filled in.
Timeline(s, start, end) ==
  Filled(FoldLeft(LAMBDA acc, r : Clipped(acc, r, start, end),
                  [cursor |-> start, segments |-> <<>>], s),
         end)

=============================================================================
