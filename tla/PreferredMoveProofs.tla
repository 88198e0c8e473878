------------------------ MODULE PreferredMoveProofs ------------------------
(***************************************************************************)
(* The schedules of preferred moves, for any number of days, positions,    *)
(* moves and requests.  From the bottom up:                                *)
(*   - what one amendment leaves of periods                               *)
(*   - sorting: rows that share no day have one order                      *)
(*   - joining: normalize_periods brings periods into normal form and      *)
(*     changes the preference of no day                                    *)
(*   - the timeline of a window tells what the rows say, day by day        *)
(*   - the table: amendments and set-up keep it sound, and make of it what *)
(*     a calendar makes of its days                                        *)
(*   - the requests: transactions amend the table one after the other, and *)
(*     answers are true.                                                   *)
(*                                                                         *)
(* Sorting, joining and the timeline are folds.  Of each the recursion of  *)
(* its definition is brought to light first, and then an invariant of its  *)
(* loop is proved: a first turn that broke it would have a turn before it  *)
(* that did not.  That there is a first one is lemma Upward.               *)
(***************************************************************************)
EXTENDS PreferredMoveRequests, FiniteSetTheorems, WellFoundedInduction, TLAPS

\* Periods of which no two share a day.
Disjoint(rows) == \A r, s \in rows : r # s => ~Intersects(r, s)

\* The ends of a period are days or Forever, and numbers.
LEMMA PeriodEnds ==
  ASSUME NEW r \in Period
  PROVE  /\ r.from \in Day /\ r.from \in Int
         /\ r.until \in Day \cup {Forever} /\ r.until \in Int
         /\ r.from < r.until /\ r.until <= Forever
         /\ r.preference \in Preference
<1>1. /\ r.from \in Day /\ r.until \in Day \cup {Forever} /\ r.from < r.until
      /\ r.preference \in Preference
  BY DEF Period
<1>2. QED
  BY <1>1, ScheduleAssumption DEF Day, Forever

\* Two periods intersect exactly when they share a day: _intersects, which
\* compares ends only, asks the right question.
THEOREM IntersectsIsSharedDay ==
  ASSUME NEW r \in Period, NEW s \in Period
  PROVE  Intersects(r, s) <=> \E d \in Day : Covers(r, d) /\ Covers(s, d)
<1>1. /\ r.from \in Day /\ r.from \in Int /\ r.until \in Int /\ r.from < r.until
      /\ s.from \in Day /\ s.from \in Int /\ s.until \in Int /\ s.from < s.until
  BY PeriodEnds
<1>2. \A d \in Day : d \in Int
  BY ScheduleAssumption DEF Day
<1>3. ASSUME Intersects(r, s)
      PROVE  \E d \in Day : Covers(r, d) /\ Covers(s, d)
  <2>1. CASE r.from <= s.from
    <3>1. Covers(r, s.from) /\ Covers(s, s.from)
      BY <1>1, <1>2, <1>3, <2>1 DEF Intersects, Covers
    <3>2. QED
      BY <1>1, <3>1
  <2>2. CASE s.from <= r.from
    <3>1. Covers(r, r.from) /\ Covers(s, r.from)
      BY <1>1, <1>2, <1>3, <2>2 DEF Intersects, Covers
    <3>2. QED
      BY <1>1, <3>1
  <2>3. QED
    BY <1>1, <1>2, <2>1, <2>2
<1>4. ASSUME NEW d \in Day, Covers(r, d), Covers(s, d)
      PROVE  Intersects(r, s)
  BY <1>1, <1>2, <1>4 DEF Intersects, Covers
<1>5. QED
  BY <1>3, <1>4

\* What an amendment leaves of a period are periods, with the preference and
\* within the days of the period, and behind or before the amendment.
LEMMA KeptParts ==
  ASSUME NEW r \in Period, NEW a \in Period, NEW f \in Kept(r, a)
  PROVE  /\ f \in Period
         /\ f.preference = r.preference
         /\ r.from <= f.from /\ f.until <= r.until
         /\ f.until <= a.from \/ a.until <= f.from
<1>1. /\ r.from \in Day /\ r.from \in Int /\ r.until \in Int /\ r.from < r.until
      /\ r.until \in Day \cup {Forever} /\ r.until <= Forever
      /\ a.from \in Day /\ a.from \in Int /\ a.until \in Int /\ a.from < a.until
      /\ a.until \in Day \cup {Forever} /\ a.until <= Forever
  BY PeriodEnds
<1>2. Forever \in Int
  BY ScheduleAssumption DEF Forever
<1>3. CASE ~Intersects(r, a)
  <2>1. f = r
    BY <1>3 DEF Kept
  <2>2. f.until <= a.from \/ a.until <= f.from
    BY <1>1, <1>2, <1>3, <2>1 DEF Intersects
  <2>3. QED
    BY <1>1, <1>2, <2>1, <2>2
<1>4. CASE Intersects(r, a) /\ f = [r EXCEPT !.until = a.from] /\ r.from < a.from
  <2>1. f \in Period
    BY <1>1, <1>4 DEF Period
  <2>2. f.from = r.from /\ f.until = a.from /\ f.preference = r.preference
    BY <1>4 DEF Period
  <2>3. a.from < r.until
    BY <1>4 DEF Intersects
  <2>4. QED
    BY <1>1, <1>2, <2>1, <2>2, <2>3
<1>5. CASE Intersects(r, a) /\ f = [r EXCEPT !.from = a.until] /\ a.until < r.until
  <2>1. a.until \in Day
    BY <1>1, <1>2, <1>5
  <2>2. f \in Period
    BY <1>1, <1>5, <2>1 DEF Period
  <2>3. f.from = a.until /\ f.until = r.until /\ f.preference = r.preference
    BY <1>5 DEF Period
  <2>4. r.from < a.until
    BY <1>5 DEF Intersects
  <2>5. QED
    BY <1>1, <1>2, <2>2, <2>3, <2>4
<1>6. QED
  BY <1>3, <1>4, <1>5 DEF Kept

\* An amendment leaves of a period exactly its days outside the amendment.
LEMMA KeptDays ==
  ASSUME NEW r \in Period, NEW a \in Period, NEW d \in Day
  PROVE  (\E f \in Kept(r, a) : Covers(f, d)) <=> Covers(r, d) /\ ~Covers(a, d)
<1>1. /\ r.from \in Int /\ r.until \in Int /\ r.from < r.until
      /\ a.from \in Int /\ a.until \in Int /\ a.from < a.until
  BY PeriodEnds
<1>2. d \in Int
  BY ScheduleAssumption DEF Day
<1>3. ASSUME NEW f \in Kept(r, a), Covers(f, d)
      PROVE  Covers(r, d) /\ ~Covers(a, d)
  <2>1. /\ f \in Period
        /\ r.from <= f.from /\ f.until <= r.until
        /\ f.until <= a.from \/ a.until <= f.from
    BY KeptParts
  <2>2. f.from \in Int /\ f.until \in Int
    BY <2>1, PeriodEnds
  <2>3. QED
    BY <1>1, <1>2, <1>3, <2>1, <2>2 DEF Covers
<1>4. ASSUME Covers(r, d), ~Covers(a, d)
      PROVE  \E f \in Kept(r, a) : Covers(f, d)
  <2>1. CASE ~Intersects(r, a)
    BY <1>4, <2>1 DEF Kept
  <2>2. CASE Intersects(r, a) /\ d < a.from
    <3> DEFINE f == [r EXCEPT !.until = a.from]
    <3>1. f \in Kept(r, a)
      BY <1>1, <1>2, <1>4, <2>2 DEF Kept, Covers
    <3>2. f.from = r.from /\ f.until = a.from
      BY DEF Period
    <3>3. QED
      BY <1>4, <2>2, <3>1, <3>2 DEF Covers
  <2>3. CASE Intersects(r, a) /\ a.until <= d
    <3> DEFINE f == [r EXCEPT !.from = a.until]
    <3>1. f \in Kept(r, a)
      BY <1>1, <1>2, <1>4, <2>3 DEF Kept, Covers
    <3>2. f.from = a.until /\ f.until = r.until
      BY DEF Period
    <3>3. QED
      BY <1>4, <2>3, <3>1, <3>2 DEF Covers
  <2>4. QED
    BY <1>1, <1>2, <1>4, <2>1, <2>2, <2>3 DEF Covers
<1>5. QED
  BY <1>3, <1>4

-----------------------------------------------------------------------------

\* An amendment makes periods of periods: it never leaves an empty one, nor one
\* that ends before it starts.
THEOREM FragmentsArePeriods ==
  ASSUME NEW rows \in SUBSET Period, NEW a \in Period, NEW included \in BOOLEAN
  PROVE  Fragments(rows, a, included) \subseteq Period
<1>1. \A r \in rows : Kept(r, a) \subseteq Period
  BY KeptParts
<1>2. QED
  BY <1>1 DEF Fragments

\* The meaning of an amendment: on the days of its range the schedule shows
\* its preference (set_preference) or nothing (unset_preference), and on every
\* other day what it showed before.
THEOREM FragmentsCover ==
  ASSUME NEW rows \in SUBSET Period, NEW a \in Period, NEW included \in BOOLEAN,
         NEW d \in Day, NEW v \in Preference
  PROVE  (\E f \in Fragments(rows, a, included) : Covers(f, d) /\ f.preference = v)
           <=> IF Covers(a, d)
                 THEN included /\ a.preference = v
                 ELSE \E r \in rows : Covers(r, d) /\ r.preference = v
<1>1. CASE Covers(a, d)
  <2>1. \A r \in rows : \A f \in Kept(r, a) : ~Covers(f, d)
    BY <1>1, KeptDays
  <2>2. QED
    BY <1>1, <2>1 DEF Fragments
<1>2. CASE ~Covers(a, d)
  <2>1. ASSUME NEW r \in rows
        PROVE  (\E f \in Kept(r, a) : Covers(f, d) /\ f.preference = v)
                 <=> Covers(r, d) /\ r.preference = v
    <3>1. \A f \in Kept(r, a) : f.preference = r.preference
      BY KeptParts
    <3>2. (\E f \in Kept(r, a) : Covers(f, d)) <=> Covers(r, d)
      BY <1>2, KeptDays
    <3>3. QED
      BY <3>1, <3>2
  <2>2. QED
    BY <1>2, <2>1 DEF Fragments
<1>3. QED
  BY <1>1, <1>2

\* Amending periods that share no day gives periods that share no day: the
\* order check of normalize_periods, once they are sorted, has nothing to
\* refuse.
THEOREM FragmentsDisjoint ==
  ASSUME NEW rows \in SUBSET Period, Disjoint(rows), NEW a \in Period,
         NEW included \in BOOLEAN
  PROVE  Disjoint(Fragments(rows, a, included))
<1> DEFINE F == Fragments(rows, a, included)
<1>1. \A r, s \in rows : r # s => ~Intersects(r, s)
  BY DEF Disjoint
<1>2. ASSUME NEW r \in rows, NEW f \in Kept(r, a)
      PROVE  f \in Period /\ ~Intersects(f, a) /\ ~Intersects(a, f)
  <2>1. f \in Period /\ (f.until <= a.from \/ a.until <= f.from)
    BY KeptParts
  <2>2. /\ f.from \in Int /\ f.until \in Int /\ a.from \in Int /\ a.until \in Int
    BY <2>1, PeriodEnds
  <2>3. QED
    BY <2>1, <2>2 DEF Intersects
<1>3. ASSUME NEW r \in rows, NEW s \in rows, NEW f \in Kept(r, a),
             NEW g \in Kept(s, a), f # g
      PROVE  ~Intersects(f, g)
  <2>1. CASE r = s
    <3>1. CASE ~Intersects(r, a)
      BY <1>3, <2>1, <3>1 DEF Kept
    <3>2. CASE Intersects(r, a)
      <4> DEFINE head == [r EXCEPT !.until = a.from]
                 tail == [r EXCEPT !.from = a.until]
      <4>1. head.until = a.from /\ tail.from = a.until /\ a.from < a.until
        BY PeriodEnds DEF Period
      <4>2. f \in {head, tail} /\ g \in {head, tail}
        BY <2>1, <3>2 DEF Kept
      <4> HIDE DEF head, tail
      <4>3. /\ a.from \in Int /\ a.until \in Int
        BY PeriodEnds
      <4>4. QED
        BY <1>3, <4>1, <4>2, <4>3 DEF Intersects
    <3>3. QED
      BY <3>1, <3>2
  <2>2. CASE r # s
    <3>1. ~Intersects(r, s)
      BY <1>1, <2>2
    <3>2. /\ f \in Period /\ r.from <= f.from /\ f.until <= r.until
          /\ g \in Period /\ s.from <= g.from /\ g.until <= s.until
      BY KeptParts
    <3>3. \A x \in Period : x.from \in Int /\ x.until \in Int
      BY PeriodEnds
    <3>4. QED
      BY <3>1, <3>2, <3>3 DEF Intersects
  <2>3. QED
    BY <2>1, <2>2
<1>4. ASSUME NEW f \in F, NEW g \in F, f # g
      PROVE  ~Intersects(f, g)
  <2>1. CASE f = a
    BY <1>2, <1>4, <2>1 DEF Fragments
  <2>2. CASE g = a
    BY <1>2, <1>4, <2>2 DEF Fragments
  <2>3. CASE f # a /\ g # a
    <3>1. /\ \E r \in rows : f \in Kept(r, a)
          /\ \E s \in rows : g \in Kept(s, a)
      BY <2>3 DEF Fragments
    <3>2. QED
      BY <1>3, <1>4, <3>1
  <2>4. QED
    BY <2>1, <2>2, <2>3
<1>5. QED
  BY <1>4 DEF Disjoint

-----------------------------------------------------------------------------
(* Numbers, and folds. *)

\* Of numbers there is a least.
LEMMA LeastNumber ==
  ASSUME NEW T \in SUBSET Nat, T # {}
  PROVE  \E x \in T : \A y \in T : x <= y
<1> DEFINE R == {ss \in Nat \X Nat : ss[1] < ss[2]}
<1>1. R = OpToRel(<, Nat)
  BY DEF OpToRel
<1>2. IsWellFoundedOn(R, Nat)
  BY <1>1, NatLessThanWellFounded
<1>3. PICK x \in T : \A y \in T : ~(<<y, x>> \in R)
  BY <1>2, WFMin
<1>4. ASSUME NEW y \in T PROVE x <= y
  <2>1. ~(y < x) /\ x \in Nat /\ y \in Nat
    BY <1>3
  <2> QED
    BY <2>1
<1> QED
  BY <1>4

\* What holds of the first number, and of each with the one before it, holds of all.
LEMMA Upward ==
  ASSUME NEW n \in Nat, NEW T, 0 \in T,
         \A k \in 1 .. n : k - 1 \in T => k \in T
  PROVE  0 .. n \subseteq T
<1> SUFFICES ASSUME NEW x \in 0 .. n, x \notin T PROVE FALSE
  OBVIOUS
<1> DEFINE U == {k \in 0 .. n : k \notin T}
<1>1. U \in SUBSET Nat /\ U # {}
  OBVIOUS
<1>2. PICK k \in U : \A y \in U : k <= y
  BY <1>1, LeastNumber, Zenon
<1>3. k \in 1 .. n /\ k - 1 \in 0 .. n /\ ~(k <= k - 1)
  BY <1>2
<1>4. k - 1 \notin U
  BY <1>2, <1>3
<1>5. k - 1 \in T
  BY <1>3, <1>4
<1> QED
  BY <1>2, <1>3, <1>5

\* The largest number of a set.
LEMMA Largest ==
  ASSUME NEW t \in SUBSET Int, NEW m \in t, \A x \in t : x <= m
  PROVE  Max(t) = m
<1>1. \A x \in t : (\A y \in t : x >= y) => x = m
  OBVIOUS
<1>2. \A y \in t : m >= y
  OBVIOUS
<1>3. Max(t) \in t /\ \A y \in t : Max(t) >= y
  BY <1>2, Zenon DEF Max
<1> QED
  BY <1>1, <1>3

\* A member of t that none is below is its least.
LEMMA Smallest ==
  ASSUME NEW t \in SUBSET Int, NEW m \in t, \A x \in t : m <= x
  PROVE  Min(t) = m
<1>1. \A x \in t : (\A y \in t : x <= y) => x = m
  OBVIOUS
<1>2. \A y \in t : m <= y
  OBVIOUS
<1>3. Min(t) \in t /\ \A y \in t : Min(t) <= y
  BY <1>2, Zenon DEF Min
<1> QED
  BY <1>1, <1>3

\* Of places in a sequence there is a last.
LEMMA MaxOfPlaces ==
  ASSUME NEW n \in Nat, NEW t \in SUBSET (1 .. n), t # {}
  PROVE  Max(t) \in t
<1> DEFINE U == {n - x : x \in t}
<1>1. U \in SUBSET Nat /\ U # {}
  <2>1. \A x \in t : x \in 1 .. n
    OBVIOUS
  <2>2. \A x \in t : n - x \in Nat
    BY <2>1
  <2> QED
    BY <2>2
<1>2. PICK u \in U : \A y \in U : u <= y
  BY <1>1, LeastNumber, Zenon
<1>3. PICK m \in t : u = n - m
  BY <1>2
<1>4. \A x \in t : n - m <= n - x
  BY <1>2, <1>3
<1>5. \A x \in t : x <= m
  BY <1>4
<1> QED
  BY <1>5, Largest

\* g has, of each set of indices up to k, the value of a fold over them: h says what
\* a step makes of a value and an index.
FoldsUpTo(g, k, base, h) ==
  \A t \in SUBSET (1 .. k) :
    g[t] = IF t = {} THEN base ELSE h[<<g[t \ {Max(t)}], Max(t)>>]

\* The recursion of a fold has a solution.
LEMMA FoldExists ==
  ASSUME NEW D, NEW base \in D, NEW n \in Nat, NEW h \in [D \X (1 .. n) -> D]
  PROVE  \E g \in [SUBSET (1 .. n) -> D] : FoldsUpTo(g, n, base, h)
<1> DEFINE T == {k \in 0 .. n : \E g \in [SUBSET (1 .. k) -> D] : FoldsUpTo(g, k, base, h)}
<1>1. 0 \in T
  <2> DEFINE g == [t \in SUBSET (1 .. 0) |-> base]
  <2>1. SUBSET (1 .. 0) = {{}}
    OBVIOUS
  <2>2. g \in [SUBSET (1 .. 0) -> D] /\ FoldsUpTo(g, 0, base, h)
    BY <2>1 DEF FoldsUpTo
  <2> QED
    BY <2>2
<1>2. ASSUME NEW m \in 1 .. n, m - 1 \in T PROVE m \in T
  <2>1. PICK g \in [SUBSET (1 .. (m - 1)) -> D] : FoldsUpTo(g, m - 1, base, h)
    BY <1>2
  <2> DEFINE f == [t \in SUBSET (1 .. m) |-> IF m \in t THEN h[<<g[t \ {m}], m>>] ELSE g[t]]
  <2>2. ASSUME NEW t \in SUBSET (1 .. m), m \in t
        PROVE  t \ {m} \in SUBSET (1 .. (m - 1)) /\ Max(t) = m /\ m \notin t \ {m}
    <3>1. \A x \in t : x \in 1 .. m
      OBVIOUS
    <3>2. \A x \in t : x <= m /\ x \in Int
      BY <3>1
    <3>3. Max(t) = m
      BY <2>2, <3>2, Largest
    <3>4. \A x \in t \ {m} : x \in 1 .. (m - 1)
      BY <3>1
    <3> QED
      BY <3>3, <3>4
  <2>3. ASSUME NEW t \in SUBSET (1 .. m), m \notin t
        PROVE  t \in SUBSET (1 .. (m - 1)) /\ \A x : m \notin t \ {x}
    <3>1. \A x \in t : x \in 1 .. m /\ x # m
      BY <2>3
    <3>2. \A x \in t : x \in 1 .. (m - 1)
      BY <3>1
    <3> QED
      BY <2>3, <3>2
  <2>4. f \in [SUBSET (1 .. m) -> D]
    <3>1. ASSUME NEW t \in SUBSET (1 .. m), m \in t PROVE h[<<g[t \ {m}], m>>] \in D
      BY <2>2, <3>1
    <3>2. ASSUME NEW t \in SUBSET (1 .. m), m \notin t PROVE g[t] \in D
      BY <2>3, <3>2
    <3> QED
      BY <3>1, <3>2
  <2>5. ASSUME NEW t \in SUBSET (1 .. m)
        PROVE  f[t] = IF t = {} THEN base ELSE h[<<f[t \ {Max(t)}], Max(t)>>]
    <3>1. CASE m \in t
      <4>1. Max(t) = m /\ t \ {m} \in SUBSET (1 .. (m - 1)) /\ t \ {m} \in SUBSET (1 .. m) /\ m \notin t \ {m}
        BY <2>2, <3>1
      <4>2. f[t] = h[<<g[t \ {m}], m>>] /\ f[t \ {m}] = g[t \ {m}]
        BY <3>1, <4>1
      <4> QED
        BY <3>1, <4>1, <4>2
    <3>2. CASE m \notin t
      <4>1. t \in SUBSET (1 .. (m - 1)) /\ m \notin t \ {Max(t)} /\ t \ {Max(t)} \in SUBSET (1 .. m)
        BY <2>3, <3>2
      <4>2. f[t] = g[t] /\ f[t \ {Max(t)}] = g[t \ {Max(t)}]
        BY <3>2, <4>1
      <4>3. g[t] = IF t = {} THEN base ELSE h[<<g[t \ {Max(t)}], Max(t)>>]
        BY <2>1, <4>1 DEF FoldsUpTo
      <4> QED
        BY <4>2, <4>3
    <3> QED
      BY <3>1, <3>2
  <2> HIDE DEF f
  <2>6. FoldsUpTo(f, m, base, h)
    BY <2>5 DEF FoldsUpTo
  <2> QED
    BY <2>4, <2>6
<1> HIDE DEF T
<1>3. n \in T
  BY <1>1, <1>2, Upward
<1> QED
  BY <1>3 DEF T

-----------------------------------------------------------------------------
(* Sorting. *)

\* No two rows begin on the same day.
Distinct(rows) == \A r, q \in rows : r.from = q.from => r = q

\* s goes through the days.
Rising(s) == \A i, j \in 1 .. Len(s) : i < j => s[i].from < s[j].from

\* The rows that begin no later than d.
Until(rows, d) == {x \in rows : x.from <= d}

\* Finitely many rows can be put in order, by how many begin no later than each.
LEMMA SortedExists ==
  ASSUME NEW rows, IsFiniteSet(rows), \A r \in rows : r.from \in Int, Distinct(rows)
  PROVE  \E s \in [1 .. Cardinality(rows) -> rows] :
            \A i, j \in 1 .. Cardinality(rows) : i < j => s[i].from < s[j].from
<1> DEFINE n == Cardinality(rows)
           place == [r \in rows |-> Cardinality(Until(rows, r.from))]
<1>0. n \in Nat
  BY FS_CardinalityType
<1>1. ASSUME NEW r \in rows PROVE place[r] \in 1 .. n
  <2>1. Until(rows, r.from) \in SUBSET rows /\ r \in Until(rows, r.from)
    BY DEF Until
  <2>2. IsFiniteSet(Until(rows, r.from)) /\ Cardinality(Until(rows, r.from)) <= n
    BY <2>1, FS_Subset
  <2>3. Cardinality(Until(rows, r.from)) \in Nat /\ Cardinality(Until(rows, r.from)) # 0
    BY <2>1, <2>2, FS_CardinalityType, FS_EmptySet
  <2> QED
    BY <2>2, <2>3, <1>0
<1>2. ASSUME NEW r \in rows, NEW q \in rows, r.from < q.from PROVE place[r] < place[q]
  <2> DEFINE A == Until(rows, r.from)
             B == Until(rows, q.from)
  <2>1. A \in SUBSET B /\ q \in B /\ q \notin A /\ B \in SUBSET rows
    BY <1>2 DEF Until
  <2> HIDE DEF A, B
  <2>2. IsFiniteSet(B)
    BY <2>1, FS_Subset
  <2>3. Cardinality(A) <= Cardinality(B) /\ Cardinality(B) # Cardinality(A)
    BY <2>1, <2>2, FS_Subset
  <2>4. place[r] = Cardinality(A) /\ place[q] = Cardinality(B)
    BY DEF A, B
  <2>5. place[r] \in Int /\ place[q] \in Int
    BY <1>1
  <2> QED
    BY <2>3, <2>4, <2>5
<1>3. ASSUME NEW r \in rows, NEW q \in rows, place[r] = place[q] PROVE r = q
  <2>1. place[r] \in Int /\ r.from \in Int /\ q.from \in Int
    BY <1>1
  <2>2. ~(r.from < q.from) /\ ~(q.from < r.from)
    BY <1>2, <1>3, <2>1
  <2>3. r.from = q.from
    BY <2>1, <2>2
  <2> QED
    BY <2>3 DEF Distinct
<1>4. place \in Injection(rows, 1 .. n)
  <2> HIDE DEF place
  <2>1. place \in [rows -> 1 .. n]
    BY <1>1 DEF place
  <2> QED
    BY <2>1, <1>3 DEF Injection, IsInjective
<1>5. IsFiniteSet(1 .. n) /\ Cardinality(1 .. n) = n
  BY <1>0, FS_Interval
<1>6. place \in Surjection(rows, 1 .. n)
  BY <1>4, <1>5, FS_Injection
<1>7. \A i \in 1 .. n : \E r \in rows : place[r] = i
  BY <1>6 DEF Surjection
<1> DEFINE s == [i \in 1 .. n |-> CHOOSE r \in rows : place[r] = i]
<1>8. \A i \in 1 .. n : s[i] \in rows /\ place[s[i]] = i
  BY <1>7
<1> HIDE DEF s, place
<1>9. ASSUME NEW i \in 1 .. n, NEW j \in 1 .. n, i < j PROVE s[i].from < s[j].from
  <2>1. s[i] \in rows /\ s[j] \in rows /\ place[s[i]] = i /\ place[s[j]] = j
    BY <1>8
  <2>2. s[i].from \in Int /\ s[j].from \in Int
    BY <2>1
  <2>3. ~(s[j].from < s[i].from)
    BY <1>2, <1>9, <2>1
  <2>4. s[i].from # s[j].from
    BY <1>9, <2>1 DEF Distinct
  <2> QED
    BY <2>2, <2>3, <2>4
<1>10. s \in [1 .. n -> rows]
  BY <1>8 DEF s
<1> QED
  BY <1>9, <1>10

\* What sorting does: the rows, each once, in order.
LEMMA SortedRows ==
  ASSUME NEW rows, IsFiniteSet(rows), \A r \in rows : r.from \in Int, Distinct(rows)
  PROVE  /\ Sorted(rows) \in Seq(rows)
         /\ ToSet(Sorted(rows)) = rows
         /\ Rising(Sorted(rows))
<1> DEFINE n == Cardinality(rows)
           Orders(s) == \A i, j \in DOMAIN s : i < j => s[i].from <= s[j].from
<1>0. n \in Nat
  BY FS_CardinalityType
<1>1. PICK t \in [1 .. n -> rows] : \A i, j \in 1 .. n : i < j => t[i].from < t[j].from
  BY SortedExists
<1>2. t \in SetToSeqs(rows) /\ Orders(t)
  <2>1. \A i, j \in 1 .. n : i # j => t[i] # t[j]
    <3> SUFFICES ASSUME NEW i \in 1 .. n, NEW j \in 1 .. n, i # j PROVE t[i] # t[j]
      OBVIOUS
    <3>1. i < j \/ j < i
      OBVIOUS
    <3>2. t[i].from \in Int /\ t[j].from \in Int
      OBVIOUS
    <3> QED
      BY <1>1, <3>1, <3>2
  <2>2. \A i, j \in 1 .. n : i < j => t[i].from <= t[j].from
    <3>1. \A i \in 1 .. n : t[i].from \in Int
      OBVIOUS
    <3> QED
      BY <1>1, <3>1
  <2> QED
    BY <2>1, <2>2 DEF SetToSeqs
<1> DEFINE s == Sorted(rows)
<1>3. s \in SetToSeqs(rows) /\ Orders(s)
  BY <1>2, Zenon DEF Sorted
<1> HIDE DEF s
<1>4. /\ s \in [1 .. n -> rows]
      /\ \A i, j \in 1 .. n : i # j => s[i] # s[j]
      /\ \A i, j \in 1 .. n : i < j => s[i].from <= s[j].from
  BY <1>3 DEF SetToSeqs
<1>5. s \in Seq(rows) /\ Len(s) = n
  BY <1>0, <1>4
<1>6. Rising(s)
  <2> SUFFICES ASSUME NEW i \in 1 .. n, NEW j \in 1 .. n, i < j PROVE s[i].from < s[j].from
    BY <1>5 DEF Rising
  <2>1. s[i] \in rows /\ s[j] \in rows /\ s[i] # s[j] /\ s[i].from <= s[j].from
    BY <1>4
  <2>2. s[i].from # s[j].from /\ s[i].from \in Int /\ s[j].from \in Int
    BY <2>1 DEF Distinct
  <2> QED
    BY <2>1, <2>2
<1>7. ToSet(s) = rows
  <2>1. s \in Injection(1 .. n, rows)
    BY <1>4 DEF Injection, IsInjective
  <2>2. IsFiniteSet(1 .. n) /\ Cardinality(1 .. n) = n
    BY <1>0, FS_Interval
  <2>3. s \in Surjection(1 .. n, rows)
    BY <2>1, <2>2, FS_Injection
  <2>4. \A r \in rows : \E i \in 1 .. n : s[i] = r
    BY <2>3 DEF Surjection
  <2>5. DOMAIN s = 1 .. n /\ \A i \in 1 .. n : s[i] \in rows
    BY <1>4
  <2> QED
    BY <2>4, <2>5 DEF ToSet
<1> QED
  BY <1>5, <1>6, <1>7 DEF s

\* The elements of a sequence over R are in R, and have a place in it.
LEMMA Elements ==
  ASSUME NEW R, NEW s \in Seq(R)
  PROVE  /\ ToSet(s) \in SUBSET R
         /\ \A i \in 1 .. Len(s) : s[i] \in ToSet(s) /\ s[i] \in R
         /\ \A x \in ToSet(s) : \E i \in 1 .. Len(s) : s[i] = x
<1>1. DOMAIN s = 1 .. Len(s) /\ \A i \in 1 .. Len(s) : s[i] \in R
  OBVIOUS
<1>2. ToSet(s) = {s[i] : i \in 1 .. Len(s)}
  BY <1>1, Zenon DEF ToSet
<1> QED
  BY <1>1, <1>2

\* There is one order only.
LEMMA RisingIsSorted ==
  ASSUME NEW R, \A r \in R : r.from \in Int, NEW s \in Seq(R), NEW t \in Seq(R),
         Rising(s), Rising(t), ToSet(s) = ToSet(t)
  PROVE  s = t
<1>1. ASSUME NEW a \in Seq(R), NEW b \in Seq(R), Rising(a), Rising(b), ToSet(a) = ToSet(b)
      PROVE  Len(a) <= Len(b) /\ \A i \in 1 .. Len(a) : a[i] = b[i]
  <2> DEFINE Good == {k \in 0 .. Len(a) : k <= Len(b) /\ \A i \in 1 .. k : a[i] = b[i]}
  <2>0. Len(a) \in Nat /\ Len(b) \in Nat
    OBVIOUS
  <2>1. 0 \in Good
    BY <2>0
  <2>2. ASSUME NEW k \in 1 .. Len(a), k - 1 \in Good PROVE k \in Good
    <3>1. k - 1 <= Len(b) /\ \A i \in 1 .. k - 1 : a[i] = b[i]
      BY <2>2
    <3>2. a[k] \in ToSet(b)
      BY <1>1, Elements, Zenon
    <3>3. PICK m \in 1 .. Len(b) : b[m] = a[k]
      BY <3>2, Elements, Zenon
    <3>4. \A i \in 1 .. Len(a) : a[i].from \in Int
      OBVIOUS
    <3>4b. \A i \in 1 .. Len(b) : b[i].from \in Int
      OBVIOUS
    <3>5. ~(m < k)
      <4> SUFFICES ASSUME m < k PROVE FALSE
        OBVIOUS
      <4>1. m \in 1 .. Len(a) /\ a[m] = b[m]
        BY <3>1
      <4>2. a[m].from < a[k].from
        BY <1>1, <4>1 DEF Rising
      <4> QED
        BY <3>3, <3>4, <4>1, <4>2
    <3>6. k \in 1 .. Len(b)
      BY <3>5, <2>0
    <3>7. b[k] \in ToSet(a)
      BY <1>1, <3>6, Elements, Zenon
    <3>8. PICK l \in 1 .. Len(a) : a[l] = b[k]
      BY <3>7, Elements, Zenon
    <3>9. ~(l < k)
      <4> SUFFICES ASSUME l < k PROVE FALSE
        OBVIOUS
      <4>1. l \in 1 .. Len(b) /\ a[l] = b[l]
        BY <3>1, <3>6
      <4>2. b[l].from < b[k].from
        BY <1>1, <3>6, <4>1 DEF Rising
      <4> QED
        BY <3>8, <3>4b, <3>6, <4>1, <4>2
    <3>10. a[k].from <= b[k].from /\ b[k].from <= a[k].from
      <4>1. k = m \/ k < m
        BY <3>5
      <4>2. k < m => b[k].from < b[m].from
        BY <1>1, <3>6 DEF Rising
      <4>3. k = l \/ k < l
        BY <3>9
      <4>4. k < l => a[k].from < a[l].from
        BY <1>1 DEF Rising
      <4> QED
        BY <3>3, <3>4, <3>4b, <3>6, <3>8, <4>1, <4>2, <4>3, <4>4
    <3>11. ~(k < m)
      BY <1>1, <3>3, <3>4, <3>4b, <3>6, <3>10 DEF Rising
    <3>12. a[k] = b[k]
      BY <3>3, <3>5, <3>11
    <3>13. \A i \in 1 .. k : i = k \/ i \in 1 .. k - 1
      OBVIOUS
    <3> QED
      BY <3>1, <3>6, <3>12, <3>13
  <2> HIDE DEF Good
  <2>3. 0 .. Len(a) \subseteq Good
    BY <2>0, <2>1, <2>2, Upward, Zenon
  <2>4. Len(a) \in Good
    BY <2>0, <2>3
  <2> QED
    BY <2>4 DEF Good
<1>2. Len(s) <= Len(t) /\ (\A i \in 1 .. Len(s) : s[i] = t[i]) /\ Len(t) <= Len(s)
  BY <1>1
<1> QED
  BY <1>2

-----------------------------------------------------------------------------
(* Schedules in order. *)

\* Each period ends before the next begins.
Apart(s) == \A i, j \in 1 .. Len(s) : i < j => s[i].until <= s[j].from

\* Periods that share no day are finitely many, as days are, and begin apart.
LEMMA DisjointRows ==
  ASSUME NEW rows \in SUBSET Period, Disjoint(rows)
  PROVE  /\ IsFiniteSet(rows) /\ Distinct(rows)
         /\ \A r \in rows : r.from \in Int /\ r.until \in Int /\ r.from < r.until
<1>1. \A r \in rows : r.from \in Day /\ r.from \in Int /\ r.until \in Int /\ r.from < r.until
  BY PeriodEnds
<1>2. Distinct(rows)
  <2> SUFFICES ASSUME NEW r \in rows, NEW q \in rows, r.from = q.from, r # q PROVE FALSE
    BY DEF Distinct
  <2>1. ~Intersects(r, q)
    BY DEF Disjoint
  <2> QED
    BY <1>1, <2>1 DEF Intersects
<1>3. IsFiniteSet(rows)
  <2> DEFINE f == [r \in rows |-> r.from]
  <2>1. f \in [rows -> Day] /\ \A r, q \in rows : f[r] = f[q] => r = q
    BY <1>1, <1>2 DEF Distinct
  <2> HIDE DEF f
  <2>2. f \in Injection(rows, Day)
    BY <2>1 DEF Injection, IsInjective
  <2>3. IsFiniteSet(Day)
    BY FS_Interval, ScheduleAssumption DEF Day
  <2> QED
    BY <2>2, <2>3, FS_Injection
<1> QED
  BY <1>1, <1>2, <1>3

\* Disjoint periods, sorted.
LEMMA SortedSchedule ==
  ASSUME NEW rows \in SUBSET Period, Disjoint(rows)
  PROVE  Sorted(rows) \in Seq(Period) /\ ToSet(Sorted(rows)) = rows /\ Apart(Sorted(rows))
<1> DEFINE s == Sorted(rows)
<1>1. s \in Seq(rows) /\ ToSet(s) = rows /\ Rising(s)
  BY DisjointRows, SortedRows
<1> HIDE DEF s
<1>2. s \in Seq(Period)
  BY <1>1
<1>3. ASSUME NEW i \in 1 .. Len(s), NEW j \in 1 .. Len(s), i < j PROVE s[i].until <= s[j].from
  <2>1. s[i] \in rows /\ s[j] \in rows /\ s[i].from < s[j].from
    BY <1>1, <1>3 DEF Rising
  <2>2. /\ s[i].from \in Int /\ s[i].until \in Int /\ s[j].from \in Int /\ s[j].until \in Int
        /\ s[j].from < s[j].until
    BY <2>1, DisjointRows
  <2>3. s[i] # s[j]
    BY <2>1, <2>2
  <2>4. ~Intersects(s[i], s[j])
    BY <2>1, <2>3 DEF Disjoint
  <2> QED
    BY <2>1, <2>2, <2>4 DEF Intersects
<1> QED
  BY <1>1, <1>2, <1>3 DEF Apart, s

\* Rows read in order are what was written, if they were periods in order.
LEMMA ApartIsSorted ==
  ASSUME NEW s \in Seq(Period), Apart(s)
  PROVE  /\ ToSet(s) \in SUBSET Period /\ Disjoint(ToSet(s)) /\ Ordered(s)
         /\ Sorted(ToSet(s)) = s
<1>1. ToSet(s) \in SUBSET Period
  BY Elements
<1>2. \A i \in 1 .. Len(s) : s[i].from \in Int /\ s[i].until \in Int /\ s[i].from < s[i].until
  BY Elements, PeriodEnds
<1>3. Disjoint(ToSet(s))
  <2> SUFFICES ASSUME NEW r \in ToSet(s), NEW q \in ToSet(s), r # q PROVE ~Intersects(r, q)
    BY DEF Disjoint
  <2>1. PICK i \in 1 .. Len(s) : s[i] = r
    BY Elements, Zenon
  <2>2. PICK j \in 1 .. Len(s) : s[j] = q
    BY Elements, Zenon
  <2>3. i < j \/ j < i
    BY <2>1, <2>2
  <2> QED
    BY <1>2, <2>1, <2>2, <2>3 DEF Apart, Intersects
<1>4. Rising(s)
  BY <1>2 DEF Apart, Rising
<1>5. Ordered(s)
  BY DEF Apart, Ordered
<1>6. Sorted(ToSet(s)) = s
  <2> DEFINE t == Sorted(ToSet(s))
  <2>1. t \in Seq(ToSet(s)) /\ ToSet(t) = ToSet(s) /\ Rising(t)
    BY <1>1, <1>3, DisjointRows, SortedRows
  <2> HIDE DEF t
  <2>2. t \in Seq(Period)
    BY <1>1, <2>1
  <2>3. \A r \in Period : r.from \in Int
    BY PeriodEnds
  <2>4. t = s
    BY <1>4, <2>1, <2>2, <2>3, RisingIsSorted
  <2> QED
    BY <2>4 DEF t
<1> QED
  BY <1>1, <1>3, <1>5, <1>6

-----------------------------------------------------------------------------
(* Joining. *)

\* No period carries on its predecessor.
Separate(s) ==
  \A i \in 1 .. Len(s) - 1 : s[i].until = s[i + 1].from => s[i].preference # s[i + 1].preference

\* A schedule in normal form: periods in order, joined wherever they can be.
Normal(s) == s \in Seq(Period) /\ Apart(s) /\ Separate(s)

\* The periods of rows show v on day d.
Says(rows, d, v) == \E r \in rows : Covers(r, d) /\ r.preference = v

\* Joining a period to periods gives periods, the last of which ends with it.
LEMMA JoinedTypes ==
  ASSUME NEW t \in Seq(Period), NEW r \in Period
  PROVE  /\ Joined(t, r) \in Seq(Period)
         /\ Joined(t, r) # <<>> /\ Joined(t, r)[Len(Joined(t, r))].until = r.until
<1>1. CASE t # <<>> /\ Last(t).until = r.from /\ Last(t).preference = r.preference
  <2> DEFINE l == t[Len(t)]
             x == [l EXCEPT !.until = r.until]
             f == SubSeq(t, 1, Len(t) - 1)
  <2>1. Len(t) \in 1 .. Len(t) /\ l \in Period
    BY <1>1
  <2>2. l.from < l.until /\ l.from \in Int /\ l.until = r.from /\ r.from \in Int /\ r.from < r.until /\ r.until \in Int
    BY <1>1, <2>1, PeriodEnds DEF Last
  <2>3. x \in Period /\ x.until = r.until
    BY <2>1, <2>2 DEF Period
  <2>4. f \in Seq(Period)
    BY <2>1
  <2>5. Joined(t, r) = Append(f, x)
    BY <1>1 DEF Joined, Front, Last
  <2> HIDE DEF x, f
  <2>6. Append(f, x) \in Seq(Period) /\ Append(f, x) # <<>> /\ Append(f, x)[Len(Append(f, x))] = x
    BY <2>3, <2>4
  <2> QED
    BY <2>3, <2>5, <2>6
<1>2. CASE ~(t # <<>> /\ Last(t).until = r.from /\ Last(t).preference = r.preference)
  <2>1. Joined(t, r) = Append(t, r)
    BY <1>2 DEF Joined
  <2> QED
    BY <2>1
<1> QED
  BY <1>1, <1>2

\* Normalizing is joining one period after the other.
LEMMA NormalizedSteps ==
  ASSUME NEW s \in Seq(Period)
  PROVE  \E f \in [0 .. Len(s) -> Seq(Period)] :
            /\ f[0] = <<>> /\ f[Len(s)] = Normalized(s)
            /\ \A k \in 1 .. Len(s) : f[k] = Joined(f[k - 1], s[k])
<1> DEFINE n == Len(s)
           D == Seq(Period)
           h == [x \in D \X (1 .. n) |-> Joined(x[1], s[x[2]])]
           Solved(it) == [t \in SUBSET (DOMAIN s) |->
                          IF t = {} THEN <<>> ELSE Joined(it[t \ {Max(t)}], s[Max(t)])]
           iter == CHOOSE it : it = Solved(it)
<1>0. n \in Nat /\ DOMAIN s = 1 .. n /\ \A k \in 1 .. n : s[k] \in Period
  OBVIOUS
<1>1. h \in [D \X (1 .. n) -> D]
  BY <1>0, JoinedTypes
<1>2. PICK g \in [SUBSET (1 .. n) -> D] : FoldsUpTo(g, n, <<>>, h)
  <2>1. <<>> \in D
    OBVIOUS
  <2> HIDE DEF D, h, n
  <2> QED
    BY <1>0, <1>1, <2>1, FoldExists
<1>3. g = Solved(g)
  <2>1. ASSUME NEW t \in SUBSET (1 .. n), t # {}
        PROVE  g[t] = Joined(g[t \ {Max(t)}], s[Max(t)])
    <3>1. Max(t) \in t
      BY <1>0, <2>1, MaxOfPlaces
    <3>2. Max(t) \in 1 .. n /\ t \ {Max(t)} \in SUBSET (1 .. n) /\ g[t \ {Max(t)}] \in D
      BY <3>1
    <3>3. g[t] = h[<<g[t \ {Max(t)}], Max(t)>>]
      BY <1>2, <2>1 DEF FoldsUpTo
    <3> QED
      BY <3>2, <3>3
  <2>2. g[{}] = <<>>
    BY <1>2 DEF FoldsUpTo
  <2> HIDE DEF h, D
  <2>3. g = [t \in SUBSET (1 .. n) |-> g[t]]
    BY <1>2
  <2>4. \A t \in SUBSET (1 .. n) : g[t] = IF t = {} THEN <<>> ELSE Joined(g[t \ {Max(t)}], s[Max(t)])
    BY <2>1, <2>2
  <2> QED
    BY <1>0, <2>3, <2>4
<1> HIDE DEF Solved
<1>4. iter = Solved(iter)
  BY <1>3, Zenon
<1>5. Normalized(s) = iter[DOMAIN s]
  BY Zenon DEF Normalized, FoldLeft, MapThenFoldSet, Solved
<1> HIDE DEF iter
<1> DEFINE f == [k \in 0 .. n |-> iter[1 .. k]]
<1>6. \A t \in SUBSET (1 .. n) : iter[t] = IF t = {} THEN <<>> ELSE Joined(iter[t \ {Max(t)}], s[Max(t)])
  BY <1>0, <1>4 DEF Solved
<1>7. f[0] = <<>>
  <2>1. 1 .. 0 = {} /\ {} \in SUBSET (1 .. n) /\ 0 \in 0 .. n
    BY <1>0
  <2>2. f[0] = iter[{}]
    BY <2>1
  <2> QED
    BY <1>6, <2>1, <2>2
<1>8. ASSUME NEW k \in 1 .. n PROVE f[k] = Joined(f[k - 1], s[k])
  <2>1. 1 .. k \in SUBSET (1 .. n) /\ 1 .. k # {} /\ k \in 1 .. k /\ k - 1 \in 0 .. n /\ k \in 0 .. n
    BY <1>0
  <2>2. Max(1 .. k) = k
    <3>1. 1 .. k \in SUBSET Int /\ \A x \in 1 .. k : x <= k
      OBVIOUS
    <3> QED
      BY <2>1, <3>1, Largest
  <2>3. (1 .. k) \ {k} = 1 .. (k - 1)
    OBVIOUS
  <2>4. iter[1 .. k] = Joined(iter[1 .. (k - 1)], s[k])
    BY <1>6, <2>1, <2>2, <2>3
  <2> QED
    BY <2>1, <2>4
<1>9. f[n] = Normalized(s)
  BY <1>0, <1>5
<1> HIDE DEF f
<1>10. f \in [0 .. n -> D]
  <2> DEFINE Good == {k \in 0 .. n : f[k] \in D}
  <2>1. 0 \in Good
    <3>1. <<>> \in D /\ 0 \in 0 .. n
      BY <1>0
    <3> QED
      BY <1>7, <3>1
  <2>2. ASSUME NEW k \in 1 .. n, k - 1 \in Good PROVE k \in Good
    <3>1. f[k - 1] \in D /\ s[k] \in Period /\ k \in 0 .. n
      BY <1>0, <2>2
    <3>2. Joined(f[k - 1], s[k]) \in D
      BY <3>1, JoinedTypes
    <3> QED
      BY <1>8, <3>1, <3>2
  <2> HIDE DEF Good
  <2>3. 0 .. n \subseteq Good
    BY <1>0, <2>1, <2>2, Upward, Zenon
  <2>4. f = [k \in 0 .. n |-> f[k]]
    BY DEF f
  <2>5. \A k \in 0 .. n : f[k] \in D
    BY <2>3 DEF Good
  <2> QED
    BY <2>4, <2>5
<1> QED
  BY <1>7, <1>8, <1>9, <1>10

\* What the periods of a sequence show, by their places.
LEMMA SaysInOrder ==
  ASSUME NEW s \in Seq(Period), NEW d, NEW v
  PROVE  Says(ToSet(s), d, v) <=> \E i \in 1 .. Len(s) : Covers(s[i], d) /\ s[i].preference = v
<1>1. /\ \A i \in 1 .. Len(s) : s[i] \in ToSet(s)
      /\ \A x \in ToSet(s) : \E i \in 1 .. Len(s) : s[i] = x
  BY Elements
<1> QED
  BY <1>1, Zenon DEF Says

\* Joining one period more.
LEMMA JoinedKeeps ==
  ASSUME NEW t, Normal(t), NEW r \in Period, t # <<>> => t[Len(t)].until <= r.from
  PROVE  /\ Normal(Joined(t, r))
         /\ \A d \in Day : \A v : Says(ToSet(Joined(t, r)), d, v) <=>
              Says(ToSet(t), d, v) \/ (Covers(r, d) /\ r.preference = v)
<1> DEFINE n == Len(t)
           j == Joined(t, r)
<1>0. /\ t \in Seq(Period) /\ n \in Nat /\ j \in Seq(Period)
      /\ \A i \in 1 .. n : /\ t[i] \in Period /\ t[i].from \in Int /\ t[i].until \in Int
                           /\ t[i].from < t[i].until
      /\ r.from \in Int /\ r.until \in Int /\ r.from < r.until
      /\ \A d \in Day : d \in Int
  <2>1. t \in Seq(Period)
    BY DEF Normal
  <2>2. j \in Seq(Period)
    BY <2>1, JoinedTypes
  <2>3. n \in Nat /\ \A i \in 1 .. n : t[i] \in Period
    BY <2>1
  <2>4. \A d \in Day : d \in Int
    BY ScheduleAssumption DEF Day
  <2> HIDE DEF n, j
  <2> QED
    BY <2>1, <2>2, <2>3, <2>4, PeriodEnds
<1>1. CASE t # <<>> /\ Last(t).until = r.from /\ Last(t).preference = r.preference
  <2> DEFINE x == [t[n] EXCEPT !.until = r.until]
  <2>1. n \in 1 .. n /\ t[n].until = r.from /\ t[n].preference = r.preference
    BY <1>0, <1>1 DEF Last
  <2>2. x.from = t[n].from /\ x.until = r.until /\ x.preference = t[n].preference
    BY <1>0, <2>1 DEF Period
  <2>3. j = Append(SubSeq(t, 1, n - 1), x)
    BY <1>1 DEF Joined, Front, Last
  <2>3a. x \in Period /\ SubSeq(t, 1, n - 1) \in Seq(Period)
    <3>1. t[n] \in Period /\ t[n].from < r.until
      BY <1>0, <2>1
    <3>2. r.until \in Day \cup {Forever}
      BY PeriodEnds
    <3>3. x \in Period
      BY <3>1, <3>2 DEF Period
    <3> QED
      BY <1>0, <3>3
  <2> HIDE DEF x
  <2>4. Len(j) = n /\ j[n] = x /\ \A i \in 1 .. n - 1 : j[i] = t[i]
    <3> DEFINE u == SubSeq(t, 1, n - 1)
    <3>1. Len(u) = n - 1 /\ \A i \in 1 .. n - 1 : u[i] = t[i]
      <4>1. n - 1 \in 0 .. Len(t)
        BY <1>0, <2>1
      <4> HIDE DEF n, u
      <4>2. \A m \in 0 .. Len(t) : LET w == SubSeq(t, 1, m) IN Len(w) = m /\ \A i \in 1 .. m : w[i] = t[i]
        BY <1>0
      <4> QED
        BY <4>1, <4>2 DEF u
    <3>2. u \in Seq(Period) /\ j = Append(u, x)
      BY <2>3, <2>3a
    <3> HIDE DEF u, j
    <3>3. Len(j) = Len(u) + 1 /\ j[Len(u) + 1] = x /\ \A i \in 1 .. Len(u) : j[i] = u[i]
      BY <2>3a, <3>2
    <3> QED
      BY <1>0, <3>1, <3>3
  <2> HIDE DEF j
  <2>5. Apart(j)
    <3> SUFFICES ASSUME NEW i \in 1 .. n, NEW k \in 1 .. n, i < k PROVE j[i].until <= j[k].from
      BY <2>4 DEF Apart
    <3>1. i \in 1 .. n - 1 /\ j[i] = t[i] /\ t[i].until <= t[k].from
      BY <1>0, <2>4 DEF Normal, Apart
    <3>2. CASE k = n
      BY <2>2, <2>4, <3>1, <3>2
    <3>3. CASE k # n
      <4>1. k \in 1 .. n - 1
        BY <1>0, <3>3
      <4> QED
        BY <2>4, <3>1, <4>1
    <3> QED
      BY <3>2, <3>3
  <2>6. Separate(j)
    <3> SUFFICES ASSUME NEW i \in 1 .. n - 1, j[i].until = j[i + 1].from PROVE j[i].preference # j[i + 1].preference
      BY <2>4 DEF Separate
    <3>1. j[i] = t[i] /\ (t[i].until = t[i + 1].from => t[i].preference # t[i + 1].preference)
      BY <2>4 DEF Normal, Separate
    <3>2. j[i + 1].from = t[i + 1].from /\ j[i + 1].preference = t[i + 1].preference
      <4>1. CASE i + 1 = n
        BY <2>2, <2>4, <4>1
      <4>2. CASE i + 1 # n
        <5>1. i + 1 \in 1 .. n - 1
          BY <1>0, <4>2
        <5> QED
          BY <2>4, <5>1
      <4> QED
        BY <4>1, <4>2
    <3> QED
      BY <3>1, <3>2
  <2>7. ASSUME NEW d \in Day, NEW v
        PROVE  Says(ToSet(j), d, v) <=> Says(ToSet(t), d, v) \/ (Covers(r, d) /\ r.preference = v)
    <3>1. Covers(x, d) <=> Covers(t[n], d) \/ Covers(r, d)
      BY <1>0, <2>1, <2>2 DEF Covers
    <3>2. (\E i \in 1 .. n : Covers(j[i], d) /\ j[i].preference = v) <=>
            (\E i \in 1 .. n : Covers(t[i], d) /\ t[i].preference = v) \/ (Covers(r, d) /\ r.preference = v)
      <4>1. \A i \in 1 .. n : i = n \/ i \in 1 .. n - 1
        BY <1>0
      <4> QED
        BY <2>1, <2>2, <2>4, <3>1, <4>1, Zenon
    <3> QED
      BY <1>0, <2>4, <3>2, SaysInOrder
  <2> QED
    BY <1>0, <2>5, <2>6, <2>7 DEF Normal, j
<1>2. CASE ~(t # <<>> /\ Last(t).until = r.from /\ Last(t).preference = r.preference)
  <2>1. j = Append(t, r)
    BY <1>2 DEF Joined
  <2>2. n # 0 => n \in 1 .. n /\ (t[n].until = r.from => t[n].preference # r.preference)
    BY <1>0, <1>2 DEF Last
  <2>3. Len(j) = n + 1 /\ j[n + 1] = r /\ \A i \in 1 .. n : j[i] = t[i]
    BY <1>0, <2>1
  <2> HIDE DEF j
  <2>4. Apart(j)
    <3> SUFFICES ASSUME NEW i \in 1 .. n + 1, NEW k \in 1 .. n + 1, i < k PROVE j[i].until <= j[k].from
      BY <2>3 DEF Apart
    <3>1. i \in 1 .. n /\ j[i] = t[i]
      BY <1>0, <2>3
    <3>2. CASE k = n + 1
      <4>1. n \in 1 .. n /\ t[n].until <= r.from
        BY <1>0, <3>1
      <4>2. t[i].until <= t[n].until
        <5>1. CASE i = n
          BY <1>0, <4>1, <5>1
        <5>2. CASE i # n
          <6>1. i < n
            BY <1>0, <3>1, <5>2
          <6>2. t[i].until <= t[n].from
            BY <3>1, <4>1, <6>1 DEF Normal, Apart
          <6> QED
            BY <1>0, <3>1, <4>1, <6>2
        <5> QED
          BY <5>1, <5>2
      <4> QED
        BY <1>0, <2>3, <3>1, <3>2, <4>1, <4>2
    <3>3. CASE k # n + 1
      <4>1. k \in 1 .. n
        BY <1>0, <3>3
      <4> QED
        BY <2>3, <3>1, <4>1 DEF Normal, Apart
    <3> QED
      BY <3>2, <3>3
  <2>5. Separate(j)
    <3> SUFFICES ASSUME NEW i \in 1 .. n, j[i].until = j[i + 1].from PROVE j[i].preference # j[i + 1].preference
      BY <1>0, <2>3 DEF Separate
    <3>1. CASE i = n
      BY <2>2, <2>3, <3>1
    <3>2. CASE i # n
      <4>1. i \in 1 .. n - 1 /\ i + 1 \in 1 .. n
        BY <1>0, <3>2
      <4> QED
        BY <2>3, <4>1 DEF Normal, Separate
    <3> QED
      BY <3>1, <3>2
  <2>6. ASSUME NEW d \in Day, NEW v
        PROVE  Says(ToSet(j), d, v) <=> Says(ToSet(t), d, v) \/ (Covers(r, d) /\ r.preference = v)
    <3>1. (\E i \in 1 .. n + 1 : Covers(j[i], d) /\ j[i].preference = v) <=>
            (\E i \in 1 .. n : Covers(t[i], d) /\ t[i].preference = v) \/ (Covers(r, d) /\ r.preference = v)
      <4>1. /\ \A i \in 1 .. n + 1 : i = n + 1 \/ i \in 1 .. n
            /\ \A i \in 1 .. n : i \in 1 .. n + 1
            /\ n + 1 \in 1 .. n + 1
        BY <1>0
      <4> QED
        BY <2>3, <4>1, Zenon
    <3>2. Says(ToSet(j), d, v) <=> \E i \in 1 .. n + 1 : Covers(j[i], d) /\ j[i].preference = v
      BY <1>0, <2>3, SaysInOrder
    <3>3. Says(ToSet(t), d, v) <=> \E i \in 1 .. n : Covers(t[i], d) /\ t[i].preference = v
      BY <1>0, SaysInOrder
    <3> QED
      BY <3>1, <3>2, <3>3
  <2> QED
    BY <1>0, <2>4, <2>5, <2>6 DEF Normal, j
<1> QED
  BY <1>1, <1>2

\* Normalizing an ordered schedule: it ends in normal form, and shows what it showed.
LEMMA NormalizedIsNormal ==
  ASSUME NEW s \in Seq(Period), Apart(s)
  PROVE  /\ Normal(Normalized(s))
         /\ \A d \in Day : \A v : Says(ToSet(Normalized(s)), d, v) <=> Says(ToSet(s), d, v)
<1> DEFINE n == Len(s)
<1>0. n \in Nat /\ \A i \in 1 .. n : s[i] \in Period
  OBVIOUS
<1>1. PICK f \in [0 .. n -> Seq(Period)] :
         /\ f[0] = <<>> /\ f[n] = Normalized(s)
         /\ \A k \in 1 .. n : f[k] = Joined(f[k - 1], s[k])
  BY NormalizedSteps
<1> DEFINE Shows(k, d, v) == \E i \in 1 .. k : Covers(s[i], d) /\ s[i].preference = v
           Good == {k \in 0 .. n :
                      /\ Normal(f[k])
                      /\ f[k] # <<>> => k # 0 /\ f[k][Len(f[k])].until = s[k].until
                      /\ \A d \in Day : \A v : Says(ToSet(f[k]), d, v) <=> Shows(k, d, v)}
<1>2. 0 \in Good
  <2>1. Normal(<<>>)
    BY DEF Normal, Apart, Separate
  <2>2. \A d, v : ~Says(ToSet(<<>>), d, v)
    BY DEF Says, ToSet
  <2>3. \A d, v : ~Shows(0, d, v)
    OBVIOUS
  <2> HIDE DEF Shows
  <2>4. 0 \in 0 .. n
    BY <1>0
  <2> QED
    BY <1>1, <2>1, <2>2, <2>3, <2>4
<1>3. ASSUME NEW k \in 1 .. n, k - 1 \in Good PROVE k \in Good
  <2> DEFINE t == f[k - 1]
             r == s[k]
  <2>1. /\ Normal(t) /\ t \in Seq(Period) /\ r \in Period /\ k \in 0 .. n
        /\ t # <<>> => k - 1 \in 1 .. n /\ t[Len(t)].until = s[k - 1].until
        /\ \A d \in Day : \A v : Says(ToSet(t), d, v) <=> Shows(k - 1, d, v)
    BY <1>0, <1>3
  <2>2. t # <<>> => t[Len(t)].until <= r.from
    BY <2>1 DEF Apart
  <2>3. f[k] = Joined(t, r)
    BY <1>1
  <2> HIDE DEF t
  <2>4. Normal(f[k]) /\ \A d \in Day : \A v : Says(ToSet(f[k]), d, v) <=>
              Says(ToSet(t), d, v) \/ (Covers(r, d) /\ r.preference = v)
    BY <2>1, <2>2, <2>3, JoinedKeeps, Zenon
  <2>5. k # 0 /\ f[k][Len(f[k])].until = s[k].until
    <3>1. Joined(t, r)[Len(Joined(t, r))].until = r.until
      BY <2>1, JoinedTypes
    <3> QED
      BY <1>0, <2>3, <3>1
  <2>6. ASSUME NEW d \in Day, NEW v PROVE Shows(k, d, v) <=> Shows(k - 1, d, v) \/ (Covers(r, d) /\ r.preference = v)
    <3>1. \A i \in 1 .. k : i = k \/ i \in 1 .. k - 1
      OBVIOUS
    <3>2. k \in 1 .. k /\ \A i \in 1 .. k - 1 : i \in 1 .. k
      OBVIOUS
    <3> QED
      BY <3>1, <3>2, Zenon
  <2> HIDE DEF Shows, r
  <2>7. \A d \in Day : \A v : Says(ToSet(f[k]), d, v) <=> Shows(k, d, v)
    BY <2>1, <2>4, <2>6, Zenon
  <2> QED
    BY <2>1, <2>4, <2>5, <2>7
<1> HIDE DEF Good
<1>4. 0 .. n \subseteq Good
  BY <1>0, <1>2, <1>3, Upward, Zenon
<1>5. n \in Good
  BY <1>0, <1>4
<1>6. \A d, v : Says(ToSet(s), d, v) <=> Shows(n, d, v)
  BY SaysInOrder
<1> HIDE DEF Shows
<1> QED
  BY <1>1, <1>5, <1>6 DEF Good

\* A schedule in normal form stays as it is.
LEMMA NormalIsNormalized ==
  ASSUME NEW s, Normal(s)
  PROVE  Normalized(s) = s
<1> DEFINE n == Len(s)
<1>0. s \in Seq(Period) /\ n \in Nat
  BY DEF Normal
<1>1. PICK f \in [0 .. n -> Seq(Period)] :
         /\ f[0] = <<>> /\ f[n] = Normalized(s)
         /\ \A k \in 1 .. n : f[k] = Joined(f[k - 1], s[k])
  BY <1>0, NormalizedSteps
<1> DEFINE Good == {k \in 0 .. n : f[k] = SubSeq(s, 1, k)}
<1>2. 0 \in Good
  <2>1. SubSeq(s, 1, 0) = <<>> /\ 0 \in 0 .. n
    BY <1>0
  <2> QED
    BY <1>1, <2>1
<1>3. ASSUME NEW k \in 1 .. n, k - 1 \in Good PROVE k \in Good
  <2>1. f[k - 1] = SubSeq(s, 1, k - 1)
    BY <1>3
  <2> DEFINE t == SubSeq(s, 1, k - 1)
  <2>2. t \in Seq(Period) /\ Len(t) = k - 1 /\ \A i \in 1 .. k - 1 : t[i] = s[i]
    BY <1>0
  <2>3. ~(t # <<>> /\ Last(t).until = s[k].from /\ Last(t).preference = s[k].preference)
    <3>1. CASE k = 1
      BY <2>2, <3>1
    <3>2. CASE k # 1
      <4>1. k - 1 \in 1 .. n - 1 /\ (k - 1) + 1 = k
        BY <1>0, <3>2
      <4>2. Last(t) = s[k - 1]
        BY <2>2, <4>1 DEF Last
      <4> QED
        BY <4>1, <4>2 DEF Normal, Separate
    <3> QED
      BY <3>1, <3>2
  <2>4. f[k] = Append(t, s[k])
    BY <1>1, <2>1, <2>3 DEF Joined
  <2>5. Append(t, s[k]) = SubSeq(s, 1, k)
    BY <1>0
  <2>6. k \in 0 .. n
    BY <1>0
  <2> QED
    BY <2>4, <2>5, <2>6
<1> HIDE DEF Good
<1>4. 0 .. n \subseteq Good
  BY <1>0, <1>2, <1>3, Upward, Zenon
<1>5. n \in Good
  BY <1>0, <1>4
<1>6. SubSeq(s, 1, n) = s
  BY <1>0
<1> QED
  BY <1>1, <1>5, <1>6 DEF Good

-----------------------------------------------------------------------------
(* Rows in normal form. *)

\* Rows as amendments leave them: periods that share no day, of which none carries on
\* another.
Sound(rows) ==
  /\ rows \in SUBSET Period
  /\ Disjoint(rows)
  /\ \A r, q \in rows : r.until = q.from => r.preference # q.preference

\* The rows of a schedule in normal form are sound, and reading them sorts them back.
LEMMA NormalIsSound ==
  ASSUME NEW s, Normal(s)
  PROVE  Sound(ToSet(s)) /\ Ordered(s) /\ Sorted(ToSet(s)) = s
<1>0. s \in Seq(Period) /\ Apart(s) /\ Len(s) \in Nat
  BY DEF Normal
<1>1. /\ ToSet(s) \in SUBSET Period /\ Disjoint(ToSet(s)) /\ Ordered(s)
      /\ Sorted(ToSet(s)) = s
  BY <1>0, ApartIsSorted
<1>2. \A i \in 1 .. Len(s) : s[i].from \in Int /\ s[i].until \in Int /\ s[i].from < s[i].until
  BY <1>0, Elements, PeriodEnds
<1>3. ASSUME NEW r \in ToSet(s), NEW q \in ToSet(s), r.until = q.from
      PROVE  r.preference # q.preference
  <2>1. PICK i \in 1 .. Len(s) : s[i] = r
    BY <1>0, Elements, Zenon
  <2>2. PICK j \in 1 .. Len(s) : s[j] = q
    BY <1>0, Elements, Zenon
  <2>3. ~(j <= i)
    BY <1>0, <1>2, <1>3, <2>1, <2>2 DEF Apart
  <2>4. i + 1 \in 1 .. Len(s) /\ i \in 1 .. Len(s) - 1
    BY <1>0, <2>3
  <2>5. ~(i + 1 < j)
    BY <1>0, <1>2, <1>3, <2>1, <2>2, <2>4 DEF Apart
  <2>6. j = i + 1
    BY <2>3, <2>5
  <2> QED
    BY <1>3, <2>1, <2>2, <2>4, <2>6 DEF Normal, Separate
<1> QED
  BY <1>1, <1>3 DEF Sound

\* The schedule of rows in normal form is the rows in order, all of it as it was.
LEMMA SoundSchedule ==
  ASSUME NEW rows, Sound(rows)
  PROVE  /\ Normal(Sorted(rows)) /\ ToSet(Sorted(rows)) = rows
         /\ Normalized(Sorted(rows)) = Sorted(rows)
<1> DEFINE s == Sorted(rows)
<1>1. s \in Seq(Period) /\ ToSet(s) = rows /\ Apart(s)
  BY SortedSchedule DEF Sound
<1> HIDE DEF s
<1>2. Separate(s)
  <2> SUFFICES ASSUME NEW i \in 1 .. Len(s) - 1, s[i].until = s[i + 1].from
               PROVE  s[i].preference # s[i + 1].preference
    BY DEF Separate
  <2>1. i \in 1 .. Len(s) /\ i + 1 \in 1 .. Len(s)
    BY <1>1
  <2>2. s[i] \in rows /\ s[i + 1] \in rows
    BY <1>1, <2>1, Elements
  <2> QED
    BY <2>2 DEF Sound
<1>3. Normal(s)
  BY <1>1, <1>2 DEF Normal
<1> QED
  BY <1>1, <1>3, NormalIsNormalized DEF s

\* What an amendment makes of a schedule in normal form: one in normal form, with
\* the preference asked on the days of the amendment and what was there on all others.
LEMMA Overlaid ==
  ASSUME NEW s, Normal(s), NEW a \in Period, NEW included \in BOOLEAN
  PROVE  /\ Ordered(Sorted(Fragments(ToSet(s), a, included)))
         /\ Normal(Overlay(s, a, included))
         /\ \A d \in Day : \A v \in Preference :
              Says(ToSet(Overlay(s, a, included)), d, v) <=>
                IF Covers(a, d) THEN included /\ a.preference = v ELSE Says(ToSet(s), d, v)
<1> DEFINE rows == ToSet(s)
           F == Fragments(rows, a, included)
           t == Sorted(F)
<1>1. rows \in SUBSET Period /\ Disjoint(rows)
  BY NormalIsSound DEF Sound
<1> HIDE DEF rows
<1>2. F \in SUBSET Period /\ Disjoint(F)
  BY <1>1, FragmentsArePeriods, FragmentsDisjoint
<1>3. \A d \in Day : \A v \in Preference :
         Says(F, d, v) <=> IF Covers(a, d) THEN included /\ a.preference = v ELSE Says(rows, d, v)
  <2> SUFFICES ASSUME NEW d \in Day, NEW v \in Preference
               PROVE  (\E f \in F : Covers(f, d) /\ f.preference = v) <=>
                        IF Covers(a, d) THEN included /\ a.preference = v
                        ELSE \E r \in rows : Covers(r, d) /\ r.preference = v
    BY DEF Says
  <2> QED
    BY <1>1, FragmentsCover
<1> HIDE DEF F
<1>4. t \in Seq(Period) /\ ToSet(t) = F /\ Apart(t)
  BY <1>2, SortedSchedule
<1> HIDE DEF t
<1>5. Ordered(t)
  BY <1>4, ApartIsSorted
<1>6. Normal(Normalized(t)) /\ \A d \in Day : \A v : Says(ToSet(Normalized(t)), d, v) <=> Says(F, d, v)
  BY <1>4, NormalizedIsNormal, Zenon
<1>7. Overlay(s, a, included) = Normalized(t)
  BY DEF Overlay, t, F, rows
<1> QED
  BY <1>3, <1>5, <1>6, <1>7, Zenon DEF t, F, rows

\* On a day at most one period holds.
LEMMA SaysOnce ==
  ASSUME NEW rows, Sound(rows), NEW d \in Day, NEW r \in rows, NEW q \in rows,
         Covers(r, d), Covers(q, d)
  PROVE  r = q
<1>1. r \in Period /\ q \in Period
  BY DEF Sound
<1>2. Intersects(r, q)
  BY <1>1, IntersectsIsSharedDay
<1> QED
  BY <1>2 DEF Sound, Disjoint

\* The days decide the rows: what holds every day from the first of r to its last,
\* and is in normal form, is r.
LEMMA SameDays ==
  ASSUME NEW R, Sound(R), NEW Q, Sound(Q),
         \A d \in Day : \A v : Says(R, d, v) <=> Says(Q, d, v)
  PROVE  R \subseteq Q
<1> SUFFICES ASSUME NEW r \in R PROVE r \in Q
  OBVIOUS
<1>0. /\ \A x \in R \cup Q : /\ x \in Period /\ x.from \in Day /\ x.from \in Int /\ x.until \in Int
                             /\ x.from < x.until /\ x.until \in Day \cup {Forever}
                             /\ x.until <= Forever
      /\ Day = 0 .. LastDay /\ LastDay \in Nat /\ Forever = LastDay + 1
  BY PeriodEnds, ScheduleAssumption DEF Sound, Day, Forever
<1>1. PICK q \in Q : Covers(q, r.from) /\ q.preference = r.preference
  <2>1. Says(R, r.from, r.preference)
    BY <1>0 DEF Says, Covers
  <2> QED
    BY <1>0, <2>1 DEF Says
\* Two rows of one set with the same preference cannot follow each other.
<1>2. ~(q.from < r.from)
  <2> SUFFICES ASSUME q.from < r.from PROVE FALSE
    OBVIOUS
  <2>1. r.from - 1 \in Day /\ Covers(q, r.from - 1)
    BY <1>0, <1>1 DEF Covers
  <2>2. PICK x \in R : Covers(x, r.from - 1) /\ x.preference = r.preference
    BY <1>1, <2>1 DEF Says
  <2>3. x.until = r.from \/ (Covers(x, r.from) /\ x # r)
    BY <1>0, <2>2 DEF Covers
  <2>4. Covers(r, r.from)
    BY <1>0 DEF Covers
  <2> QED
    BY <1>0, <2>2, <2>3, <2>4, SaysOnce DEF Sound
<1>3. ~(r.from < q.from)
  BY <1>0, <1>1 DEF Covers
<1>4. q.from = r.from
  BY <1>0, <1>2, <1>3
<1>5. ASSUME NEW A, NEW B, Sound(A), Sound(B), A \cup B = R \cup Q,
             \A d \in Day : \A v : Says(A, d, v) <=> Says(B, d, v),
             NEW y \in A, NEW z \in B, y.from = z.from, y.preference = z.preference, y.until < z.until
      PROVE  FALSE
  <2>1. y.until \in Day /\ Covers(z, y.until)
    BY <1>0, <1>5 DEF Covers
  <2>2. PICK x \in A : Covers(x, y.until) /\ x.preference = y.preference
    BY <1>5, <2>1 DEF Says
  <2>3. x.from = y.until \/ (Covers(x, y.until - 1) /\ x # y)
    BY <1>0, <1>5, <2>2 DEF Covers
  <2>4. Covers(y, y.until - 1) /\ y.until - 1 \in Day
    BY <1>0, <1>5, <2>1 DEF Covers
  <2> QED
    BY <1>5, <2>2, <2>3, <2>4, SaysOnce DEF Sound
<1>6. ~(r.until < q.until) /\ ~(q.until < r.until)
  <2>1. ~(r.until < q.until)
    BY <1>1, <1>4, <1>5
  <2>2. Q \cup R = R \cup Q
    OBVIOUS
  <2>3. ~(q.until < r.until)
    BY <1>1, <1>4, <1>5, <2>2
  <2> QED
    BY <2>1, <2>3
<1>7. r.until = q.until
  BY <1>0, <1>6
<1>8. r = q
  BY <1>0, <1>1, <1>4, <1>7 DEF Period
<1> QED
  BY <1>8

-----------------------------------------------------------------------------
(* Reading. *)

\* Rows show w on day d, which is Unconfigured where no period is.
Tells(rows, d, w) ==
  Says(rows, d, w) \/ (w = Unconfigured /\ \A r \in rows : ~Covers(r, d))

\* Sound rows tell one preference a day.
LEMMA TellsOnce ==
  ASSUME NEW rows, Sound(rows), NEW d \in Day, NEW v, NEW w, Tells(rows, d, v), Tells(rows, d, w)
  PROVE  v = w
BY SaysOnce DEF Tells, Says

\* resolve_date finds what the rows show.
LEMMA ResolveTells ==
  ASSUME NEW s, Normal(s), NEW d \in Day
  PROVE  Tells(ToSet(s), d, Resolve(s, d))
<1> DEFINE ahead == {i \in 1 .. Len(s) : d < s[i].until}
<1>0. s \in Seq(Period) /\ Apart(s) /\ Len(s) \in Nat /\ d \in Int
  BY ScheduleAssumption DEF Normal, Day
<1>1. \A i \in 1 .. Len(s) : s[i].from \in Int /\ s[i].until \in Int /\ s[i].from < s[i].until
  BY <1>0, Elements, PeriodEnds
<1>2. /\ \A i \in 1 .. Len(s) : s[i] \in ToSet(s)
      /\ \A x \in ToSet(s) : \E i \in 1 .. Len(s) : s[i] = x
  BY <1>0, Elements
<1>3. CASE ahead = {}
  <2>1. Resolve(s, d) = Unconfigured
    BY <1>3 DEF Resolve
  <2>2. \A i \in 1 .. Len(s) : ~Covers(s[i], d)
    BY <1>3 DEF Covers
  <2> QED
    BY <1>2, <2>1, <2>2 DEF Tells
<1>4. CASE ahead # {}
  <2>0. ahead \in SUBSET Nat /\ ahead \in SUBSET Int
    OBVIOUS
  <2>1. PICK m \in ahead : \A y \in ahead : m <= y
    BY <1>4, <2>0, LeastNumber, Zenon
  <2>2. Min(ahead) = m
    BY <2>0, <2>1, Smallest
  <2>3. Resolve(s, d) = IF d < s[m].from THEN Unconfigured ELSE s[m].preference
    BY <1>4, <2>2 DEF Resolve
  <2>4. CASE d < s[m].from
    <3>1. ASSUME NEW i \in 1 .. Len(s) PROVE ~Covers(s[i], d)
      <4>1. i < m => i \notin ahead
        BY <2>0, <2>1
      <4>2. m < i => s[m].until <= s[i].from
        BY <1>0, <2>1 DEF Apart
      <4>3. i < m \/ i = m \/ m < i
        BY <2>1
      <4> QED
        BY <1>0, <1>1, <2>1, <2>4, <4>1, <4>2, <4>3 DEF Covers
    <3> QED
      BY <1>2, <2>3, <2>4, <3>1 DEF Tells
  <2>5. CASE ~(d < s[m].from)
    <3>1. Covers(s[m], d)
      BY <1>0, <1>1, <2>1, <2>5 DEF Covers
    <3> QED
      BY <1>2, <2>1, <2>3, <2>5, <3>1 DEF Tells, Says
  <2> QED
    BY <2>4, <2>5
<1> QED
  BY <1>3, <1>4

\* So does the table.
LEMMA ShownTells ==
  ASSUME NEW p \in Positions, NEW d \in Day
  PROVE  Tells(table[p], d, Shown(p, d))
<1> DEFINE rows == {r \in table[p] : Covers(r, d)}
<1>1. CASE rows = {}
  BY <1>1 DEF Shown, Tells
<1>2. CASE rows # {}
  <2>1. PICK r \in rows : r = CHOOSE x \in rows : TRUE
    BY <1>2
  <2>2. Shown(p, d) = r.preference
    BY <1>2, <2>1 DEF Shown
  <2> QED
    BY <2>1, <2>2 DEF Tells, Says
<1> QED
  BY <1>1, <1>2

-----------------------------------------------------------------------------
(* The table. *)

\* The rows of every position are in normal form.
SoundTable == table \in [Positions -> SUBSET Period] /\ \A p \in Positions : Sound(table[p])

\* A sound table is read as it was written, in normal form (_read_periods).
LEMMA ScheduleIsNormal ==
  ASSUME SoundTable, NEW p \in Positions
  PROVE  /\ Normal(Schedule(p)) /\ ToSet(Schedule(p)) = table[p]
         /\ Ordered(Sorted(table[p]))
<1>1. Sound(table[p])
  BY DEF SoundTable
<1>2. Normal(Sorted(table[p])) /\ ToSet(Sorted(table[p])) = table[p] /\ Schedule(p) = Sorted(table[p])
  BY <1>1, SoundSchedule DEF Schedule
<1> QED
  BY <1>2, NormalIsSound

\* The checks of an amendment refuse nothing.
LEMMA AlwaysAmendable ==
  ASSUME SoundTable, NEW p \in Positions, NEW a \in Period, NEW included \in BOOLEAN
  PROVE  Amendable(p, a, included)
<1> DEFINE s == Schedule(p)
           t == Overlay(s, a, included)
<1>1. Normal(s) /\ Ordered(Sorted(table[p]))
  BY ScheduleIsNormal
<1> HIDE DEF s
<1>2. Ordered(Sorted(Fragments(ToSet(s), a, included))) /\ Normal(t)
  BY <1>1, Overlaid
<1> HIDE DEF t
<1>3. Sorted(ToSet(t)) = t /\ Normalized(t) = t
  BY <1>2, NormalIsSound, NormalIsNormalized
<1> QED
  BY <1>1, <1>2, <1>3 DEF Amendable, s, t

\* In a sound table neighbouring periods differ, so that nothing is left to join.
LEMMA AlwaysNormalForm ==
  ASSUME SoundTable PROVE NormalForm
<1> SUFFICES ASSUME NEW p \in Positions, NEW o \in Positions,
                    \A d \in Day : Shown(p, d) = Shown(o, d)
             PROVE  table[p] = table[o]
  BY DEF NormalForm
<1>0. Sound(table[p]) /\ Sound(table[o])
  BY DEF SoundTable
<1>1. \A q \in Positions : \A d \in Day : Tells(table[q], d, Shown(q, d))
  BY ShownTells
<1>2. \A r \in table[p] \cup table[o] : r.preference # Unconfigured
  BY <1>0, PeriodEnds, ScheduleAssumption DEF Sound, Preference
<1>3. \A q \in {p, o} : \A d \in Day : \A v :
        Says(table[q], d, v) <=> Shown(q, d) = v /\ v # Unconfigured
  <2> SUFFICES ASSUME NEW q \in {p, o}, NEW d \in Day, NEW v
               PROVE  Says(table[q], d, v) <=> Shown(q, d) = v /\ v # Unconfigured
    OBVIOUS
  <2>1. Sound(table[q]) /\ Tells(table[q], d, Shown(q, d))
    BY <1>0, <1>1
  <2>2. Says(table[q], d, v) => v # Unconfigured /\ Tells(table[q], d, v)
    BY <1>2 DEF Says, Tells
  <2>3. Says(table[q], d, v) => Shown(q, d) = v
    BY <2>1, <2>2, TellsOnce
  <2>4. Shown(q, d) = v /\ v # Unconfigured => Says(table[q], d, v)
    BY <2>1 DEF Tells
  <2> QED
    BY <2>2, <2>3, <2>4
<1>4. \A d \in Day : \A v : Says(table[p], d, v) <=> Says(table[o], d, v)
  BY <1>3
<1>5. table[p] \subseteq table[o] /\ table[o] \subseteq table[p]
  BY <1>0, <1>4, SameDays
<1> QED
  BY <1>5

-----------------------------------------------------------------------------
(* Timelines. *)

\* A segment of a timeline; its preference may be Unconfigured.
Segments == [from : Int, until : Int, preference : Preference \cup {Unconfigured}]

\* The segments of t follow each other from day a to day b, differ from one to the
\* next, and tell what rows show.
Exact(t, rows, a, b) ==
  /\ t \in Seq(Segments)
  /\ IF t = <<>> THEN a = b ELSE t[1].from = a /\ t[Len(t)].until = b
  /\ \A i \in 1 .. Len(t) :
       /\ t[i].from < t[i].until
       /\ i > 1 => t[i].from = t[i - 1].until /\ t[i].preference # t[i - 1].preference
       /\ \A d \in t[i].from .. t[i].until - 1 : Tells(rows, d, t[i].preference)

\* Joining a segment to segments gives segments.
LEMMA SegmentsJoined ==
  ASSUME NEW t \in Seq(Segments), NEW r \in Segments
  PROVE  Joined(t, r) \in Seq(Segments)
<1>1. CASE t # <<>>
  <2> DEFINE l == t[Len(t)]
             x == [l EXCEPT !.until = r.until]
             f == SubSeq(t, 1, Len(t) - 1)
  <2>1. l \in Segments
    BY <1>1
  <2>2. x \in Segments
    BY <2>1 DEF Segments
  <2>3. f \in Seq(Segments)
    BY <1>1
  <2>4. Joined(t, r) \in {Append(f, x), Append(t, r)}
    BY DEF Joined, Front, Last
  <2> HIDE DEF x, f
  <2> QED
    BY <2>2, <2>3, <2>4
<1>2. CASE t = <<>>
  <2>1. Joined(t, r) = Append(t, r)
    BY <1>2 DEF Joined
  <2> QED
    BY <2>1
<1> QED
  BY <1>1, <1>2

\* A timeline goes on with a segment that tells the truth.
LEMMA ExactJoined ==
  ASSUME NEW rows, NEW a \in Int, NEW b \in Int, NEW t, Exact(t, rows, a, b),
         NEW r \in Segments, r.from = b, b < r.until,
         \A d \in r.from .. r.until - 1 : Tells(rows, d, r.preference)
  PROVE  Exact(Joined(t, r), rows, a, r.until)
<1> DEFINE n == Len(t)
           j == Joined(t, r)
<1>0. /\ t \in Seq(Segments) /\ n \in Nat /\ j \in Seq(Segments)
      /\ r.from \in Int /\ r.until \in Int
  <2>1. t \in Seq(Segments)
    BY DEF Exact
  <2>2. j \in Seq(Segments)
    BY <2>1, SegmentsJoined
  <2>3. r.from \in Int /\ r.until \in Int
    BY DEF Segments
  <2> QED
    BY <2>1, <2>2, <2>3
<1>0a. \A i \in 1 .. n : t[i] \in Segments
  BY <1>0
<1>0b. \A i \in 1 .. n : t[i].from \in Int /\ t[i].until \in Int
  BY <1>0a DEF Segments
<1>1. CASE t # <<>> /\ Last(t).until = r.from /\ Last(t).preference = r.preference
  <2> DEFINE x == [t[n] EXCEPT !.until = r.until]
             u == SubSeq(t, 1, n - 1)
  <2>1. n \in 1 .. n /\ t[n].until = r.from /\ t[n].preference = r.preference
    BY <1>0, <1>1 DEF Last
  <2>2. x.from = t[n].from /\ x.until = r.until /\ x.preference = t[n].preference /\ x \in Segments
    BY <1>0, <1>0a, <2>1 DEF Segments
  <2>3. j = Append(u, x)
    BY <1>1 DEF Joined, Front, Last
  <2>3a. u \in Seq(Segments) /\ Len(u) = n - 1 /\ \A i \in 1 .. n - 1 : u[i] = t[i]
    <3>1. n - 1 \in 0 .. Len(t)
      BY <1>0, <2>1
    <3> HIDE DEF n, u
    <3>2. \A m \in 0 .. Len(t) : LET w == SubSeq(t, 1, m)
                                 IN w \in Seq(Segments) /\ Len(w) = m /\ \A i \in 1 .. m : w[i] = t[i]
      BY <1>0
    <3> QED
      BY <3>1, <3>2 DEF u
  <2> HIDE DEF x, u
  <2>4. Len(j) = n /\ j[n] = x /\ \A i \in 1 .. n - 1 : j[i] = t[i]
    <3>1. u \in Seq(Segments) /\ j = Append(u, x)
      BY <2>3, <2>3a
    <3> HIDE DEF j
    <3>2. Len(j) = Len(u) + 1 /\ j[Len(u) + 1] = x /\ \A i \in 1 .. Len(u) : j[i] = u[i]
      BY <2>2, <3>1
    <3> QED
      BY <1>0, <2>3a, <3>2
  <2> HIDE DEF j
  <2>5. \A i \in 1 .. n : /\ j[i].from = t[i].from /\ j[i].preference = t[i].preference
                          /\ i < n => j[i].until = t[i].until
    <3> SUFFICES ASSUME NEW i \in 1 .. n
                 PROVE  /\ j[i].from = t[i].from /\ j[i].preference = t[i].preference
                        /\ i < n => j[i].until = t[i].until
      OBVIOUS
    <3>1. i = n \/ i \in 1 .. n - 1
      BY <1>0
    <3> QED
      BY <2>2, <2>4, <3>1
  <2>6. t[n].from < r.until
    BY <1>0, <1>0b, <2>1 DEF Exact
  <2>7. ASSUME NEW i \in 1 .. n
        PROVE  /\ j[i].from < j[i].until
               /\ i > 1 => j[i].from = j[i - 1].until /\ j[i].preference # j[i - 1].preference
               /\ \A d \in j[i].from .. j[i].until - 1 : Tells(rows, d, j[i].preference)
    <3>1. i > 1 => i - 1 \in 1 .. n /\ i - 1 < n
      BY <1>0
    <3>2. i > 1 => j[i].from = j[i - 1].until /\ j[i].preference # j[i - 1].preference
      BY <2>5, <3>1 DEF Exact
    <3>3. CASE i = n
      <4>1. j[i].from = t[n].from /\ j[i].until = r.until /\ j[i].preference = r.preference
        BY <2>1, <2>2, <2>4, <3>3
      <4>2. ASSUME NEW d \in t[n].from .. r.until - 1 PROVE Tells(rows, d, r.preference)
        <5>1. d \in t[n].from .. t[n].until - 1 \/ d \in r.from .. r.until - 1
          BY <1>0, <1>0b, <2>1
        <5> QED
          BY <2>1, <5>1 DEF Exact
      <4> QED
        BY <2>6, <3>2, <4>1, <4>2
    <3>4. CASE i # n
      <4>1. i < n
        BY <1>0, <3>4
      <4>2. j[i].from = t[i].from /\ j[i].until = t[i].until /\ j[i].preference = t[i].preference
        BY <2>5, <4>1
      <4> QED
        BY <3>2, <4>2 DEF Exact
    <3> QED
      BY <3>3, <3>4
  <2>8. j # <<>> /\ j[1].from = a /\ j[Len(j)].until = r.until
    <3>1. 1 \in 1 .. n /\ t[1].from = a
      BY <1>0, <1>1, <2>1 DEF Exact
    <3> QED
      BY <1>0, <2>2, <2>4, <2>5, <3>1
  <2> QED
    BY <1>0, <2>4, <2>7, <2>8 DEF Exact, j
<1>2. CASE ~(t # <<>> /\ Last(t).until = r.from /\ Last(t).preference = r.preference)
  <2>1. j = Append(t, r)
    BY <1>2 DEF Joined
  <2>2. t # <<>> => n \in 1 .. n /\ t[n].until = b /\ t[n].preference # r.preference
    BY <1>0, <1>2 DEF Last, Exact
  <2>3. Len(j) = n + 1 /\ j[n + 1] = r /\ \A i \in 1 .. n : j[i] = t[i]
    BY <1>0, <2>1
  <2> HIDE DEF j
  <2>4. ASSUME NEW i \in 1 .. n + 1
        PROVE  /\ j[i].from < j[i].until
               /\ i > 1 => j[i].from = j[i - 1].until /\ j[i].preference # j[i - 1].preference
               /\ \A d \in j[i].from .. j[i].until - 1 : Tells(rows, d, j[i].preference)
    <3>1. CASE i = n + 1
      <4>1. i > 1 => n \in 1 .. n /\ i - 1 = n /\ t # <<>>
        BY <1>0, <3>1
      <4>2. i > 1 => j[i - 1] = t[n]
        BY <2>3, <4>1
      <4> QED
        BY <2>2, <2>3, <3>1, <4>1, <4>2
    <3>2. CASE i # n + 1
      <4>1. i \in 1 .. n /\ (i > 1 => i - 1 \in 1 .. n)
        BY <1>0, <3>2
      <4>2. j[i] = t[i] /\ (i > 1 => j[i - 1] = t[i - 1])
        BY <2>3, <4>1
      <4> QED
        BY <4>1, <4>2 DEF Exact
    <3> QED
      BY <3>1, <3>2
  <2>5. j # <<>> /\ j[1].from = a /\ j[Len(j)].until = r.until
    <3>1. CASE t = <<>>
      BY <1>0, <2>3, <3>1 DEF Exact
    <3>2. CASE t # <<>>
      <4>1. 1 \in 1 .. n /\ t[1].from = a
        BY <1>0, <3>2 DEF Exact
      <4> QED
        BY <1>0, <2>3, <4>1
    <3> QED
      BY <3>1, <3>2
  <2> QED
    BY <1>0, <2>3, <2>4, <2>5 DEF Exact, j
<1> QED
  BY <1>1, <1>2

\* What a timeline is made of, period by period.
Clips == [cursor : Int, segments : Seq(Segments)]

\* One turn of the loop of _materialize_timeline keeps its types.
LEMMA ClippedTypes ==
  ASSUME NEW acc \in Clips, NEW r \in Period, NEW start \in Int, NEW end \in Int
  PROVE  Clipped(acc, r, start, end) \in Clips
<1>0. acc.cursor \in Int /\ acc.segments \in Seq(Segments)
  BY DEF Clips
<1>1. r.from \in Int /\ r.until \in Int /\ r.preference \in Preference
  BY PeriodEnds
<1> DEFINE from  == Later(start, r.from)
           until == Earlier(end, r.until)
<1>2. from \in Int /\ until \in Int
  BY <1>1 DEF Later, Earlier
<1>3. \A b, u \in Int : \A v \in Preference \cup {Unconfigured} : Segment(b, u, v) \in Segments
  BY DEF Segment, Segments
<1> HIDE DEF from, until
<1>4. Filled(acc, from) \in Seq(Segments)
  <2>1. Segment(acc.cursor, from, Unconfigured) \in Segments
    BY <1>0, <1>2, <1>3
  <2> QED
    BY <1>0, <2>1, SegmentsJoined DEF Filled
<1>5. Later(acc.cursor, from) \in Int
  BY <1>0, <1>2 DEF Later
<1>6. Segment(Later(acc.cursor, from), until, r.preference) \in Segments
  BY <1>1, <1>2, <1>3, <1>5
<1>7. Joined(Filled(acc, from), Segment(Later(acc.cursor, from), until, r.preference)) \in Seq(Segments)
  BY <1>4, <1>6, SegmentsJoined
<1> QED
  BY <1>2, <1>7 DEF Clipped, Clips, from, until

\* The timeline is made by clipping one period after the other.
LEMMA TimelineSteps ==
  ASSUME NEW s \in Seq(Period), NEW start \in Int, NEW end \in Int
  PROVE  \E f \in [0 .. Len(s) -> Clips] :
            /\ f[0] = [cursor |-> start, segments |-> <<>>]
            /\ Timeline(s, start, end) = Filled(f[Len(s)], end)
            /\ \A k \in 1 .. Len(s) : f[k] = Clipped(f[k - 1], s[k], start, end)
<1> DEFINE n == Len(s)
           base == [cursor |-> start, segments |-> <<>>]
           h == [x \in Clips \X (1 .. n) |-> Clipped(x[1], s[x[2]], start, end)]
           Solved(it) == [t \in SUBSET (DOMAIN s) |->
                          IF t = {} THEN base ELSE Clipped(it[t \ {Max(t)}], s[Max(t)], start, end)]
           iter == CHOOSE it : it = Solved(it)
<1>0. n \in Nat /\ DOMAIN s = 1 .. n /\ \A k \in 1 .. n : s[k] \in Period
  OBVIOUS
<1>1. h \in [Clips \X (1 .. n) -> Clips]
  BY <1>0, ClippedTypes
<1>1a. base \in Clips
  BY DEF Clips
<1> HIDE DEF base
<1>2. PICK g \in [SUBSET (1 .. n) -> Clips] : FoldsUpTo(g, n, base, h)
  <2> HIDE DEF h, n
  <2> QED
    BY <1>0, <1>1, <1>1a, FoldExists
<1>3. g = Solved(g)
  <2>1. ASSUME NEW t \in SUBSET (1 .. n), t # {}
        PROVE  g[t] = Clipped(g[t \ {Max(t)}], s[Max(t)], start, end)
    <3>1. Max(t) \in t
      BY <1>0, <2>1, MaxOfPlaces
    <3>3. Max(t) \in 1 .. n /\ t \ {Max(t)} \in SUBSET (1 .. n) /\ g[t \ {Max(t)}] \in Clips
      BY <3>1
    <3>4. g[t] = h[<<g[t \ {Max(t)}], Max(t)>>]
      BY <1>2, <2>1 DEF FoldsUpTo
    <3> QED
      BY <3>3, <3>4
  <2>2. g[{}] = base
    BY <1>2 DEF FoldsUpTo
  <2> HIDE DEF h
  <2>3. g = [t \in SUBSET (1 .. n) |-> g[t]]
    BY <1>2
  <2>4. \A t \in SUBSET (1 .. n) :
          g[t] = IF t = {} THEN base ELSE Clipped(g[t \ {Max(t)}], s[Max(t)], start, end)
    BY <2>1, <2>2
  <2> QED
    BY <1>0, <2>3, <2>4
<1> HIDE DEF Solved
<1>4. iter = Solved(iter)
  BY <1>3, Zenon
<1>5. FoldLeft(LAMBDA acc, r : Clipped(acc, r, start, end), base, s) = iter[DOMAIN s]
  BY Zenon DEF FoldLeft, MapThenFoldSet, Solved
<1>5a. Timeline(s, start, end) = Filled(iter[DOMAIN s], end)
  BY <1>5, Zenon DEF Timeline, base
<1> HIDE DEF iter
<1> DEFINE f == [k \in 0 .. n |-> iter[1 .. k]]
<1>6. \A t \in SUBSET (1 .. n) :
        iter[t] = IF t = {} THEN base ELSE Clipped(iter[t \ {Max(t)}], s[Max(t)], start, end)
  BY <1>0, <1>4 DEF Solved
<1>7. f[0] = base
  <2>1. 1 .. 0 = {} /\ {} \in SUBSET (1 .. n) /\ 0 \in 0 .. n
    BY <1>0
  <2>2. f[0] = iter[{}]
    BY <2>1
  <2> QED
    BY <1>6, <2>1, <2>2
<1>8. ASSUME NEW k \in 1 .. n PROVE f[k] = Clipped(f[k - 1], s[k], start, end)
  <2>1. 1 .. k \in SUBSET (1 .. n) /\ 1 .. k # {} /\ k \in 1 .. k /\ k - 1 \in 0 .. n /\ k \in 0 .. n
    BY <1>0
  <2>2. Max(1 .. k) = k
    <3>1. 1 .. k \in SUBSET Int /\ \A x \in 1 .. k : x <= k
      OBVIOUS
    <3> QED
      BY <2>1, <3>1, Largest
  <2>3. (1 .. k) \ {k} = 1 .. (k - 1)
    OBVIOUS
  <2>4. iter[1 .. k] = Clipped(iter[1 .. (k - 1)], s[k], start, end)
    BY <1>6, <2>1, <2>2, <2>3
  <2> QED
    BY <2>1, <2>4
<1>9. Timeline(s, start, end) = Filled(f[n], end)
  BY <1>0, <1>5a
<1> HIDE DEF f
<1>10. f \in [0 .. n -> Clips]
  <2> DEFINE Good == {k \in 0 .. n : f[k] \in Clips}
  <2>1. 0 \in Good
    BY <1>0, <1>1a, <1>7
  <2>2. ASSUME NEW k \in 1 .. n, k - 1 \in Good PROVE k \in Good
    <3>1. f[k - 1] \in Clips /\ s[k] \in Period /\ k \in 0 .. n
      BY <1>0, <2>2
    <3>2. Clipped(f[k - 1], s[k], start, end) \in Clips
      BY <3>1, ClippedTypes
    <3> QED
      BY <1>8, <3>1, <3>2
  <2> HIDE DEF Good
  <2>3. 0 .. n \subseteq Good
    BY <1>0, <2>1, <2>2, Upward, Zenon
  <2>4. f = [k \in 0 .. n |-> f[k]]
    BY DEF f
  <2>5. \A k \in 0 .. n : f[k] \in Clips
    BY <2>3 DEF Good
  <2> QED
    BY <2>4, <2>5
<1> QED
  BY <1>7, <1>8, <1>9, <1>10 DEF base

\* Filling a gap, on the days of which rows say nothing, keeps segments exact.
LEMMA FilledExact ==
  ASSUME NEW rows, NEW start \in Int, NEW acc \in Clips, NEW u \in Int,
         Exact(acc.segments, rows, start, acc.cursor), acc.cursor <= u,
         \A d \in acc.cursor .. u - 1 : \A r \in rows : ~Covers(r, d)
  PROVE  Exact(Filled(acc, u), rows, start, u)
<1>0. acc.cursor \in Int
  BY DEF Clips
<1>1. CASE acc.cursor < u
  <2> DEFINE r == Segment(acc.cursor, u, Unconfigured)
  <2>1. r \in Segments /\ r.from = acc.cursor /\ r.until = u /\ r.preference = Unconfigured
    BY <1>0 DEF Segment, Segments
  <2> HIDE DEF r
  <2>2. \A d \in r.from .. r.until - 1 : Tells(rows, d, r.preference)
    BY <2>1 DEF Tells
  <2>3. Exact(Joined(acc.segments, r), rows, start, u)
    BY <1>0, <1>1, <2>1, <2>2, ExactJoined
  <2> QED
    BY <1>1, <2>3 DEF Filled, r
<1>2. CASE ~(acc.cursor < u)
  BY <1>0, <1>2 DEF Filled
<1> QED
  BY <1>1, <1>2

\* What has been made of the first k periods of s: a timeline up to the cursor, behind
\* which none of them holds and before which no other begins.
Made(acc, s, k, start, end) ==
  /\ acc.cursor \in start .. end
  /\ Exact(acc.segments, ToSet(s), start, acc.cursor)
  /\ \A j \in 1 .. k : \A d \in acc.cursor .. end - 1 : ~Covers(s[j], d)
  /\ acc.cursor = start \/ \A j \in k + 1 .. Len(s) : acc.cursor <= s[j].from

\* One turn of the loop of _materialize_timeline, on the next period of the
\* schedule, keeps its invariant: what is made is exact up to the cursor.
LEMMA ClippedMade ==
  ASSUME NEW s, Normal(s), NEW start \in Int, NEW end \in Int, start < end,
         NEW k \in 1 .. Len(s), NEW acc \in Clips, Made(acc, s, k - 1, start, end)
  PROVE  Made(Clipped(acc, s[k], start, end), s, k, start, end)
<1> DEFINE n == Len(s)
           r == s[k]
           new == Clipped(acc, r, start, end)
           from  == Later(start, r.from)
           until == Earlier(end, r.until)
<1>0. /\ s \in Seq(Period) /\ Apart(s) /\ n \in Nat
      /\ acc.cursor \in Int /\ acc.cursor \in start .. end
  BY DEF Normal, Clips, Made
<1>1. \A i \in 1 .. n : /\ s[i] \in Period /\ s[i].from \in Int /\ s[i].until \in Int
                        /\ s[i].from < s[i].until
  BY <1>0, Elements, PeriodEnds
<1>2. \A x \in ToSet(s) : \E i \in 1 .. n : s[i] = x
  BY <1>0, Elements
<1>3. \A i \in 1 .. k : i = k \/ i \in 1 .. k - 1
  OBVIOUS
<1>4. CASE r.until <= start \/ r.from >= end
  <2>1. new = acc
    BY <1>4 DEF Clipped
  <2>2. \A d \in acc.cursor .. end - 1 : ~Covers(r, d)
    BY <1>0, <1>1, <1>4 DEF Covers
  <2>3. \A j \in k + 1 .. n : j \in (k - 1) + 1 .. n
    OBVIOUS
  <2> QED
    BY <1>3, <2>1, <2>2, <2>3 DEF Made
<1>5. CASE ~(r.until <= start \/ r.from >= end)
  <2>1. /\ from \in Int /\ until \in Int /\ start <= from /\ from < until /\ until <= end
        /\ r.from <= from /\ until <= r.until
        /\ from = start \/ from = r.from
        /\ until = end \/ until = r.until
    BY <1>1, <1>5 DEF Later, Earlier
  <2> HIDE DEF from, until
  <2>2. acc.cursor <= from
    <3>1. CASE acc.cursor = start
      BY <2>1, <3>1
    <3>2. CASE \A j \in (k - 1) + 1 .. n : acc.cursor <= s[j].from
      <4>1. k \in (k - 1) + 1 .. n
        OBVIOUS
      <4>2. acc.cursor <= r.from
        BY <3>2, <4>1
      <4> QED
        BY <1>0, <1>1, <2>1, <4>2
    <3> QED
      BY <3>1, <3>2 DEF Made
  <2>3. Later(acc.cursor, from) = from
    BY <1>0, <2>1, <2>2 DEF Later
  <2> DEFINE seg == Segment(from, until, r.preference)
             head == Filled(acc, from)
  <2>4. seg \in Segments /\ seg.from = from /\ seg.until = until /\ seg.preference = r.preference
    <3>1. r.preference \in Preference
      BY <1>1, PeriodEnds
    <3> QED
      BY <2>1, <3>1 DEF Segment, Segments
  <2>5. new = [cursor |-> until, segments |-> Joined(head, seg)]
    BY <1>5, <2>3 DEF Clipped, from, until
  <2>6. ASSUME NEW d \in acc.cursor .. from - 1, NEW i \in 1 .. n PROVE ~Covers(s[i], d)
    <3>0. d \in Int /\ d \in acc.cursor .. end - 1 /\ d < r.from
      BY <1>0, <1>1, <2>1
    <3>1. CASE i < k
      <4>1. i \in 1 .. k - 1
        BY <3>1
      <4> QED
        BY <3>0, <4>1 DEF Made
    <3>2. CASE i = k
      BY <1>1, <3>0, <3>2 DEF Covers
    <3>3. CASE k < i
      <4>1. r.until <= s[i].from
        BY <1>0, <3>3 DEF Apart
      <4> QED
        BY <1>1, <3>0, <4>1 DEF Covers
    <3> QED
      BY <3>1, <3>2, <3>3
  <2>7. \A d \in acc.cursor .. from - 1 : \A x \in ToSet(s) : ~Covers(x, d)
    BY <1>2, <2>6
  <2>8. Exact(head, ToSet(s), start, from)
    <3>1. Exact(acc.segments, ToSet(s), start, acc.cursor)
      BY DEF Made
    <3> QED
      BY <2>1, <2>2, <2>7, <3>1, FilledExact
  <2> HIDE DEF seg, head, new, r
  <2>9. \A d \in seg.from .. seg.until - 1 : Tells(ToSet(s), d, seg.preference)
    <3>1. s[k] \in ToSet(s)
      BY <1>0, Elements
    <3>2. \A d \in from .. until - 1 : Covers(s[k], d)
      BY <1>1, <2>1 DEF Covers, r
    <3> QED
      BY <2>4, <3>1, <3>2 DEF Tells, Says, r
  <2>10. Exact(Joined(head, seg), ToSet(s), start, until)
    BY <2>1, <2>4, <2>8, <2>9, ExactJoined
  <2>11. new.cursor = until /\ new.segments = Joined(head, seg)
    BY <2>5
  <2>12. ASSUME NEW j \in 1 .. k, NEW d \in until .. end - 1 PROVE ~Covers(s[j], d)
    <3>0. d \in Int /\ r = s[k] /\ k \in 1 .. n
      BY <2>1 DEF r
    <3>1. CASE j = k
      BY <1>1, <2>1, <3>0, <3>1 DEF Covers
    <3>2. CASE j # k
      <4>1. j \in 1 .. n /\ j \in 1 .. k - 1 /\ d \in acc.cursor .. end - 1
        BY <1>0, <2>1, <2>2, <3>2
      <4> QED
        BY <4>1 DEF Made
    <3> QED
      BY <3>1, <3>2
  <2>13. \A j \in k + 1 .. n : until <= s[j].from
    <3> SUFFICES ASSUME NEW j \in k + 1 .. n PROVE until <= s[j].from
      OBVIOUS
    <3>1. j \in 1 .. n /\ k < j
      OBVIOUS
    <3>2. s[k].until <= s[j].from
      BY <1>0, <3>1 DEF Apart
    <3> QED
      BY <1>1, <2>1, <3>1, <3>2 DEF r
  <2>14. until \in start .. end
    BY <2>1
  <2> QED
    BY <2>10, <2>11, <2>12, <2>13, <2>14 DEF Made, new, r
<1> QED
  BY <1>4, <1>5

\* The timeline of a schedule in normal form tells day by day what its rows say.
LEMMA TimelineIsExact ==
  ASSUME NEW s, Normal(s), NEW start \in Int, NEW end \in Int, start < end
  PROVE  Exact(Timeline(s, start, end), ToSet(s), start, end)
<1> DEFINE n == Len(s)
<1>0. s \in Seq(Period) /\ n \in Nat
  BY DEF Normal
<1>1. PICK f \in [0 .. n -> Clips] :
        /\ f[0] = [cursor |-> start, segments |-> <<>>]
        /\ Timeline(s, start, end) = Filled(f[n], end)
        /\ \A k \in 1 .. n : f[k] = Clipped(f[k - 1], s[k], start, end)
  BY <1>0, TimelineSteps
<1> DEFINE Good == {k \in 0 .. n : Made(f[k], s, k, start, end)}
<1>2. 0 \in Good
  <2>1. f[0].cursor = start /\ f[0].segments = <<>> /\ start \in start .. end
    BY <1>1
  <2>2. Exact(<<>>, ToSet(s), start, start)
    BY DEF Exact
  <2>3. Made(f[0], s, 0, start, end)
    BY <2>1, <2>2 DEF Made
  <2> QED
    BY <1>0, <2>3
<1>3. ASSUME NEW k \in 1 .. n, k - 1 \in Good PROVE k \in Good
  <2>1. f[k - 1] \in Clips /\ Made(f[k - 1], s, k - 1, start, end) /\ k \in 0 .. n
    BY <1>0, <1>3
  <2>2. Made(f[k], s, k, start, end)
    BY <1>1, <2>1, ClippedMade
  <2> QED
    BY <2>1, <2>2
<1> HIDE DEF Good
<1>4. 0 .. n \subseteq Good
  BY <1>0, <1>2, <1>3, Upward, Zenon
<1>5. Made(f[n], s, n, start, end) /\ f[n] \in Clips
  <2>1. n \in 0 .. n
    BY <1>0
  <2> QED
    BY <1>4, <2>1 DEF Good
<1>6. \A d \in f[n].cursor .. end - 1 : \A x \in ToSet(s) : ~Covers(x, d)
  <2>1. \A x \in ToSet(s) : \E i \in 1 .. n : s[i] = x
    BY <1>0, Elements
  <2> QED
    BY <1>5, <2>1 DEF Made
<1>7. f[n].cursor <= end /\ Exact(f[n].segments, ToSet(s), start, f[n].cursor)
  BY <1>5 DEF Made, Clips
<1> QED
  BY <1>1, <1>5, <1>6, <1>7, FilledExact

\* In a sound table every timeline of every window is exact.
LEMMA AlwaysExact ==
  ASSUME SoundTable PROVE TimelineExact
<1> SUFFICES ASSUME NEW p \in Positions, NEW start \in Day, NEW end \in 1 .. LastDay + 1,
                    start < end
             PROVE  LET t == Timeline(Schedule(p), start, end) IN
      /\ t # <<>> /\ t[1].from = start /\ Last(t).until = end
      /\ \A i \in 1..Len(t) :
           /\ t[i].from < t[i].until
           /\ i > 1 => /\ t[i].from = t[i - 1].until
                       /\ t[i].preference # t[i - 1].preference
           /\ \A d \in t[i].from..t[i].until - 1 :
                /\ Resolve(Schedule(p), d) = t[i].preference
                /\ Shown(p, d) = t[i].preference
  BY DEF TimelineExact
<1> DEFINE s == Schedule(p)
           t == Timeline(s, start, end)
<1>0. start \in Int /\ end \in Int /\ 0 <= start /\ end <= LastDay + 1 /\ LastDay \in Nat
  BY ScheduleAssumption DEF Day
<1>1. Normal(s) /\ ToSet(s) = table[p] /\ Sound(table[p])
  BY ScheduleIsNormal DEF SoundTable
<1> HIDE DEF s
<1>2. Exact(t, table[p], start, end)
  BY <1>0, <1>1, TimelineIsExact
<1> HIDE DEF t
<1>3. t \in Seq(Segments) /\ t # <<>> /\ t[1].from = start /\ t[Len(t)].until = end /\ Len(t) \in Nat
  BY <1>0, <1>2 DEF Exact
<1>4. \A i \in 1 .. Len(t) : t[i].from \in Int /\ t[i].until \in Int
  <2>1. \A i \in 1 .. Len(t) : t[i] \in Segments
    BY <1>3
  <2> QED
    BY <2>1 DEF Segments
\* The segments follow each other, so each lies within the window.
<1>5. \A i \in 1 .. Len(t) : start <= t[i].from
  <2> DEFINE Good == {k \in 0 .. Len(t) : k > 0 => start <= t[k].from}
  <2>1. 0 \in Good
    BY <1>3
  <2>2. ASSUME NEW k \in 1 .. Len(t), k - 1 \in Good PROVE k \in Good
    <3>1. CASE k = 1
      BY <1>0, <1>3, <3>1
    <3>2. CASE k > 1
      <4>1. k - 1 \in 1 .. Len(t) /\ start <= t[k - 1].from /\ t[k - 1].from < t[k - 1].until /\ t[k].from = t[k - 1].until
        BY <1>2, <1>3, <2>2, <3>2 DEF Exact
      <4> QED
        BY <1>0, <1>3, <1>4, <4>1
    <3> QED
      BY <3>1, <3>2
  <2> HIDE DEF Good
  <2>3. 0 .. Len(t) \subseteq Good
    BY <1>3, <2>1, <2>2, Upward, Zenon
  <2> QED
    BY <1>3, <2>3 DEF Good
<1>6. \A i \in 1 .. Len(t) : t[i].until <= end
  <2> DEFINE n == Len(t)
             Good == {k \in 0 .. n : k < n => t[n - k].until <= end}
  <2>1. 0 \in Good
    BY <1>0, <1>3
  <2>2. ASSUME NEW k \in 1 .. n, k - 1 \in Good PROVE k \in Good
    <3>1. CASE k < n
      <4>1. (n - k) + 1 \in 1 .. n /\ n - k \in 1 .. n /\ (n - k) + 1 = n - (k - 1) /\ ((n - k) + 1) - 1 = n - k
        BY <1>3, <3>1
      <4>2. t[(n - k) + 1].until <= end
        BY <2>2, <3>1, <4>1
      <4>3. t[(n - k) + 1].from < t[(n - k) + 1].until /\ t[(n - k) + 1].from = t[n - k].until
        BY <1>2, <1>3, <3>1, <4>1 DEF Exact
      <4> QED
        BY <1>0, <1>3, <1>4, <4>1, <4>2, <4>3
    <3> QED
      BY <1>3, <3>1
  <2> HIDE DEF Good
  <2>3. 0 .. n \subseteq Good
    BY <1>3, <2>1, <2>2, Upward, Zenon
  <2>4. \A i \in 1 .. n : n - i \in Good /\ n - (n - i) = i /\ n - i < n
    BY <1>3, <2>3
  <2> QED
    BY <1>3, <2>4 DEF Good
<1>7. ASSUME NEW i \in 1 .. Len(t), NEW d \in t[i].from .. t[i].until - 1
      PROVE  Resolve(s, d) = t[i].preference /\ Shown(p, d) = t[i].preference
  <2>1. d \in Day
    BY <1>0, <1>4, <1>5, <1>6 DEF Day
  <2>2. Tells(table[p], d, t[i].preference)
    BY <1>2 DEF Exact
  <2>3. Tells(table[p], d, Resolve(s, d)) /\ Tells(table[p], d, Shown(p, d))
    BY <1>1, <2>1, ResolveTells, ShownTells
  <2> QED
    BY <1>1, <2>1, <2>2, <2>3, TellsOnce
<1>8. t # <<>> /\ t[1].from = start /\ Last(t).until = end
  BY <1>3 DEF Last
<1>9. \A i \in 1 .. Len(t) :
        /\ t[i].from < t[i].until
        /\ i > 1 => t[i].from = t[i - 1].until /\ t[i].preference # t[i - 1].preference
  BY <1>2 DEF Exact
<1> QED
  BY <1>7, <1>8, <1>9 DEF s, t

-----------------------------------------------------------------------------
(* What set-up may fill in. *)

\* What set-up infers from any accepted moves are disjoint periods with moves,
\* which once they have begun leave no day out (_infer_periods).
LEMMA InferredRows ==
  ASSUME NEW D \in SUBSET Day, NEW accepted \in [D -> Moves]
  PROVE  /\ Inferred(accepted) \in SUBSET Period /\ Disjoint(Inferred(accepted))
         /\ \A r \in Inferred(accepted) : r.preference \in Moves
         /\ \A d, e \in Day : d < e /\ (\E r \in Inferred(accepted) : Covers(r, d)) =>
              \E r \in Inferred(accepted) : Covers(r, e)
<1> DEFINE After(d) == {e \in DOMAIN accepted : e > d} \cup {Forever}
           End(d) == Min(After(d))
           Row(d) == [from |-> d, until |-> End(d), preference |-> accepted[d]]
           rows == Inferred(accepted)
<1>0. /\ DOMAIN accepted = D /\ LastDay \in Nat /\ Day = 0 .. LastDay /\ Forever = LastDay + 1
      /\ \A d \in D : d \in Day /\ d \in Nat
  BY ScheduleAssumption DEF Day, Forever
<1>1. ASSUME NEW d \in D
      PROVE  /\ End(d) \in D \cup {Forever} /\ d < End(d) /\ End(d) \in Int
             /\ \A e \in D : d < e => End(d) <= e
  <2>1. After(d) = {e \in D : e > d} \cup {Forever}
    BY <1>0
  <2>2. After(d) \in SUBSET Nat /\ After(d) # {} /\ After(d) \in SUBSET Int
    <3> HIDE DEF After
    <3>0. Forever \in Nat /\ \A e \in D : e \in Nat
      BY <1>0
    <3>1. \A e \in After(d) : e \in Nat /\ e \in Int
      BY <2>1, <3>0
    <3>2. Forever \in After(d)
      BY <2>1
    <3> QED
      BY <3>1, <3>2
  <2>3. PICK m \in After(d) : \A y \in After(d) : m <= y
    BY <2>2, LeastNumber, Zenon
  <2>4. End(d) = m
    BY <2>2, <2>3, Smallest
  <2>5. m \in D \cup {Forever} /\ d < m /\ m \in Int
    BY <1>0, <2>1, <2>3
  <2>6. \A e \in D : d < e => e \in After(d)
    BY <1>0, <2>1
  <2> HIDE DEF After
  <2> QED
    BY <2>3, <2>4, <2>5, <2>6
<1>2. rows = {Row(d) : d \in D}
  BY <1>0 DEF Inferred
<1> HIDE DEF End, rows
<1>3. \A d \in D : Row(d).from = d /\ Row(d).until = End(d) /\ Row(d).preference = accepted[d]
  OBVIOUS
<1>4. ASSUME NEW d \in D PROVE Row(d) \in Period /\ Row(d).preference \in Moves
  <2>1. d \in Day /\ End(d) \in Day \cup {Forever} /\ d < End(d) /\ accepted[d] \in Moves
    BY <1>0, <1>1
  <2> QED
    BY <2>1 DEF Period, Preference
<1> HIDE DEF Row
<1>5. \A r \in rows : \E d \in D : r = Row(d)
  BY <1>2
<1>6. Disjoint(rows)
  <2> SUFFICES ASSUME NEW c \in D, NEW d \in D, Row(c) # Row(d) PROVE ~Intersects(Row(c), Row(d))
    BY <1>5, Zenon DEF Disjoint
  <2>1. c # d /\ c \in Int /\ d \in Int
    BY <1>0
  <2>2. c < d => End(c) <= d
    BY <1>1
  <2>3. d < c => End(d) <= c
    BY <1>1
  <2> QED
    BY <1>1, <1>3, <2>1, <2>2, <2>3 DEF Intersects
<1>7. ASSUME NEW d \in Day, NEW e \in Day, d < e, \E r \in rows : Covers(r, d)
      PROVE  \E r \in rows : Covers(r, e)
  <2>1. PICK c \in D : Covers(Row(c), d)
    BY <1>5, <1>7
  <2> DEFINE U == {e - x : x \in {y \in D : y <= e}}
  <2>2. c <= e
    BY <1>0, <1>3, <1>7, <2>1 DEF Covers
  <2>3. U \in SUBSET Nat /\ U # {}
    <3>1. \A x \in {y \in D : y <= e} : e - x \in Nat
      BY <1>0
    <3> QED
      BY <2>2, <3>1
  <2>4. PICK u \in U : \A y \in U : u <= y
    BY <2>3, LeastNumber, Zenon
  <2>5. PICK g \in D : g <= e /\ u = e - g
    BY <2>4
  <2>6. \A x \in D : x <= e => x <= g
    <3> SUFFICES ASSUME NEW x \in D, x <= e PROVE x <= g
      OBVIOUS
    <3>1. e - x \in U
      OBVIOUS
    <3>2. e - g <= e - x
      BY <2>4, <2>5, <3>1
    <3>3. e \in Int /\ g \in Int /\ x \in Int
      BY <1>0
    <3> QED
      BY <3>2, <3>3
  <2>7. End(g) > e
    BY <1>0, <1>1, <2>6
  <2>8. Covers(Row(g), e)
    BY <1>3, <2>5, <2>7 DEF Covers
  <2> QED
    BY <1>2, <2>8
<1>8. rows \in SUBSET Period /\ \A r \in rows : r.preference \in Moves
  BY <1>4, <1>5
<1> QED
  BY <1>6, <1>7, <1>8 DEF rows

\* What set-up may write for a position is sound, has moves only and has no gap.
LEMMA InferrableRows ==
  ASSUME NEW R \in Inferrable
  PROVE  /\ Sound(R)
         /\ \A r \in R : r.preference \in Moves
         /\ \A d, e \in Day : d < e /\ (\E r \in R : Covers(r, d)) => \E r \in R : Covers(r, e)
<1>1. PICK accepted \in UNION {[D -> Moves] : D \in SUBSET Day} :
        R = ToSet(Normalized(Sorted(Inferred(accepted))))
  BY DEF Inferrable
<1>2. PICK D \in SUBSET Day : accepted \in [D -> Moves]
  OBVIOUS
<1> DEFINE rows == Inferred(accepted)
           s == Sorted(rows)
<1>3. /\ rows \in SUBSET Period /\ Disjoint(rows)
      /\ \A r \in rows : r.preference \in Moves
      /\ \A d, e \in Day : d < e /\ (\E r \in rows : Covers(r, d)) => \E r \in rows : Covers(r, e)
  BY <1>2, InferredRows
<1> HIDE DEF rows
<1>4. s \in Seq(Period) /\ Apart(s) /\ ToSet(s) = rows
  BY <1>3, SortedSchedule
<1> HIDE DEF s
<1>5. Normal(Normalized(s)) /\ \A d \in Day : \A v : Says(ToSet(Normalized(s)), d, v) <=> Says(rows, d, v)
  BY <1>4, NormalizedIsNormal, Zenon
<1>6. R = ToSet(Normalized(s))
  BY <1>1 DEF s, rows
<1>7. Sound(R) /\ \A d \in Day : \A v : Says(R, d, v) <=> Says(rows, d, v)
  BY <1>5, <1>6, NormalIsSound
<1>8. ASSUME NEW r \in R PROVE r.preference \in Moves
  <2>1. r \in Period
    BY <1>7 DEF Sound
  <2>2. r.from \in Day /\ r.from \in Int /\ r.until \in Int /\ r.from < r.until
    BY <2>1, PeriodEnds
  <2>3. Covers(r, r.from)
    BY <2>2 DEF Covers
  <2>4. Says(rows, r.from, r.preference)
    BY <1>7, <2>2, <2>3 DEF Says
  <2> QED
    BY <1>3, <2>4 DEF Says
<1>9. \A d \in Day : (\E r \in R : Covers(r, d)) <=> \E r \in rows : Covers(r, d)
  BY <1>7 DEF Says
<1> QED
  BY <1>3, <1>7, <1>8, <1>9

-----------------------------------------------------------------------------
(* The amendments of the table. *)

\* The empty table is sound.
LEMMA TableIsSound == TableInit => SoundTable
<1>1. Sound({})
  BY DEF Sound, Disjoint
<1> QED
  BY <1>1 DEF TableInit, SoundTable

\* What an amendment makes of the rows of its position.
LEMMA AmendEffect ==
  ASSUME SoundTable, NEW p \in Positions, NEW a \in Period, NEW included \in BOOLEAN,
         Amend(p, a, included)
  PROVE  /\ table' = [table EXCEPT ![p] = ToSet(Overlay(Schedule(p), a, included))]
         /\ Sound(table'[p])
         /\ \A d \in Day : \A v \in Preference :
              Says(table'[p], d, v) <=>
                IF Covers(a, d) THEN included /\ a.preference = v ELSE Says(table[p], d, v)
<1> DEFINE t == Overlay(Schedule(p), a, included)
<1>1. Normal(Schedule(p)) /\ ToSet(Schedule(p)) = table[p]
  BY ScheduleIsNormal
<1>2. /\ Normal(t)
      /\ \A d \in Day : \A v \in Preference :
           Says(ToSet(t), d, v) <=>
             IF Covers(a, d) THEN included /\ a.preference = v ELSE Says(table[p], d, v)
  BY <1>1, Overlaid
<1> HIDE DEF t
<1>3. Sound(ToSet(t))
  BY <1>2, NormalIsSound
<1>4. table' = [table EXCEPT ![p] = ToSet(t)]
  BY DEF Amend, t
<1>5. table'[p] = ToSet(t)
  BY <1>4 DEF SoundTable
<1> QED
  BY <1>2, <1>3, <1>4, <1>5 DEF t

\* An amendment of a position, laid over its schedule, leaves a sound table.
LEMMA AmendIsSound ==
  ASSUME SoundTable, NEW p \in Positions, NEW a \in Period, NEW included \in BOOLEAN,
         Amend(p, a, included)
  PROVE  SoundTable'
<1>1. table' = [table EXCEPT ![p] = table'[p]] /\ Sound(table'[p])
  BY AmendEffect DEF SoundTable
<1>2. table'[p] \in SUBSET Period
  BY <1>1 DEF Sound
<1>3. table' \in [Positions -> SUBSET Period]
  BY <1>1, <1>2 DEF SoundTable
<1>4. \A o \in Positions : Sound(table'[o])
  BY <1>1 DEF SoundTable
<1> QED
  BY <1>3, <1>4 DEF SoundTable

\* Set-up leaves a sound table: it writes inferred rows only.
LEMMA SetupIsSound ==
  ASSUME Setup PROVE SoundTable'
<1>1. table' \in [Positions -> Inferrable]
  BY DEF Setup
<1>2. \A p \in Positions : Sound(table'[p])
  BY <1>1, InferrableRows
<1>3. table' \in [Positions -> SUBSET Period]
  BY <1>1, <1>2 DEF Sound
<1> QED
  BY <1>2, <1>3 DEF SoundTable

\* Every step of the table keeps it sound.
LEMMA TableStepIsSound ==
  SoundTable /\ [TableNext]_table => SoundTable'
<1> SUFFICES ASSUME SoundTable, [TableNext]_table PROVE SoundTable'
  OBVIOUS
<1>1. CASE UNCHANGED table
  BY <1>1 DEF SoundTable
<1>2. ASSUME NEW p \in Positions, NEW a \in Period, SetPreference(p, a) \/ UnsetPreference(p, a)
      PROVE  SoundTable'
  BY <1>2, AmendIsSound DEF SetPreference, UnsetPreference
<1> QED
  BY <1>1, <1>2, SetupIsSound DEF TableNext

\* Whatever amendments are made, in any order, beside a set-up: all rows are in normal
\* form, no amendment is ever refused, and timelines tell what the rows say.
THEOREM TableStaysSound ==
  TableSpec => [](RowsArePeriods /\ NeverRefused /\ TimelineExact /\ NormalForm)
<1>1. SoundTable => RowsArePeriods /\ NeverRefused /\ TimelineExact /\ NormalForm
  <2> SUFFICES ASSUME SoundTable PROVE RowsArePeriods /\ NeverRefused /\ TimelineExact /\ NormalForm
    OBVIOUS
  <2>1. RowsArePeriods
    BY DEF SoundTable, RowsArePeriods
  <2>2. NeverRefused
    BY AlwaysAmendable DEF NeverRefused
  <2> QED
    BY <2>1, <2>2, AlwaysExact, AlwaysNormalForm
<1> QED
  BY <1>1, TableIsSound, TableStepIsSound, PTL DEF TableSpec

-----------------------------------------------------------------------------
(* The calendar. *)

\* What the table shows is what its rows tell, and nothing else is.
LEMMA ShownIsTold ==
  ASSUME SoundTable, NEW p \in Positions, NEW d \in Day, NEW w
  PROVE  Shown(p, d) = w <=> Tells(table[p], d, w)
<1>1. Tells(table[p], d, Shown(p, d)) /\ Sound(table[p])
  BY ShownTells DEF SoundTable
<1> QED
  BY <1>1, TellsOnce

\* What is shown after a step is what the rows tell after it.
LEMMA ShownIsToldThen ==
  ASSUME SoundTable', NEW p \in Positions, NEW d \in Day, NEW w
  PROVE  Shown(p, d)' = w <=> Tells(table'[p], d, w)
<1> DEFINE rows == {r \in table'[p] : Covers(r, d)}
<1>1. Tells(table'[p], d, Shown(p, d)')
  <2>1. CASE rows = {}
    BY <2>1 DEF Shown, Tells
  <2>2. CASE rows # {}
    <3>1. PICK r \in rows : r = CHOOSE x \in rows : TRUE
      BY <2>2
    <3>2. Shown(p, d)' = r.preference
      BY <2>2, <3>1 DEF Shown
    <3> QED
      BY <3>1, <3>2 DEF Tells, Says
  <2> QED
    BY <2>1, <2>2
<1>2. Sound(table'[p])
  BY DEF SoundTable
<1> QED
  BY <1>1, <1>2, TellsOnce

\* An amendment marks the days of its range, with its preference or with nothing.
LEMMA AmendMarks ==
  ASSUME SoundTable, NEW p \in Positions, NEW a \in Period, NEW included \in BOOLEAN,
         Amend(p, a, included), NEW o \in Positions, NEW d \in Day
  PROVE  Shown(o, d)' = IF o = p /\ Covers(a, d)
                          THEN IF included THEN a.preference ELSE Unconfigured
                          ELSE Shown(o, d)
<1>0. SoundTable'
  BY AmendIsSound
<1>1. CASE o # p
  <2>1. table'[o] = table[o]
    BY <1>1, AmendEffect DEF SoundTable
  <2> QED
    BY <1>1, <2>1 DEF Shown
<1>2. CASE o = p
  <2> DEFINE w == IF Covers(a, d) THEN IF included THEN a.preference ELSE Unconfigured
                  ELSE Shown(p, d)
  <2>1. \A v \in Preference :
          Says(table'[p], d, v) <=>
            IF Covers(a, d) THEN included /\ a.preference = v ELSE Says(table[p], d, v)
    BY AmendEffect
  <2>2. \A r \in table[p] \cup table'[p] : r.preference \in Preference
    BY <1>0, PeriodEnds DEF SoundTable, Sound
  <2>3. a.preference \in Preference
    BY PeriodEnds
  <2>4. Tells(table[p], d, Shown(p, d))
    BY ShownTells
  <2>5. Tells(table'[p], d, w)
    <3>1. CASE Covers(a, d) /\ included
      BY <2>1, <2>3, <3>1 DEF Tells
    <3>2. CASE Covers(a, d) /\ ~included
      <4>1. \A r \in table'[p] : ~Covers(r, d)
        BY <2>1, <2>2, <3>2 DEF Says
      <4> QED
        BY <3>2, <4>1 DEF Tells
    <3>3. CASE ~Covers(a, d)
      <4>1. \A v \in Preference : Says(table'[p], d, v) <=> Says(table[p], d, v)
        BY <2>1, <3>3
      <4>2. (\E r \in table'[p] : Covers(r, d)) => \E r \in table[p] : Covers(r, d)
        BY <2>2, <4>1 DEF Says
      <4>3. Says(table[p], d, Shown(p, d)) => Shown(p, d) \in Preference
        BY <2>2 DEF Says
      <4> QED
        BY <2>4, <3>3, <4>1, <4>2, <4>3 DEF Tells
    <3> QED
      BY <3>1, <3>2, <3>3
  <2> HIDE DEF w
  <2>6. Shown(p, d)' = w
    BY <1>0, <2>5, ShownIsToldThen
  <2> QED
    BY <1>2, <2>6 DEF w
<1> QED
  BY <1>1, <1>2

\* What the table shows, every day of every position.
Shows == [p \in Positions |-> [d \in Day |-> Shown(p, d)]]

\* An empty table shows an empty calendar.
LEMMA CalendarStarts ==
  TableInit => Calendar!Init
<1> SUFFICES ASSUME TableInit PROVE Calendar!Init
  OBVIOUS
<1>1. \A p \in Positions, d \in Day : Shown(p, d) = Unconfigured
  BY DEF TableInit, Shown
<1>2. Shows = [p \in Positions |-> [d \in Day |-> Unconfigured]]
  BY <1>1 DEF Shows
<1> QED
  BY <1>2 DEF Calendar!Init, Calendar!Day, Day, Shows

\* An amendment marks the days of its range, and no other day of any position.
LEMMA CalendarMarked ==
  ASSUME SoundTable, NEW p \in Positions, NEW a \in Period, NEW included \in BOOLEAN,
         Amend(p, a, included)
  PROVE  Calendar!Next
<1> DEFINE v == IF included THEN a.preference ELSE Unconfigured
<1>1. \A o \in Positions, d \in Day :
        Shown(o, d)' = IF o = p /\ Covers(a, d) THEN v ELSE Shown(o, d)
  BY AmendMarks
<1>2. /\ a.from \in Day /\ a.until \in Day \cup {LastDay + 1} /\ a.from < a.until
      /\ a.preference \in Moves \cup {NoPreference}
  BY PeriodEnds DEF Forever, Preference
<1>3. v \in Moves \cup {NoPreference, Unconfigured}
  BY <1>2
<1> HIDE DEF v
<1>4. Shows' = [o \in Positions |-> [d \in Day |-> Shown(o, d)']]
  BY DEF Shows
<1>5. Shows' = [Shows EXCEPT ![p] = [d \in Day |-> IF a.from <= d /\ d < a.until THEN v ELSE @[d]]]
  BY <1>1, <1>4 DEF Shows, Covers
<1>6. Calendar!Mark(p, a.from, a.until, v)
  BY <1>5 DEF Calendar!Mark, Calendar!Day, Day, Shows
<1> QED
  BY <1>2, <1>3, <1>6 DEF Calendar!Next, Calendar!Day, Day

\* Set-up fills an empty calendar as the calendar may be filled.
LEMMA CalendarFilled ==
  ASSUME SoundTable, Setup
  PROVE  Calendar!Next
<1>1. \A p \in Positions, d \in Day : Shown(p, d) = Unconfigured
  BY DEF Setup, Shown
<1>2. SoundTable' /\ table' \in [Positions -> Inferrable]
  BY SetupIsSound DEF Setup
<1>3. ASSUME NEW p \in Positions, NEW d \in Day
      PROVE  /\ Shown(p, d)' \in Moves \cup {Unconfigured}
             /\ Shown(p, d)' # Unconfigured <=> \E r \in table'[p] : Covers(r, d)
  <2>1. Tells(table'[p], d, Shown(p, d)')
    BY <1>2, ShownIsToldThen
  <2>2. \A r \in table'[p] : r.preference \in Moves
    BY <1>2, InferrableRows
  <2> QED
    BY <2>1, <2>2, ScheduleAssumption DEF Tells, Says
<1>4. ASSUME NEW p \in Positions, NEW d \in Day, Shown(p, d)' # Unconfigured, NEW e \in Day, e > d
      PROVE  Shown(p, e)' # Unconfigured
  <2>1. \E r \in table'[p] : Covers(r, e)
    <3>1. d < e
      BY <1>4, ScheduleAssumption DEF Day
    <3> QED
      BY <1>2, <1>3, <1>4, <3>1, InferrableRows
  <2> QED
    BY <1>3, <2>1
<1>5. Shows' = [p \in Positions |-> [d \in Day |-> Shown(p, d)']]
  BY DEF Shows
<1>6. Shows' \in [Positions -> [Day -> Moves \cup {Unconfigured}]]
  BY <1>3, <1>5
<1>7. \A p \in Positions, d \in Day : Shows[p][d] = Unconfigured
  BY <1>1 DEF Shows
<1>8. \A p \in Positions, d \in Day :
        Shows'[p][d] # Unconfigured => \A e \in Day : e > d => Shows'[p][e] # Unconfigured
  BY <1>4, <1>5
<1>9. Calendar!FillIn
  BY <1>6, <1>7, <1>8 DEF Calendar!FillIn, Calendar!Day, Day, Shows
<1> QED
  BY <1>9 DEF Calendar!Next

\* Every step of the table is a step of the calendar, or shows no difference.
LEMMA CalendarSteps ==
  SoundTable /\ [TableNext]_table => [Calendar!Next]_Shows
<1> SUFFICES ASSUME SoundTable, [TableNext]_table PROVE [Calendar!Next]_Shows
  OBVIOUS
<1>1. CASE UNCHANGED table
  BY <1>1 DEF Shows, Shown
<1>2. ASSUME NEW p \in Positions, NEW a \in Period, SetPreference(p, a) \/ UnsetPreference(p, a)
      PROVE  Calendar!Next
  BY <1>2, CalendarMarked DEF SetPreference, UnsetPreference
<1> QED
  BY <1>1, <1>2, CalendarFilled DEF TableNext

\* The table implements the calendar: an amendment changes the days of its own range
\* of its own position and no other, and set-up fills an empty one.
THEOREM TableKeepsTheCalendar == TableSpec => ImplementsCalendar
<1>1. TableSpec => []SoundTable
  BY TableIsSound, TableStepIsSound, PTL DEF TableSpec
<1>2. TableInit => Calendar!Init
  BY CalendarStarts
<1>3. SoundTable /\ [TableNext]_table => [Calendar!Next]_Shows
  BY CalendarSteps
<1> QED
  BY <1>1, <1>2, <1>3, PTL DEF TableSpec, ImplementsCalendar, Calendar!Spec, Shows

-----------------------------------------------------------------------------
(* Requests to amend, for any number of them, of positions and of stops of *)
(* the server.  What a transaction has computed from the table stays true  *)
(* of the table until it commits, because the lock has one holder.         *)

\* What request r would make of the schedule as it is now in the table.
Amendment(r) ==
  Overlay(Schedule(Position(r)), Span(r), body[r].kind = "put")

\* The variables are functions, of their domains.
Functions ==
  /\ pc = [r \in Requests |-> pc[r]]
  /\ reply = [r \in Requests |-> reply[r]]
  /\ current = [r \in Requests |-> current[r]]
  /\ staged = [r \in Requests |-> staged[r]]
  /\ \A r \in Requests : DOMAIN staged[r] = {"rows", "known"}
  /\ table = [p \in Positions |-> table[p]]

\* The write lock has at most one holder, and whoever is between BEGIN IMMEDIATE and
\* COMMIT has it.
OneWriter ==
  /\ lock \subseteq Requests
  /\ \A r \in Requests : r \in lock <=> pc[r] \in Writing
  /\ \A r, o \in Requests : r \in lock /\ o \in lock => r = o
  /\ \A r \in Requests : pc[r] \in Writing \cup {"committed"} => Amends(r)

\* What a transaction has computed and staged is an amendment of the present table:
\* needed, because its commit is judged by the table of that moment.
WritesAmendments ==
  \A r \in Requests :
    /\ pc[r] \in {"normalized", "replaced", "verified"} => current[r] = Amendment(r)
    /\ pc[r] \in {"replaced", "verified"} => staged[r].rows = ToSet(current[r])

\* Who has not committed has not applied, nor been told so.
RepliesFit ==
  \A r \in Requests :
    /\ pc[r] \in {"sent"} \cup Reading \cup Writing => r \notin applied
    /\ pc[r] \in Reading \cup Writing \cup {"committed"} => body[r].faults = {}
    /\ pc[r] = "committed" => r \in applied /\ reply[r].status = 200
    /\ pc[r] \in {"found", "read"} => ~Amends(r)

\* The inductive invariant of the transactions.
RInv ==
  /\ Functions
  /\ OneWriter
  /\ WritesAmendments
  /\ RepliesFit
  /\ AnswersAreTrue

\* Before any request nothing is held, computed or written.
LEMMA InitRInv == Init => RInv
BY DEF Init, RInv, Functions, OneWriter, WritesAmendments, RepliesFit, AnswersAreTrue,
       Writing, Reading

\* What a request would make of the schedule depends on the table alone.
LEMMA SameTableSameAmendments ==
  ASSUME table' = table, body' = body
  PROVE  \A r \in Requests : Amendment(r)' = Amendment(r)
BY DEF Amendment, Schedule, Position, Span

\* A step within a transaction: what it computed and wrote apart, nothing that
\* others see changes.
LEMMA TransactionStep ==
  ASSUME RInv, NEW r \in Requests, NEW to \in Writing,
         pc[r] \in Writing, pc' = [pc EXCEPT ![r] = to],
         UNCHANGED <<tables, body, lock, reply>>
  PROVE  /\ pc' = [o \in Requests |-> IF o = r THEN to ELSE pc[o]]
         /\ OneWriter' /\ RepliesFit' /\ AnswersAreTrue'
         /\ \A o \in Requests : Amendment(o)' = Amendment(o)
         /\ \A o \in Requests \ {r} : o \notin lock /\ pc[o] \notin Writing
<1> USE DEF RInv, Functions, Writing, Reading, tables
<1>1. pc' = [o \in Requests |-> IF o = r THEN to ELSE pc[o]]
  OBVIOUS
<1>2. OneWriter'
  BY <1>1 DEF OneWriter, Amends
<1>3. RepliesFit' /\ AnswersAreTrue'
  BY <1>1 DEF RepliesFit, AnswersAreTrue, Amends
<1>4. \A o \in Requests : Amendment(o)' = Amendment(o)
  BY SameTableSameAmendments
<1>5. \A o \in Requests \ {r} : o \notin lock /\ pc[o] \notin Writing
  BY DEF OneWriter
<1> QED
  BY <1>1, <1>2, <1>3, <1>4, <1>5

\* Resolving the position writes nothing that others see.
LEMMA ResolvePositionInv ==
  ASSUME RInv, NEW r \in Requests, ResolvePosition(r) PROVE RInv'
<1>1. /\ pc[r] \in Writing /\ pc' = [pc EXCEPT ![r] = "position"] /\ "position" \in Writing
      /\ UNCHANGED <<tables, body, lock, reply, current>>
      /\ staged' = [staged EXCEPT ![r].known = known \cup {Position(r)}]
  BY DEF ResolvePosition, Step, Writing
<1>2. Functions'
  BY <1>1 DEF RInv, Functions, tables
<1>3. WritesAmendments'
  BY <1>1, TransactionStep DEF WritesAmendments, Writing
<1> QED
  BY <1>1, <1>2, <1>3, TransactionStep DEF RInv

\* The amendment is computed from the table that is there at the commit.
LEMMA AmendedInv ==
  ASSUME RInv, NEW r \in Requests, Amended(r) PROVE RInv'
<1>1. /\ pc[r] \in Writing /\ pc' = [pc EXCEPT ![r] = "normalized"] /\ "normalized" \in Writing
      /\ UNCHANGED <<tables, body, lock, reply, staged>>
      /\ current' = [current EXCEPT ![r] = Amendment(r)]
  BY DEF Amended, Step, Writing, Amendment
<1>2. Functions'
  BY <1>1 DEF RInv, Functions, tables
<1>3. current'[r] = Amendment(r)
  BY <1>1 DEF RInv, Functions
<1>4. WritesAmendments'
  BY <1>1, <1>3, TransactionStep DEF WritesAmendments, Writing
<1> QED
  BY <1>1, <1>2, <1>4, TransactionStep DEF RInv

\* Replacing the rows writes what was computed, apart from the table.
LEMMA ReplaceInv ==
  ASSUME RInv, NEW r \in Requests, Replace(r) PROVE RInv'
<1>1. /\ pc[r] = "normalized" /\ pc[r] \in Writing
      /\ pc' = [pc EXCEPT ![r] = "replaced"] /\ "replaced" \in Writing
      /\ UNCHANGED <<tables, body, lock, reply, current>>
      /\ staged' = [staged EXCEPT ![r].rows = ToSet(current[r])]
  BY DEF Replace, Step, Writing
<1>2. Functions'
  BY <1>1 DEF RInv, Functions, tables
<1>3. staged'[r].rows = ToSet(current[r]) /\ current[r] = Amendment(r)
  BY <1>1 DEF RInv, Functions, WritesAmendments
<1>4. WritesAmendments'
  BY <1>1, <1>3, TransactionStep DEF WritesAmendments, Writing
<1> QED
  BY <1>1, <1>2, <1>4, TransactionStep DEF RInv

\* Reading the written rows back, or failing over them, changes nothing others see.
LEMMA VerifyInv ==
  ASSUME RInv, NEW r \in Requests, Verify(r) PROVE RInv'
<1>1. /\ pc[r] = "replaced" /\ pc[r] \in Writing
      /\ pc' = [pc EXCEPT ![r] = "verified"] /\ "verified" \in Writing
      /\ UNCHANGED <<tables, body, lock, reply, current, staged>>
  BY DEF Verify, Step, Writing
<1>2. Functions'
  BY <1>1 DEF RInv, Functions, tables
<1>3. WritesAmendments'
  BY <1>1, TransactionStep DEF RInv, WritesAmendments, Writing
<1> QED
  BY <1>1, <1>2, <1>3, TransactionStep DEF RInv

\* The steps outside a transaction write neither rows nor schedules, and a
\* request they leave with rows or a schedule had them before.
LEMMA OutsideInv ==
  ASSUME RInv, NEW r \in Requests,
         Check(r) \/ Lock(r) \/ FindPosition(r) \/ ReadSchedule(r) \/ Break(r) \/ Answer(r)
  PROVE  RInv'
<1> USE DEF RInv, Functions, Writing, Reading, tables
<1>1. UNCHANGED <<table, applied, body, current, staged>>
  BY DEF Check, Lock, FindPosition, ReadSchedule, Break, Answer, Step
<1>2. Functions'
  BY <1>1 DEF Check, Lock, FindPosition, ReadSchedule, Break, Answer, Step
<1>3. OneWriter'
  BY <1>1 DEF Check, Lock, FindPosition, ReadSchedule, Break, Answer, Step, OneWriter, Amends
<1>4. \A o \in Requests :
        pc'[o] \in {"normalized", "replaced", "verified"} => pc'[o] = pc[o]
  BY DEF Check, Lock, FindPosition, ReadSchedule, Break, Answer, Step
<1>5. WritesAmendments'
  BY <1>1, <1>4, SameTableSameAmendments DEF WritesAmendments
<1>6. RepliesFit'
  <2>1. CASE Check(r)
    BY <1>1, <2>1 DEF Check, RepliesFit, Amends
  <2>2. CASE Lock(r)
    BY <1>1, <2>2 DEF Lock, Step, RepliesFit, Amends
  <2>3. CASE FindPosition(r)
    BY <1>1, <2>3 DEF FindPosition, RepliesFit, Amends
  <2>4. CASE ReadSchedule(r)
    BY <1>1, <2>4 DEF ReadSchedule, Step, RepliesFit, Amends
  <2>5. CASE Break(r) \/ Answer(r)
    BY <1>1, <2>5 DEF Break, Answer, RepliesFit, Amends
  <2> QED
    BY <2>1, <2>2, <2>3, <2>4, <2>5
<1>7. AnswersAreTrue'
  BY <1>1 DEF Check, Lock, FindPosition, ReadSchedule, Break, Answer, Step, RepliesFit, Amends,
     AnswersAreTrue, Refused, Unavailable
<1> QED
  BY <1>2, <1>3, <1>5, <1>6, <1>7

\* The commit: the lock's holder puts its rows into the tables.
LEMMA CommitEffect ==
  ASSUME RInv, NEW r \in Requests, Commit(r)
  PROVE  /\ lock = {r} /\ Amends(r) /\ r \notin applied /\ body[r].faults = {}
         /\ staged[r].rows = ToSet(Amendment(r))
         /\ table' = [table EXCEPT ![Position(r)] = ToSet(Amendment(r))]
         /\ applied' = applied \cup {r}
         /\ reply' = [reply EXCEPT ![r] = Success(Amendment(r))]
<1>1. pc[r] = "verified" /\ pc[r] \in Writing
  BY DEF Commit, Step, Writing
<1>2. r \in lock /\ Amends(r) /\ \A o \in Requests : o \in lock => o = r
  BY <1>1 DEF RInv, OneWriter
<1>3. lock = {r}
  BY <1>2 DEF RInv, OneWriter
<1>4. current[r] = Amendment(r) /\ staged[r].rows = ToSet(Amendment(r))
  BY <1>1 DEF RInv, WritesAmendments
<1>5. r \notin applied /\ body[r].faults = {}
  BY <1>1 DEF RInv, RepliesFit
<1> QED
  BY <1>2, <1>3, <1>4, <1>5 DEF Commit

\* A commit, or the rollback of a failed one, is answered truly, and nobody else has
\* computed anything from the table that a commit replaces, without the lock.
LEMMA CommitInv ==
  ASSUME RInv, NEW r \in Requests, Commit(r) PROVE RInv'
<1>1. /\ lock = {r} /\ Amends(r) /\ r \notin applied /\ body[r].faults = {}
      /\ table' = [table EXCEPT ![Position(r)] = ToSet(Amendment(r))]
      /\ applied' = applied \cup {r}
      /\ reply' = [reply EXCEPT ![r] = Success(Amendment(r))]
  BY CommitEffect
<1>2. /\ pc' = [pc EXCEPT ![r] = "committed"] /\ lock' = {}
      /\ UNCHANGED <<body, current, staged>>
  BY DEF Commit, Step
<1>3. Functions'
  BY <1>1, <1>2 DEF RInv, Functions
<1>4. \A o \in Requests : pc[o] \in Writing <=> o = r
  BY <1>1 DEF RInv, OneWriter
<1>5. \A o \in Requests : pc'[o] \notin Writing
  BY <1>2, <1>4 DEF RInv, Functions, Writing
<1>6. OneWriter'
  BY <1>1, <1>2, <1>5 DEF RInv, OneWriter, Functions, Amends
<1>7. WritesAmendments'
  BY <1>5 DEF WritesAmendments, Writing
<1>8. RepliesFit'
  BY <1>1, <1>2, <1>4, <1>5 DEF RInv, RepliesFit, Functions, Success, Amends, Reading
<1>9. AnswersAreTrue'
  BY <1>1, <1>2 DEF RInv, AnswersAreTrue, Functions, Amends
<1> QED
  BY <1>3, <1>6, <1>7, <1>8, <1>9 DEF RInv

\* A stop answers nobody and gives the lock up.
LEMMA StopInv ==
  ASSUME RInv, Stop PROVE RInv'
<1>1. /\ pc' = [r \in Requests |-> IF pc[r] \in {"sent", "answered"} THEN pc[r] ELSE "lost"]
      /\ lock' = {} /\ UNCHANGED <<table, applied, body, current, staged, reply>>
  BY DEF Stop, tables
<1>2. Functions' /\ OneWriter'
  BY <1>1 DEF RInv, Functions, OneWriter, Writing
<1>3. WritesAmendments' /\ RepliesFit'
  BY <1>1 DEF RInv, WritesAmendments, RepliesFit, Writing, Reading
<1>4. AnswersAreTrue'
  BY <1>1 DEF RInv, AnswersAreTrue, Amends
<1> QED
  BY <1>2, <1>3, <1>4 DEF RInv

\* A step of nothing.
LEMMA StutterInv ==
  ASSUME RInv, UNCHANGED vars PROVE RInv'
<1>1. \A r \in Requests : Amendment(r)' = Amendment(r)
  BY SameTableSameAmendments DEF vars
<1> QED
  BY <1>1 DEF RInv, vars, Functions, OneWriter, WritesAmendments, RepliesFit, AnswersAreTrue,
     Amends

\* Every step of the requests keeps the invariant.
LEMMA StepRInv == RInv /\ [Next]_vars => RInv'
<1> SUFFICES ASSUME RInv, [Next]_vars PROVE RInv'
  OBVIOUS
<1>1. ASSUME NEW r \in Requests, Serve(r) PROVE RInv'
  BY <1>1, ResolvePositionInv, AmendedInv, ReplaceInv, VerifyInv, CommitInv, OutsideInv DEF Serve
<1> QED
  BY <1>1, StopInv, StutterInv DEF Next

\* The transactions of PUT and DELETE: one writer at a time, whose computed rows
\* stay true of the table until it commits, and answers that fit what was done.
THEOREM RequestInvariant == Spec => []RInv
BY InitRInv, StepRInv, PTL DEF Spec

\* A PUT or DELETE says success if and only if its amendment is in the table,
\* through any failures and stops, and 422 if and only if it was at fault.
THEOREM AnswersStayTrue == Spec => []AnswersAreTrue
BY RequestInvariant, PTL DEF RInv

\* A step that changes rows is the commit of one request that has the lock: it writes
\* its amendment of the rows of this moment, and tells it.
CommitIsAmendment ==
  \A p \in Positions :
    table'[p] # table[p] =>
      \E r \in Requests :
        /\ Position(r) = p /\ Amends(r) /\ lock = {r}
        /\ r \notin applied /\ applied' = applied \cup {r}
        /\ table'[p] = ToSet(Amendment(r))
        /\ reply' = [reply EXCEPT ![r] = Success(Amendment(r))]

\* Rows change by a commit only, and a commit is an amendment of its moment.
LEMMA StepIsAmendment == RInv /\ [Next]_vars => CommitIsAmendment
<1> SUFFICES ASSUME RInv, [Next]_vars PROVE CommitIsAmendment
  OBVIOUS
<1>1. CASE table' = table
  BY <1>1 DEF CommitIsAmendment
<1>2. ASSUME NEW r \in Requests, Commit(r) PROVE CommitIsAmendment
  <2>1. \A p \in Positions :
          table'[p] = IF p = Position(r) THEN ToSet(Amendment(r)) ELSE table[p]
    BY <1>2, CommitEffect DEF RInv, Functions
  <2> QED
    BY <1>2, <2>1, CommitEffect DEF CommitIsAmendment
<1>3. table' = table \/ \E r \in Requests : Commit(r)
  BY DEF Next, Serve, Check, Lock, ResolvePosition, Amended, Replace, Verify, FindPosition,
     ReadSchedule, Break, Answer, Stop, Step, tables, vars
<1> QED
  BY <1>1, <1>2, <1>3

\* No amendment is lost or made twice: rows change only by the commit of one
\* request, which lays its range over the schedule that is in the table then,
\* not over one it had read before another's commit, and returns that schedule.
THEOREM AmendmentsAreSerial == Spec => [][CommitIsAmendment]_vars
<1>1. RInv /\ [Next]_vars => [CommitIsAmendment]_vars
  BY StepIsAmendment
<1> QED
  BY <1>1, RequestInvariant, PTL DEF Spec

-----------------------------------------------------------------------------
(* What the answers say, and what is in the table. *)

\* What a request asks is a legal amendment or a legal window.
BodiesFit == \A r \in Requests : body[r] \in Bodies[r]

\* Where a request may be.
Places == \A r \in Requests :
  pc[r] \in Over \cup Reading \cup Writing \cup {"sent", "committed", "read"}

\* Positions with rows are known; a transaction that has resolved its position, and
\* while it has the lock nobody else adds one, knows it too.
KnownPositions ==
  /\ \A p \in Positions : table[p] # {} => p \in known
  /\ \A r \in Requests :
       pc[r] \in {"position", "normalized", "replaced", "verified"} =>
         staged[r].known = known \cup {Position(r)}

\* The schedule of now is among the moments of every request that was sent.
MomentsSeen ==
  /\ moments = [r \in Requests |-> moments[r]]
  /\ \A r \in Requests :
       pc[r] # "sent" => Schedule(Position(r)) \in moments[r]

\* An answer tells the result of the amendment that was asked, laid over a schedule in
\* normal form.
AnswersTellResults ==
  \A r \in Requests :
    /\ pc[r] = "sent" => reply[r].status # 200
    /\ reply[r].status = 200 /\ Amends(r) =>
         \E s : Normal(s) /\ reply[r].periods = Overlay(s, Span(r), body[r].kind = "put")

\* The inductive invariant of the requests and what they tell.
SInv ==
  /\ RInv
  /\ SoundTable
  /\ BodiesFit
  /\ Places
  /\ KnownPositions
  /\ MomentsSeen
  /\ AnswersTellResults
  /\ TimelineIsOfAMoment

\* A request asks for a period of a position, and a DELETE for one without preference.
LEMMA AskedIsLegal ==
  ASSUME BodiesFit, NEW r \in Requests
  PROVE  /\ Position(r) \in Positions /\ Span(r) \in Period
         /\ body[r].kind \in {"get", "put", "delete"}
         /\ body[r].kind = "delete" => Span(r).preference = NoPreference
<1>1. body[r] \in Bodies[r]
  BY DEF BodiesFit
<1>2. \A b \in Bodies[r] :
        /\ b \in Body
        /\ b.kind = "delete" => b.range.preference = NoPreference
  BY RequestAssumption
<1>3. \A b \in Body : b.kind \in {"get", "put", "delete"} /\ b.position \in Positions /\ b.range \in Period
  BY DEF Body
<1> QED
  BY <1>1, <1>2, <1>3, Zenon DEF Position, Span

\* A commit is an amendment of the table.
LEMMA CommitAmends ==
  ASSUME RInv, SoundTable, BodiesFit, NEW r \in Requests, Commit(r)
  PROVE  /\ Amend(Position(r), Span(r), body[r].kind = "put")
         /\ TableNext
         /\ table'[Position(r)] = ToSet(Amendment(r))
<1>1. Position(r) \in Positions /\ Span(r) \in Period /\ (body[r].kind = "put") \in BOOLEAN
  BY AskedIsLegal
<1>2. Amendable(Position(r), Span(r), body[r].kind = "put")
  BY <1>1, AlwaysAmendable
<1>3. table' = [table EXCEPT ![Position(r)] = ToSet(Amendment(r))] /\ Amends(r)
  BY CommitEffect
<1>4. Amend(Position(r), Span(r), body[r].kind = "put")
  BY <1>2, <1>3 DEF Amend, Amendment
<1>5. CASE body[r].kind = "put"
  <2>1. SetPreference(Position(r), Span(r))
    BY <1>4, <1>5 DEF SetPreference
  <2> QED
    BY <1>1, <1>3, <1>4, <2>1 DEF TableNext, SoundTable
<1>6. CASE body[r].kind = "delete"
  <2>1. Span(r).preference = NoPreference
    BY <1>6, AskedIsLegal
  <2>2. UnsetPreference(Position(r), Span(r))
    BY <1>4, <1>6, <2>1 DEF UnsetPreference
  <2> QED
    BY <1>1, <1>3, <1>4, <2>2 DEF TableNext, SoundTable
<1> QED
  BY <1>3, <1>5, <1>6, AskedIsLegal DEF Amends

\* Every step of the requests is an amendment of the table, or leaves it alone.
LEMMA TableSteps ==
  RInv /\ SoundTable /\ BodiesFit /\ [Next]_vars => [TableNext]_table
<1> SUFFICES ASSUME RInv, SoundTable, BodiesFit, [Next]_vars PROVE [TableNext]_table
  OBVIOUS
<1>1. table' = table \/ \E r \in Requests : Commit(r)
  BY DEF Next, Serve, Check, Lock, ResolvePosition, Amended, Replace, Verify, FindPosition,
     ReadSchedule, Break, Answer, Stop, Step, tables, vars
<1> QED
  BY <1>1, CommitAmends

\* Before any request the table is empty and nobody has seen anything.
LEMMA InitSInv == Init => SInv
<1> SUFFICES ASSUME Init PROVE SInv
  OBVIOUS
<1>1. RInv /\ SoundTable
  BY InitRInv, TableIsSound DEF Init, TableInit
<1>2. BodiesFit /\ Places /\ KnownPositions
  BY DEF Init, BodiesFit, Places, KnownPositions
<1>3. MomentsSeen /\ AnswersTellResults /\ TimelineIsOfAMoment
  BY DEF Init, MomentsSeen, AnswersTellResults, TimelineIsOfAMoment, NoReply
<1> QED
  BY <1>1, <1>2, <1>3 DEF SInv

\* What no step changes and what only a commit does.
LEMMA StepKeeps ==
  ASSUME SInv, Next
  PROVE  RInv' /\ SoundTable' /\ BodiesFit' /\ body' = body
<1>1. body' = body
  BY DEF Next, Serve, Check, Lock, ResolvePosition, Amended, Replace, Verify, FindPosition,
     ReadSchedule, Break, Answer, Stop, Step, Commit
<1>2. BodiesFit'
  BY <1>1 DEF SInv, BodiesFit
<1>3. RInv'
  BY StepRInv DEF SInv
<1>4. SoundTable'
  BY TableSteps, TableStepIsSound DEF SInv
<1> QED
  BY <1>1, <1>2, <1>3, <1>4

\* A request goes from one of its places to another.
LEMMA StepPlaces ==
  ASSUME SInv, Next PROVE Places'
<1>1. \A r \in Requests : pc'[r] \in Over \cup Reading \cup Writing \cup {"sent", "committed", "read"}
  <2>0. /\ pc = [r \in Requests |-> pc[r]]
        /\ \A r \in Requests :
             pc[r] \in Over \cup Reading \cup Writing \cup {"sent", "committed", "read"}
    BY DEF SInv, RInv, Functions, Places
  <2>1. CASE Stop
    BY <2>0, <2>1 DEF Stop, Over
  <2>2. ASSUME NEW r \in Requests, Serve(r)
        PROVE  \E x \in Over \cup Reading \cup Writing \cup {"sent", "committed", "read"} :
                 pc' = [pc EXCEPT ![r] = x]
    BY <2>2 DEF Serve, Check, Lock, ResolvePosition, Amended, Replace, Verify, FindPosition,
       ReadSchedule, Break, Answer, Step, Commit, Over, Reading, Writing
  <2>3. ASSUME NEW r \in Requests, Serve(r)
        PROVE  \A o \in Requests :
                 pc'[o] \in Over \cup Reading \cup Writing \cup {"sent", "committed", "read"}
    BY <2>0, <2>2, <2>3
  <2> QED
    BY <2>1, <2>3 DEF Next
<1> QED
  BY <1>1 DEF Places

\* Positions become known with their rows.
LEMMA StepKnown ==
  ASSUME SInv, Next PROVE KnownPositions'
<1>0. /\ pc = [r \in Requests |-> pc[r]] /\ staged = [r \in Requests |-> staged[r]]
      /\ \A r \in Requests : DOMAIN staged[r] = {"rows", "known"}
      /\ KnownPositions /\ body' = body
  BY StepKeeps DEF SInv, RInv, Functions
<1>1. ASSUME NEW r \in Requests, Commit(r) PROVE KnownPositions'
  <2>1. /\ pc[r] = "verified" /\ pc' = [pc EXCEPT ![r] = "committed"]
        /\ table' = [table EXCEPT ![Position(r)] = staged[r].rows]
        /\ known' = staged[r].known /\ staged' = staged
    BY <1>1 DEF Commit, Step
  <2>2. known' = known \cup {Position(r)}
    BY <1>0, <2>1 DEF KnownPositions
  <2>3. \A p \in Positions : table'[p] # {} => p \in known'
    BY <1>0, <2>1, <2>2 DEF KnownPositions, SInv, SoundTable
  <2>4. \A o \in Requests : pc[o] \in Writing <=> o = r
    BY <1>1, CommitEffect DEF SInv, RInv, OneWriter
  <2>5. \A o \in Requests : pc'[o] \notin {"position", "normalized", "replaced", "verified"}
    BY <1>0, <2>1, <2>4 DEF Writing
  <2> QED
    BY <2>3, <2>5 DEF KnownPositions
<1>2. ASSUME UNCHANGED <<table, known>>,
             \A r \in Requests :
               pc'[r] \in {"position", "normalized", "replaced", "verified"} =>
                 staged'[r].known = known \cup {Position(r)}
      PROVE  KnownPositions'
  BY <1>0, <1>2 DEF KnownPositions, Position
<1>3. CASE Stop
  <2>1. \A r \in Requests : pc'[r] \notin {"position", "normalized", "replaced", "verified"}
    BY <1>3 DEF Stop
  <2> QED
    BY <1>2, <1>3, <2>1 DEF Stop, tables
<1>4. ASSUME NEW r \in Requests, ResolvePosition(r) PROVE KnownPositions'
  <2>1. /\ pc' = [pc EXCEPT ![r] = "position"] /\ UNCHANGED <<table, known>>
        /\ staged' = [staged EXCEPT ![r].known = known \cup {Position(r)}]
    BY <1>4 DEF ResolvePosition, Step, tables
  <2>2. staged'[r].known = known \cup {Position(r)} /\ \A o \in Requests \ {r} : staged'[o] = staged[o] /\ pc'[o] = pc[o]
    BY <1>0, <2>1
  <2> QED
    BY <1>0, <1>2, <2>1, <2>2 DEF KnownPositions
<1>5. ASSUME NEW r \in Requests, Replace(r) PROVE KnownPositions'
  <2>1. /\ pc[r] = "normalized" /\ pc' = [pc EXCEPT ![r] = "replaced"] /\ UNCHANGED <<table, known>>
        /\ staged' = [staged EXCEPT ![r].rows = ToSet(current[r])]
    BY <1>5 DEF Replace, Step, tables
  <2>2. \A o \in Requests : staged'[o].known = staged[o].known
    BY <1>0, <2>1
  <2> QED
    BY <1>0, <1>2, <2>1, <2>2 DEF KnownPositions
<1>6. ASSUME NEW r \in Requests,
             Check(r) \/ Lock(r) \/ Amended(r) \/ Verify(r) \/ FindPosition(r) \/ ReadSchedule(r)
               \/ Break(r) \/ Answer(r)
      PROVE  KnownPositions'
  <2>1. UNCHANGED <<table, known, staged>>
    BY <1>6 DEF Check, Lock, Amended, Verify, FindPosition, ReadSchedule, Break, Answer, Step, tables
  <2>2. \A o \in Requests :
          pc'[o] \in {"position", "normalized", "replaced", "verified"} =>
            pc[o] \in {"position", "normalized", "replaced", "verified"}
    BY <1>0, <1>6 DEF Check, Lock, Amended, Verify, FindPosition, ReadSchedule, Break, Answer, Step
  <2> QED
    BY <1>0, <1>2, <2>1, <2>2 DEF KnownPositions
<1> QED
  BY <1>1, <1>3, <1>4, <1>5, <1>6 DEF Next, Serve

\* The schedule a position has now is a moment of all who were sent to it.
LEMMA StepMoments ==
  ASSUME SInv, Next PROVE MomentsSeen' /\ \A r \in Requests : pc[r] # "sent" => moments[r] \subseteq moments'[r]
<1>0. /\ pc = [r \in Requests |-> pc[r]] /\ moments = [r \in Requests |-> moments[r]]
      /\ MomentsSeen /\ body' = body
  BY StepKeeps DEF SInv, RInv, Functions, MomentsSeen
<1>1. ASSUME NEW r \in Requests, Commit(r)
      PROVE  MomentsSeen' /\ \A o \in Requests : pc[o] # "sent" => moments[o] \subseteq moments'[o]
  <2>1. /\ pc[r] = "verified" /\ pc' = [pc EXCEPT ![r] = "committed"]
        /\ moments' = [o \in Requests |->
             IF Position(o) = Position(r) THEN moments[o] \cup {current[r]} ELSE moments[o]]
    BY <1>1 DEF Commit, Step
  <2>2. table' = [table EXCEPT ![Position(r)] = ToSet(Amendment(r))] /\ current[r] = Amendment(r)
    BY <1>1, <2>1, CommitEffect DEF SInv, RInv, WritesAmendments
  <2>3. Position(r) \in Positions /\ Span(r) \in Period /\ (body[r].kind = "put") \in BOOLEAN
    BY AskedIsLegal DEF SInv
  <2>4. Normal(Amendment(r))
    <3>1. Normal(Schedule(Position(r)))
      BY <2>3, ScheduleIsNormal DEF SInv
    <3> QED
      BY <2>3, <3>1, Overlaid DEF Amendment
  <2>5. Schedule(Position(r))' = Amendment(r)
    <3>1. Sorted(ToSet(Amendment(r))) = Amendment(r) /\ Normalized(Amendment(r)) = Amendment(r)
      BY <2>4, NormalIsSound, NormalIsNormalized
    <3>2. table'[Position(r)] = ToSet(Amendment(r)) /\ Position(r)' = Position(r)
      BY <1>0, <2>2, <2>3 DEF SInv, SoundTable, Position
    <3> QED
      BY <3>1, <3>2 DEF Schedule
  <2>6. ASSUME NEW o \in Requests, pc[o] # "sent"
        PROVE  Schedule(Position(o))' \in moments'[o]
    <3>1. Position(o)' = Position(o) /\ Position(r)' = Position(r)
      BY <1>0 DEF Position
    <3>2. CASE Position(o) = Position(r)
      <4>1. Schedule(Position(o))' = Schedule(Position(r))'
        BY <3>1, <3>2 DEF Schedule
      <4> QED
        BY <2>1, <2>2, <2>5, <3>2, <4>1
    <3>3. CASE Position(o) # Position(r)
      <4>1. table'[Position(o)] = table[Position(o)]
        BY <2>2, <3>3, AskedIsLegal DEF SInv, SoundTable
      <4>2. Schedule(Position(o))' = Schedule(Position(o))
        BY <3>1, <4>1 DEF Schedule
      <4> QED
        BY <1>0, <2>1, <2>6, <3>3, <4>2 DEF MomentsSeen
    <3> QED
      BY <3>2, <3>3
  <2>7. \A o \in Requests : pc'[o] # "sent" => pc[o] # "sent"
    BY <1>0, <2>1
  <2> QED
    BY <2>1, <2>6, <2>7 DEF MomentsSeen
<1>2. ASSUME NEW r \in Requests, Check(r)
      PROVE  MomentsSeen' /\ \A o \in Requests : pc[o] # "sent" => moments[o] \subseteq moments'[o]
  <2>1. /\ pc[r] = "sent" /\ table' = table
        /\ moments' = [moments EXCEPT ![r] = {Schedule(Position(r))}]
        /\ \A o \in Requests \ {r} : pc'[o] = pc[o]
    BY <1>0, <1>2 DEF Check
  <2>2. \A o \in Requests : Schedule(Position(o))' = Schedule(Position(o))
    BY <1>0, <2>1 DEF Schedule, Position
  <2> QED
    BY <1>0, <2>1, <2>2 DEF MomentsSeen
<1>3. ASSUME UNCHANGED <<table, moments>>, \A r \in Requests : pc'[r] # "sent" => pc[r] # "sent"
      PROVE  MomentsSeen' /\ \A o \in Requests : pc[o] # "sent" => moments[o] \subseteq moments'[o]
  <2>1. \A o \in Requests : Schedule(Position(o))' = Schedule(Position(o))
    BY <1>0, <1>3 DEF Schedule, Position
  <2> QED
    BY <1>0, <1>3, <2>1 DEF MomentsSeen
<1>4. CASE Stop
  BY <1>0, <1>3, <1>4 DEF Stop, tables
<1>5. ASSUME NEW r \in Requests,
             Lock(r) \/ ResolvePosition(r) \/ Amended(r) \/ Replace(r) \/ Verify(r) \/ FindPosition(r)
               \/ ReadSchedule(r) \/ Break(r) \/ Answer(r)
      PROVE  MomentsSeen' /\ \A o \in Requests : pc[o] # "sent" => moments[o] \subseteq moments'[o]
  <2>1. UNCHANGED <<table, moments>>
    BY <1>5 DEF Lock, ResolvePosition, Amended, Replace, Verify, FindPosition, ReadSchedule, Break,
       Answer, Step, tables
  <2>2. pc[r] # "sent" /\ \A o \in Requests \ {r} : pc'[o] = pc[o]
    BY <1>0, <1>5 DEF Lock, ResolvePosition, Amended, Replace, Verify, FindPosition, ReadSchedule, Break,
       Answer, Step, Reading, Writing
  <2> QED
    BY <1>3, <2>1, <2>2
<1> QED
  BY <1>1, <1>2, <1>4, <1>5 DEF Next, Serve

\* A success tells the amended schedule; no answer precedes its request.
LEMMA StepResults ==
  ASSUME SInv, Next PROVE AnswersTellResults'
<1>0. /\ pc = [r \in Requests |-> pc[r]] /\ reply = [r \in Requests |-> reply[r]]
      /\ AnswersTellResults /\ body' = body /\ BodiesFit
  BY StepKeeps DEF SInv, RInv, Functions
<1>1. ASSUME NEW r \in Requests, NEW x, NEW to, to # "sent",
             pc' = [pc EXCEPT ![r] = to], reply' = [reply EXCEPT ![r] = x],
             x.status = 200 /\ Amends(r) =>
               \E s : Normal(s) /\ x.periods = Overlay(s, Span(r), body[r].kind = "put")
      PROVE  AnswersTellResults'
  <2>1. reply'[r] = x /\ pc'[r] = to /\ \A o \in Requests \ {r} : reply'[o] = reply[o] /\ pc'[o] = pc[o]
    BY <1>0, <1>1
  <2> QED
    BY <1>0, <1>1, <2>1 DEF AnswersTellResults, Amends, Span
<1>2. ASSUME reply' = reply, \A r \in Requests : pc'[r] = "sent" => pc[r] = "sent"
      PROVE  AnswersTellResults'
  BY <1>0, <1>2 DEF AnswersTellResults, Amends, Span
<1>3. ASSUME NEW r \in Requests, Commit(r) PROVE AnswersTellResults'
  <2>1. /\ pc' = [pc EXCEPT ![r] = "committed"] /\ reply' = [reply EXCEPT ![r] = Success(Amendment(r))]
    BY <1>3, CommitEffect DEF Commit, Step, SInv
  <2>2. Normal(Schedule(Position(r)))
    BY <1>0, AskedIsLegal, ScheduleIsNormal DEF SInv
  <2>3. Success(Amendment(r)).periods = Overlay(Schedule(Position(r)), Span(r), body[r].kind = "put")
    BY DEF Success, Amendment
  <2> QED
    BY <1>1, <2>1, <2>2, <2>3
<1>4. ASSUME NEW r \in Requests, Check(r) PROVE AnswersTellResults'
  <2>1. CASE body[r].faults # {}
    <3>1. /\ pc' = [pc EXCEPT ![r] = "answered"] /\ reply' = [reply EXCEPT ![r] = Refused(FirstFault(body[r]))]
      BY <1>4, <2>1 DEF Check
    <3>2. Refused(FirstFault(body[r])).status # 200
      BY DEF Refused
    <3> QED
      BY <1>1, <3>1, <3>2
  <2>2. CASE ~(body[r].faults # {})
    <3>1. pc' = [pc EXCEPT ![r] = "opened"] /\ reply' = reply
      BY <1>4, <2>2 DEF Check
    <3> QED
      BY <1>0, <1>2, <3>1
  <2> QED
    BY <2>1, <2>2
<1>5. ASSUME NEW r \in Requests, Break(r) PROVE AnswersTellResults'
  <2>1. /\ pc' = [pc EXCEPT ![r] = "answered"] /\ reply' = [reply EXCEPT ![r] = Unavailable]
    BY <1>5 DEF Break
  <2>2. Unavailable.status # 200
    BY DEF Unavailable
  <2> QED
    BY <1>1, <2>1, <2>2
<1>6. ASSUME NEW r \in Requests, FindPosition(r) \/ ReadSchedule(r) PROVE AnswersTellResults'
  <2>1. ~Amends(r)
    BY <1>6 DEF FindPosition, ReadSchedule, Step, SInv, RInv, RepliesFit
  <2>2. \/ reply' = reply /\ pc' = [pc EXCEPT ![r] = "found"]
        \/ pc' = [pc EXCEPT ![r] = "read"] /\ \E s : reply' = [reply EXCEPT ![r] = Told(r, s)]
    BY <1>6 DEF FindPosition, ReadSchedule, Step
  <2>3. CASE reply' = reply /\ pc' = [pc EXCEPT ![r] = "found"]
    BY <1>0, <1>2, <2>3
  <2>4. CASE pc' = [pc EXCEPT ![r] = "read"] /\ \E s : reply' = [reply EXCEPT ![r] = Told(r, s)]
    BY <1>1, <2>1, <2>4
  <2> QED
    BY <2>2, <2>3, <2>4
<1>7. ASSUME NEW r \in Requests,
             Lock(r) \/ ResolvePosition(r) \/ Amended(r) \/ Replace(r) \/ Verify(r) \/ Answer(r)
      PROVE  AnswersTellResults'
  <2>1. reply' = reply
    BY <1>7 DEF Lock, ResolvePosition, Amended, Replace, Verify, Answer, Step
  <2>2. \A o \in Requests : pc'[o] = "sent" => pc[o] = "sent"
    BY <1>0, <1>7 DEF Lock, ResolvePosition, Amended, Replace, Verify, Answer, Step
  <2> QED
    BY <1>2, <2>1, <2>2
<1>8. CASE Stop
  BY <1>0, <1>2, <1>8 DEF Stop
<1> QED
  BY <1>3, <1>4, <1>5, <1>6, <1>7, <1>8 DEF Next, Serve

\* An empty table shows an empty schedule.
LEMMA EmptySchedule ==
  ASSUME SoundTable, NEW p \in Positions, table[p] = {} PROVE Schedule(p) = <<>>
<1>1. Normal(Schedule(p)) /\ ToSet(Schedule(p)) = {}
  BY ScheduleIsNormal
<1>2. Schedule(p) \in Seq(Period)
  BY <1>1 DEF Normal
<1>3. \A i \in 1 .. Len(Schedule(p)) : Schedule(p)[i] \in {}
  BY <1>1, <1>2, Elements
<1>4. Len(Schedule(p)) = 0
  BY <1>2, <1>3
<1> QED
  BY <1>2, <1>4

\* A GET answers with the timeline of a schedule that was there while it ran.
LEMMA StepTimelines ==
  ASSUME SInv, Next PROVE TimelineIsOfAMoment'
<1>0. /\ pc = [r \in Requests |-> pc[r]] /\ reply = [r \in Requests |-> reply[r]]
      /\ TimelineIsOfAMoment /\ body' = body /\ AnswersTellResults
      /\ \A r \in Requests : pc[r] # "sent" => moments[r] \subseteq moments'[r]
  BY StepKeeps, StepMoments DEF SInv, RInv, Functions
<1>1. ASSUME NEW r \in Requests, NEW x, reply' = [reply EXCEPT ![r] = x],
             x.status = 200 /\ ~Amends(r) => \E s \in moments'[r] : x = Told(r, s)
      PROVE  TimelineIsOfAMoment'
  <2>1. reply'[r] = x /\ \A o \in Requests \ {r} : reply'[o] = reply[o]
    BY <1>0, <1>1
  <2>2. \A o \in Requests : reply[o].status = 200 => pc[o] # "sent"
    BY <1>0 DEF AnswersTellResults
  <2> QED
    BY <1>0, <1>1, <2>1, <2>2 DEF TimelineIsOfAMoment, Amends, Told, Span
<1>2. ASSUME reply' = reply PROVE TimelineIsOfAMoment'
  <2>1. \A o \in Requests : reply[o].status = 200 => pc[o] # "sent"
    BY <1>0 DEF AnswersTellResults
  <2> QED
    BY <1>0, <1>2, <2>1 DEF TimelineIsOfAMoment, Amends, Told, Span
<1>3. ASSUME NEW r \in Requests, Commit(r) PROVE TimelineIsOfAMoment'
  <2>1. Amends(r) /\ reply' = [reply EXCEPT ![r] = Success(Amendment(r))]
    BY <1>3, CommitEffect DEF SInv
  <2> QED
    BY <1>1, <2>1
<1>4. ASSUME NEW r \in Requests, Check(r) \/ Break(r) PROVE TimelineIsOfAMoment'
  <2>1. reply' = reply \/ \E x : x.status # 200 /\ reply' = [reply EXCEPT ![r] = x]
    <3>1. Refused(FirstFault(body[r])).status # 200 /\ Unavailable.status # 200
      BY DEF Refused, Unavailable
    <3> QED
      BY <1>4, <3>1 DEF Check, Break
  <2> QED
    BY <1>1, <1>2, <2>1
<1>5. ASSUME NEW r \in Requests, FindPosition(r) \/ ReadSchedule(r) PROVE TimelineIsOfAMoment'
  <2>1. pc[r] # "sent" /\ Schedule(Position(r)) \in moments[r] /\ Position(r) \in Positions
    BY <1>5, AskedIsLegal DEF FindPosition, ReadSchedule, Step, SInv, MomentsSeen
  <2>2. Position(r) \notin known => Schedule(Position(r)) = <<>>
    BY <2>1, EmptySchedule DEF SInv, KnownPositions
  <2>3. reply' = reply \/ reply' = [reply EXCEPT ![r] = Told(r, Schedule(Position(r)))]
    BY <1>5, <2>2 DEF FindPosition, ReadSchedule
  <2>4. Schedule(Position(r)) \in moments'[r]
    BY <1>0, <2>1
  <2> QED
    BY <1>1, <1>2, <2>3, <2>4
<1>6. ASSUME NEW r \in Requests,
             Lock(r) \/ ResolvePosition(r) \/ Amended(r) \/ Replace(r) \/ Verify(r) \/ Answer(r)
      PROVE  TimelineIsOfAMoment'
  BY <1>2, <1>6 DEF Lock, ResolvePosition, Amended, Replace, Verify, Answer
<1>7. CASE Stop
  BY <1>2, <1>7 DEF Stop
<1> QED
  BY <1>3, <1>4, <1>5, <1>6, <1>7 DEF Next, Serve

\* Every step keeps the whole of the invariant.
LEMMA StepSInv == SInv /\ [Next]_vars => SInv'
<1>1. ASSUME SInv, Next PROVE SInv'
  BY <1>1, StepKeeps, StepPlaces, StepKnown, StepMoments, StepResults, StepTimelines DEF SInv
<1>2. ASSUME SInv, UNCHANGED vars PROVE SInv'
  <2>1. RInv'
    BY <1>2, StutterInv DEF SInv
  <2>2. SoundTable' /\ BodiesFit' /\ Places' /\ KnownPositions'
    BY <1>2 DEF SInv, vars, SoundTable, BodiesFit, Places, KnownPositions, Position
  <2>3. MomentsSeen' /\ AnswersTellResults' /\ TimelineIsOfAMoment'
    BY <1>2 DEF SInv, vars, MomentsSeen, AnswersTellResults, TimelineIsOfAMoment, Schedule, Position,
       Amends, Span, Told
  <2> QED
    BY <2>1, <2>2, <2>3 DEF SInv
<1> QED
  BY <1>1, <1>2

\* The periods of a success show what was asked on every day of its range.
LEMMA ShowsTheAmendment ==
  ASSUME SInv PROVE AnswerShowsTheAmendment
<1> SUFFICES ASSUME NEW r \in Requests, reply[r].status = 200, Amends(r), NEW d \in Day, Covers(Span(r), d)
             PROVE  Resolve(reply[r].periods, d) =
                      IF body[r].kind = "put" THEN Span(r).preference ELSE Unconfigured
  BY DEF AnswerShowsTheAmendment
<1> DEFINE included == body[r].kind = "put"
           v == IF included THEN Span(r).preference ELSE Unconfigured
           t == reply[r].periods
<1>1. PICK s : Normal(s) /\ t = Overlay(s, Span(r), included)
  BY DEF SInv, AnswersTellResults
<1>2. Span(r) \in Period /\ included \in BOOLEAN
  BY AskedIsLegal DEF SInv
<1> HIDE DEF included, t
<1>3. /\ Normal(t)
      /\ \A w \in Preference : Says(ToSet(t), d, w) <=> included /\ Span(r).preference = w
  BY <1>1, <1>2, Overlaid
<1>4. Sound(ToSet(t)) /\ Tells(ToSet(t), d, Resolve(t, d))
  BY <1>3, NormalIsSound, ResolveTells
<1>5. Tells(ToSet(t), d, v)
  <2>1. Span(r).preference \in Preference
    BY <1>2, PeriodEnds
  <2>2. \A x \in ToSet(t) : x.preference \in Preference
    BY <1>4, PeriodEnds DEF Sound
  <2>3. CASE included
    BY <1>3, <2>1, <2>3 DEF Tells
  <2>4. CASE ~included
    <3>1. \A x \in ToSet(t) : ~Covers(x, d)
      BY <1>3, <2>2, <2>4 DEF Says
    <3> QED
      BY <2>4, <3>1 DEF Tells
  <2> QED
    BY <2>3, <2>4
<1>6. Resolve(t, d) = v
  BY <1>4, <1>5, TellsOnce
<1> QED
  BY <1>6 DEF t, included

\* The invariant has what the run checks.
LEMMA SInvSchedules == SInv => SchedulesAreTrue
<1> SUFFICES ASSUME SInv PROVE SchedulesAreTrue
  OBVIOUS
<1>1. RowsArePeriods /\ NeverRefused /\ TimelineExact /\ NormalForm
  <2>1. SoundTable
    BY DEF SInv
  <2>2. RowsArePeriods
    BY <2>1 DEF SoundTable, RowsArePeriods
  <2>3. NeverRefused
    BY <2>1, AlwaysAmendable DEF NeverRefused
  <2> QED
    BY <2>1, <2>2, <2>3, AlwaysExact, AlwaysNormalForm
<1>2. TypeOK
  BY DEF SInv, TypeOK, SoundTable, KnownPositions, BodiesFit, Places, RInv, OneWriter
<1>3. AnswersAreTrue /\ TimelineIsOfAMoment
  BY DEF SInv, RInv
<1> QED
  BY <1>1, <1>2, <1>3, ShowsTheAmendment DEF SchedulesAreTrue

\* Whatever is asked, in any order, and however often the server stops between two
\* steps: rows are periods in normal form, no amendment is refused by the order check
\* of normalize_periods, timelines tell what the rows say, answers tell what was done,
\* a success shows its amendment, and a GET shows a schedule of its own time.
THEOREM SchedulesStayTrue == Spec => []SchedulesAreTrue
BY InitSInv, StepSInv, SInvSchedules, PTL DEF Spec

\* The requests, with their transactions, failures and stops, do to the table what
\* amendments in one step each do: BEGIN IMMEDIATE to COMMIT of _amend is atomic.
THEOREM RequestsAreAmendments == Spec => ImplementsAmendments
<1>1. SInv /\ [Next]_vars => [TableNext]_table
  BY TableSteps DEF SInv
<1>2. Init => TableInit
  BY DEF Init, TableInit
<1> QED
  BY <1>1, <1>2, InitSInv, StepSInv, PTL DEF Spec, ImplementsAmendments, TableSpec

\* Therefore what users see day by day changes as in a calendar: a request marks
\* the days of its own range of its own position, or nothing.
THEOREM RequestsKeepTheCalendar == Spec => ImplementsCalendar
BY RequestsAreAmendments, TableKeepsTheCalendar, PTL DEF ImplementsAmendments

============================================================================
