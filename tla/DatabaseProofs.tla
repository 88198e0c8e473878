---------------------------- MODULE DatabaseProofs ----------------------------
(***************************************************************************)
(* Proofs about what keeps the shared database: the import of games and    *)
(* the ledger of their months (GameLibrary), for every set of importers,   *)
(* batches, games and positions and every number of months; the update of  *)
(* the opening sources and the engine mutex (Database), for every number   *)
(* of files and commits and every set of processes.                        *)
(***************************************************************************)
EXTENDS GameLibrary, Database, FiniteSetTheorems, WellFoundedInduction, TLAPS

(* The import of games. *)

Live == {"next", "compare", "write", "commit"}
Working == {"compare", "write", "commit"}

Shapes ==
  /\ pc \in [Importers -> Live \cup Ended \cup {"off"}]
  /\ batch \in [Importers -> Batches \cup {<< >>}]
  /\ at \in [Importers -> Nat \ {0}] /\ bulk \in [Importers -> BOOLEAN]
  /\ cache \in [Importers -> [Positions -> 0 .. Cardinality(Positions)]]
  /\ seen \in [Importers -> Versions \cup {NoVersion}]
  /\ imported \in [Importers -> Nat] /\ others \in [Importers -> SUBSET Games]

Progress ==
  \A i \in Importers :
    /\ at[i] <= Len(batch[i]) + 1 /\ imported[i] < at[i]
    /\ pc[i] \in Working => at[i] <= Len(batch[i]) /\ Current(i).version # NoVersion

Assigned(d) == {p \in Positions : d[p] # 0}

IdTable(d) ==
  /\ d \in [Positions -> Nat]
  /\ \A p \in Assigned(d) : d[p] <= Cardinality(Assigned(d))
  /\ \A p, q \in Assigned(d) : d[p] = d[q] => p = q

Transacts(i) ==
  LET g == Current(i).game
      v == Current(i).version
  IN  /\ pending = [row |-> pending.row, occ |-> pending.occ, ids |-> pending.ids]
      /\ pending.row = [row EXCEPT ![g] = v]
      /\ pending.occ = [occ EXCEPT ![g] = [k \in DOMAIN Occurrences[v] |-> pending.ids[Occurrences[v][k]]]]
      /\ IdTable(pending.ids)
      /\ \A p \in Stored : pending.ids[p] = ids[p]
      /\ \A k \in DOMAIN Occurrences[v] : pending.ids[Occurrences[v][k]] # 0

Transaction == \A i \in Importers : lock = i => Transacts(i)

Remembered ==
  \A i \in Importers : pc[i] \in Live =>
    \A p \in Positions : cache[i][p] # 0 =>
      cache[i][p] = IF lock = i THEN pending.ids[p] ELSE ids[p]

Decided ==
  \A i \in Importers :
    LET g == Current(i).game
        v == Current(i).version
    IN  /\ pc[i] = "compare" => row[g] = v \/ (row[g] # NoVersion /\ g \in others[i])
        /\ pc[i] \in {"write", "commit"} /\ row[g] = v => g \in others[i]

IInv ==
  /\ TypeOK /\ Shapes /\ Progress /\ IdTable(ids) /\ Transaction /\ Remembered /\ Decided
  /\ OccurrencesFaithful /\ ImportedIsStored

Index(S, p) == CHOOSE k \in DOMAIN SetToSeq(S) : SetToSeq(S)[k] = p

\* SetToSeq enumerates a finite set: each element has an index of its own.
LEMMA Enumerates ==
  ASSUME NEW S, IsFiniteSet(S)
  PROVE  /\ \A p \in S : Index(S, p) \in 1 .. Cardinality(S)
         /\ \A p, q \in S : Index(S, p) = Index(S, q) => p = q
<1> DEFINE s == SetToSeq(S)
<1>1. PICK f \in Bijection(1 .. Cardinality(S), S) : TRUE
  BY FS_CardinalityType DEF ExistsBijection
<1>2. f \in [1 .. Cardinality(S) -> S] /\ IsInjective(f)
  BY <1>1 DEF Bijection, Injection, IsInjective
<1>3. s \in [1 .. Cardinality(S) -> S] /\ IsInjective(s)
  BY <1>2 DEF SetToSeq
<1>4. s \in Injection(1 .. Cardinality(S), S)
  BY <1>3 DEF Injection, IsInjective
<1>5. Cardinality(1 .. Cardinality(S)) = Cardinality(S) /\ IsFiniteSet(1 .. Cardinality(S))
  BY FS_CardinalityType, FS_Interval
<1>6. s \in Surjection(1 .. Cardinality(S), S)
  BY <1>4, <1>5, FS_Injection
<1>7. ASSUME NEW p \in S PROVE Index(S, p) \in DOMAIN s /\ s[Index(S, p)] = p
  <2>1. \E k \in DOMAIN s : s[k] = p
    BY <1>3, <1>6 DEF Surjection
  <2> QED
    BY <2>1 DEF Index
<1> QED
  BY <1>3, <1>7

LEMMA IdsFit ==
  ASSUME IsFiniteSet(Positions), NEW d, IdTable(d)
  PROVE  d \in [Positions -> 0 .. Cardinality(Positions)]
<1>1. Cardinality(Assigned(d)) <= Cardinality(Positions)
      /\ Cardinality(Positions) \in Nat /\ Cardinality(Assigned(d)) \in Nat
  BY FS_Subset, FS_CardinalityType DEF Assigned
<1> QED
  BY <1>1 DEF IdTable, Assigned

\* New ids behind all ids make a table of ids again.
LEMMA NewIds ==
  ASSUME IsFiniteSet(Positions), NEW d, IdTable(d), NEW S \in SUBSET Positions, S \cap Assigned(d) = {}
  PROVE  IdTable([p \in Positions |-> IF p \in S THEN Cardinality(Assigned(d)) + Index(S, p) ELSE d[p]])
<1> DEFINE n == Cardinality(Assigned(d))
           e == [p \in Positions |-> IF p \in S THEN n + Index(S, p) ELSE d[p]]
<1>1. IsFiniteSet(S) /\ IsFiniteSet(Assigned(d))
  BY FS_Subset DEF Assigned
<1>2. n \in Nat /\ Cardinality(S) \in Nat
  BY <1>1, FS_CardinalityType
<1>3. /\ \A p \in S : Index(S, p) \in 1 .. Cardinality(S)
      /\ \A p, q \in S : Index(S, p) = Index(S, q) => p = q
  BY <1>1, Enumerates
<1>4. Assigned(e) = Assigned(d) \cup S
  BY <1>2, <1>3 DEF Assigned
<1>5. Cardinality(Assigned(e)) = n + Cardinality(S)
  <2>1. Cardinality(Assigned(d) \cap S) = 0
    BY FS_EmptySet
  <2>2. Cardinality(Assigned(d) \cup S) = n + Cardinality(S) - Cardinality(Assigned(d) \cap S)
    BY <1>1, FS_Union
  <2> HIDE DEF e
  <2>3. Cardinality(Assigned(e)) = Cardinality(Assigned(d) \cup S)
    BY <1>4
  <2> HIDE DEF n
  <2> QED
    BY <1>2, <2>1, <2>2, <2>3
<1>6. d \in [Positions -> Nat]
  BY DEF IdTable
<1>7. e \in [Positions -> Nat]
  BY <1>2, <1>3, <1>6
<1>8. \A p \in Assigned(d) : d[p] \in 1 .. n
  BY <1>2, <1>6 DEF IdTable, Assigned
<1>9. \A p \in Assigned(e) : p \in S \/ (p \in Assigned(d) /\ p \notin S)
  BY <1>4
<1>10. \A p \in Positions : e[p] = IF p \in S THEN n + Index(S, p) ELSE d[p]
  OBVIOUS
<1>11. \A p, q \in Assigned(d) : d[p] = d[q] => p = q
  BY DEF IdTable
<1> HIDE DEF e, n
<1>12. Assigned(e) \subseteq Positions
  BY DEF Assigned
<1>13. \A p \in Assigned(e) : e[p] <= n + Cardinality(S)
  BY <1>2, <1>3, <1>8, <1>9, <1>10, <1>12
<1>14. ASSUME NEW p \in Assigned(e), NEW q \in Assigned(e), e[p] = e[q] PROVE p = q
  <2>1. CASE p \in S /\ q \in S
    BY <1>2, <1>3, <1>10, <1>12, <1>14, <2>1
  <2>2. CASE p \in S /\ q \notin S
    BY <1>2, <1>3, <1>8, <1>9, <1>10, <1>12, <1>14, <2>2
  <2>3. CASE p \notin S /\ q \in S
    BY <1>2, <1>3, <1>8, <1>9, <1>10, <1>12, <1>14, <2>3
  <2>4. CASE p \notin S /\ q \notin S
    BY <1>9, <1>10, <1>11, <1>12, <1>14, <2>4
  <2> QED
    BY <2>1, <2>2, <2>3, <2>4
<1>15. IdTable(e)
  BY <1>5, <1>7, <1>13, <1>14 DEF IdTable
<1> QED
  BY <1>15 DEF e, n


-----------------------------------------------------------------------------

USE ImportHolds DEF ImportAssumption

LEMMA BatchTypes ==
  ASSUME IInv, NEW i \in Importers
  PROVE  /\ batch[i] \in Seq(Item) /\ Len(batch[i]) \in Nat /\ at[i] \in Nat \ {0}
         /\ at[i] <= Len(batch[i]) => Current(i).game \in Games /\ Current(i).version \in Versions \cup {NoVersion}
<1>1. batch[i] \in Batches \cup {<< >>} /\ at[i] \in Nat \ {0}
  BY DEF IInv, Shapes
<1>2. << >> \in Seq(Item)
  OBVIOUS
<1>3. batch[i] \in Seq(Item)
  BY <1>1, <1>2
<1>4. ASSUME at[i] <= Len(batch[i]) PROVE Current(i) \in Item
  BY <1>1, <1>3, <1>4 DEF Current
<1> QED
  BY <1>1, <1>3, <1>4 DEF Item

\* The item an importer works at.
LEMMA AtWork ==
  ASSUME IInv, NEW i \in Importers, pc[i] \in Working
  PROVE  /\ batch[i] \in Batches
         /\ at[i] \in 1 .. Len(batch[i])
         /\ Current(i).game \in Games /\ Current(i).version \in Versions
<1>1. at[i] <= Len(batch[i]) /\ Current(i).version # NoVersion
  BY DEF IInv, Progress
<1>2. batch[i] \in Batches \cup {<< >>}
  BY DEF IInv, Shapes
<1> QED
  BY <1>1, <1>2, BatchTypes

LEMMA Plies ==
  ASSUME NEW v \in Versions
  PROVE  /\ Occurrences[v] \in Seq(Positions)
         /\ DOMAIN Occurrences[v] = 1 .. Len(Occurrences[v])
         /\ \A k \in DOMAIN Occurrences[v] : Occurrences[v][k] \in Positions
         /\ Range(Occurrences[v]) = {Occurrences[v][k] : k \in DOMAIN Occurrences[v]}
         /\ Range(Occurrences[v]) \subseteq Positions
BY DEF Range

\* What a transaction writes of ids: those there are, and new ones for the
\* positions of the game that have none; a remembered id is one of them.
LEMMA WrittenIds ==
  ASSUME IInv, NEW i \in Importers, pc[i] = "write", lock = Nobody,
         NEW g \in Games, NEW v \in Versions
  PROVE  /\ IdTable(Written(i, g, v).ids)
         /\ \A p \in Stored : Written(i, g, v).ids[p] = ids[p]
         /\ \A p \in Range(Occurrences[v]) :
              Resolved(i, v)[p] = Written(i, g, v).ids[p] /\ Written(i, g, v).ids[p] # 0
         /\ \A p \in Positions : Resolved(i, v)[p] # 0 => Resolved(i, v)[p] = Written(i, g, v).ids[p]
<1> DEFINE S == Range(Occurrences[v]) \ Stored
           T == {p \in Range(Occurrences[v]) \ Stored : cache[i][p] = 0}
           d == [p \in Positions |-> IF p \in S THEN Cardinality(Stored) + Index(S, p) ELSE ids[p]]
<1>1. IdTable(ids) /\ Stored = Assigned(ids)
  BY DEF IInv, Stored, Assigned
<1>2. \A p \in Positions : cache[i][p] # 0 => ids[p] = cache[i][p]
  <2>1. lock # i /\ pc[i] \in Live
    BY DEF Live
  <2> QED
    BY <2>1 DEF IInv, Remembered
<1>3. Range(Occurrences[v]) \subseteq Positions
  BY Plies
<1>4. \A p \in Positions : p \in Stored <=> ids[p] # 0
  BY DEF Stored
<1>5. T = S
  BY <1>2, <1>3, <1>4
<1>6. Resolved(i, v) = [p \in Positions |->
         IF p \notin Range(Occurrences[v]) \/ cache[i][p] # 0 THEN cache[i][p]
         ELSE IF p \in Stored THEN ids[p] ELSE Cardinality(Stored) + Index(T, p)]
  BY DEF Resolved, Index
<1>7. ASSUME NEW p \in Positions
      PROVE  Resolved(i, v)[p] =
               IF p \notin Range(Occurrences[v]) \/ cache[i][p] # 0 THEN cache[i][p]
               ELSE IF p \in Stored THEN ids[p] ELSE Cardinality(Stored) + Index(S, p)
  <2> HIDE DEF S, T
  <2>1. Index(T, p) = Index(S, p)
    BY <1>5
  <2>2. Resolved(i, v)[p] =
          IF p \notin Range(Occurrences[v]) \/ cache[i][p] # 0 THEN cache[i][p]
          ELSE IF p \in Stored THEN ids[p] ELSE Cardinality(Stored) + Index(T, p)
    BY <1>6
  <2> QED
    BY <2>1, <2>2
<1>8. Written(i, g, v).ids = d
  <2>1. Written(i, g, v).ids = [p \in Positions |->
              IF ids[p] = 0 /\ p \in Range(Occurrences[v]) /\ cache[i][p] = 0
                THEN Resolved(i, v)[p] ELSE ids[p]]
    BY DEF Written
  <2>2. \A p \in Positions :
          (IF ids[p] = 0 /\ p \in Range(Occurrences[v]) /\ cache[i][p] = 0
             THEN Resolved(i, v)[p] ELSE ids[p])
          = IF p \in S THEN Cardinality(Stored) + Index(S, p) ELSE ids[p]
    BY <1>2, <1>4, <1>7
  <2> QED
    BY <2>1, <2>2
<1>9. IdTable(d)
  BY <1>1, <1>3, NewIds
<1>10. IsFiniteSet(S) /\ Cardinality(Stored) \in Nat /\ Cardinality(S) \in Nat
  BY <1>3, FS_Subset, FS_CardinalityType DEF Stored
<1>11. \A p \in S : Index(S, p) \in 1 .. Cardinality(S)
  BY <1>10, Enumerates
<1> HIDE DEF S
<1>12. \A p \in S : Cardinality(Stored) + Index(S, p) # 0
  BY <1>10, <1>11
<1>13. \A p \in Positions : d[p] = IF p \in S THEN Cardinality(Stored) + Index(S, p) ELSE ids[p]
  OBVIOUS
<1> HIDE DEF d
<1>14. \A p \in Stored : d[p] = ids[p]
  BY <1>4, <1>13 DEF Stored, S
<1>15. \A p \in Range(Occurrences[v]) : Resolved(i, v)[p] = d[p] /\ d[p] # 0
  BY <1>2, <1>3, <1>4, <1>7, <1>12, <1>13 DEF S
<1>16. \A p \in Positions : Resolved(i, v)[p] # 0 => Resolved(i, v)[p] = d[p]
  <2>1. ASSUME NEW p \in Positions, p \notin Range(Occurrences[v]), Resolved(i, v)[p] # 0
        PROVE  Resolved(i, v)[p] = d[p]
    BY <1>2, <1>7, <1>13, <2>1 DEF S
  <2> QED
    BY <1>15, <2>1
<1> QED
  BY <1>8, <1>9, <1>14, <1>15, <1>16

-----------------------------------------------------------------------------
(* One lemma for each step. *)

LEMMA InitHolds == Init => IInv
<1> SUFFICES ASSUME Init PROVE IInv
  OBVIOUS
<1>1. Cardinality(Positions) \in Nat
  BY FS_CardinalityType
<1>2. TypeOK
  BY <1>1 DEF Init, TypeOK, NoIds, Ended
<1>3. Shapes /\ Progress
  BY <1>1 DEF Init, Shapes, Progress, NoIds, Working, Live
<1>4. IdTable(ids)
  BY DEF Init, IdTable, Assigned, NoIds
<1>5. Transaction /\ Remembered /\ Decided
  BY DEF Init, Transaction, Remembered, Decided, Live
<1>6. OccurrencesFaithful /\ ImportedIsStored
  BY DEF Init, OccurrencesFaithful, ImportedIsStored
<1> QED
  BY <1>2, <1>3, <1>4, <1>5, <1>6 DEF IInv

Kept(i) ==
  \A k \in DOMAIN batch[i] :
    LET item == batch[i][k]
    IN  k < at[i] /\ item.version # NoVersion =>
          \/ \E l \in k + 1 .. at[i] - 1 :
               batch[i][l].game = item.game /\ batch[i][l].version # NoVersion
          \/ row[item.game] = item.version
          \/ row[item.game] # NoVersion /\ item.game \in others[i]

\* A step that leaves the tables and the transaction alone and changes the work of
\* one importer disturbs the invariant only there.
Own(i) ==
  /\ pc[i] \in Live \cup Ended \cup {"off"}
  /\ batch[i] \in Batches \cup {<< >>} /\ at[i] \in Nat \ {0} /\ bulk[i] \in BOOLEAN
  /\ cache[i] \in [Positions -> 0 .. Cardinality(Positions)]
  /\ seen[i] \in Versions \cup {NoVersion}
  /\ imported[i] \in Nat /\ others[i] \in SUBSET Games
  /\ pc[i] # "commit"
  /\ at[i] <= Len(batch[i]) + 1 /\ imported[i] < at[i]
  /\ pc[i] \in Working => at[i] <= Len(batch[i]) /\ Current(i).version # NoVersion
  /\ pc[i] \in Live =>
       \A p \in Positions : cache[i][p] # 0 => cache[i][p] = ids[p]
  /\ pc[i] = "compare" =>
       \/ row[Current(i).game] = Current(i).version
       \/ row[Current(i).game] # NoVersion /\ Current(i).game \in others[i]
  /\ pc[i] = "write" /\ row[Current(i).game] = Current(i).version =>
       Current(i).game \in others[i]
  /\ pc[i] # "off" => Kept(i)

OthersStay(i) ==
  /\ pc' = [pc EXCEPT ![i] = pc'[i]] /\ batch' = [batch EXCEPT ![i] = batch'[i]]
  /\ at' = [at EXCEPT ![i] = at'[i]] /\ bulk' = [bulk EXCEPT ![i] = bulk'[i]]
  /\ cache' = [cache EXCEPT ![i] = cache'[i]] /\ seen' = [seen EXCEPT ![i] = seen'[i]]
  /\ imported' = [imported EXCEPT ![i] = imported'[i]] /\ others' = [others EXCEPT ![i] = others'[i]]

LEMMA OwnWork ==
  ASSUME IInv, NEW i \in Importers, UNCHANGED table, Rollback(i), OthersStay(i), Own(i)'
  PROVE  IInv'
<1> USE DEF IInv
<1>1. /\ UNCHANGED <<row, occ, ids>>
      /\ lock' \in Importers \cup {Nobody} /\ (lock' = Nobody <=> pending' = << >>)
      /\ \A j \in Importers : lock' = j <=> lock = j /\ j # i
      /\ \A j \in Importers : lock' = j => pending' = pending
  BY DEF table, Rollback, TypeOK
<1>2. /\ \A j \in Importers \ {i} :
           /\ pc'[j] = pc[j] /\ batch'[j] = batch[j] /\ at'[j] = at[j] /\ bulk'[j] = bulk[j]
           /\ cache'[j] = cache[j] /\ seen'[j] = seen[j] /\ imported'[j] = imported[j]
           /\ others'[j] = others[j] /\ Current(j)' = Current(j)
  BY DEF Shapes, OthersStay, Current
<1>3. Shapes'
  BY DEF Shapes, OthersStay, Own
<1>4. Progress'
  <2> SUFFICES ASSUME NEW j \in Importers
               PROVE  /\ at'[j] <= Len(batch'[j]) + 1 /\ imported'[j] < at'[j]
                      /\ pc'[j] \in Working => at'[j] <= Len(batch'[j]) /\ Current(j)'.version # NoVersion
    BY DEF Progress
  <2>1. CASE j = i
    BY <2>1 DEF Own
  <2>2. CASE j # i
    BY <1>2, <2>2 DEF Progress
  <2> QED
    BY <2>1, <2>2
<1>5. TypeOK'
  <2>1. lock' # i
    BY <1>1
  <2>2. imported'[i] \in 0 .. Len(batch'[i])
    <3>1. Len(batch'[i]) \in Nat
      BY DEF Own
    <3> QED
      BY <3>1 DEF Own
  <2> SUFFICES ASSUME NEW j \in Importers
               PROVE  /\ pc'[j] \in {"off", "next", "compare", "write", "commit"} \cup Ended
                      /\ pc'[j] = "commit" <=> lock' = j
                      /\ imported'[j] \in 0 .. Len(batch'[j]) /\ others'[j] \subseteq Games
                      /\ cache'[j] \in [Positions -> 0 .. Cardinality(Positions)]
    BY <1>1 DEF TypeOK
  <2>3. CASE j = i
    BY <1>1, <2>1, <2>2, <2>3 DEF Own, Live
  <2>4. CASE j # i
    BY <1>1, <1>2, <2>4 DEF TypeOK
  <2> QED
    BY <2>3, <2>4
<1>6. IdTable(ids)' /\ OccurrencesFaithful'
  BY <1>1 DEF IdTable, Assigned, OccurrencesFaithful, SameOccurrences
<1>7. Transaction'
  <2> SUFFICES ASSUME NEW j \in Importers, lock' = j
               PROVE  Transacts(j)'
    BY DEF Transaction
  <2>1. j # i /\ lock = j
    BY <1>1
  <2>2. Transacts(j)
    BY <2>1 DEF Transaction
  <2>3. Current(j)' = Current(j) /\ Stored' = Stored /\ pending' = pending
    BY <1>1, <1>2, <2>1 DEF Stored
  <2>4. IdTable(pending.ids)' <=> IdTable(pending.ids)
    BY <2>3 DEF IdTable, Assigned
  <2> HIDE DEF IInv
  <2> QED
    BY <1>1, <2>2, <2>3, <2>4, Zenon DEF Transacts
<1>8. Remembered'
  <2> SUFFICES ASSUME NEW j \in Importers, pc'[j] \in Live, NEW p \in Positions, cache'[j][p] # 0
               PROVE  cache'[j][p] = IF lock' = j THEN pending'.ids[p] ELSE ids'[p]
    BY DEF Remembered
  <2>1. CASE j = i
    <3>1. lock' # i
      BY <1>1
    <3> QED
      BY <2>1, <3>1 DEF Own
  <2>2. CASE j # i
    BY <1>1, <1>2, <2>2 DEF Remembered
  <2> QED
    BY <2>1, <2>2
<1>9. Decided'
  <2> SUFFICES ASSUME NEW j \in Importers
               PROVE  /\ pc'[j] = "compare" =>
                           \/ row[Current(j)'.game] = Current(j)'.version
                           \/ row[Current(j)'.game] # NoVersion /\ Current(j)'.game \in others'[j]
                      /\ pc'[j] \in {"write", "commit"} /\ row[Current(j)'.game] = Current(j)'.version =>
                           Current(j)'.game \in others'[j]
    BY <1>1 DEF Decided
  <2>1. CASE j = i
    BY <1>1, <2>1 DEF Own
  <2>2. CASE j # i
    BY <1>2, <2>2 DEF Decided
  <2> QED
    BY <2>1, <2>2
<1>10. ImportedIsStored'
  <2> SUFFICES ASSUME NEW j \in Importers, pc'[j] # "off" PROVE Kept(j)'
    BY DEF ImportedIsStored, Kept
  <2>1. CASE j = i
    BY <2>1 DEF Own
  <2>2. CASE j # i
    <3>1. Kept(j)
      BY <1>2, <2>2 DEF ImportedIsStored, Kept
    <3>2. batch'[j] = batch[j] /\ at'[j] = at[j] /\ others'[j] = others[j] /\ row' = row
      BY <1>1, <1>2, <2>2
    <3> HIDE DEF IInv
    <3> QED
      BY <3>1, <3>2 DEF Kept
  <2> QED
    BY <2>1, <2>2
<1> QED
  BY <1>3, <1>4, <1>5, <1>6, <1>7, <1>8, <1>9, <1>10

LEMMA OwnHolds ==
  ASSUME IInv, NEW i \in Importers, pc[i] # "commit"
  PROVE  Own(i)
<1> USE DEF IInv
<1>1. ASSUME pc[i] \in Live, NEW p \in Positions, cache[i][p] # 0 PROVE cache[i][p] = ids[p]
  BY <1>1 DEF TypeOK, Remembered
<1>2. pc[i] # "off" => Kept(i)
  BY DEF ImportedIsStored, Kept
<1>3. at[i] <= Len(batch[i]) + 1 /\ imported[i] < at[i]
      /\ (pc[i] \in Working => at[i] <= Len(batch[i]) /\ Current(i).version # NoVersion)
  BY DEF Progress
<1> QED
  BY <1>1, <1>2, <1>3 DEF Own, Shapes, Decided

LEMMA StartStep ==
  ASSUME IInv, NEW i \in Importers, NEW b \in Batches, NEW all \in BOOLEAN, Start(i, b, all)
  PROVE  IInv'
<1>1. OthersStay(i) /\ UNCHANGED table /\ Rollback(i) /\ pc[i] # "commit"
  BY DEF OthersStay, Rollback, TypeOK, Start, IInv, Shapes
<1>2. /\ pc'[i] = "next" /\ batch'[i] = b /\ at'[i] = 1 /\ bulk'[i] = all /\ cache'[i] = NoIds
      /\ seen'[i] = seen[i] /\ imported'[i] = 0 /\ others'[i] = {}
  BY DEF Start, IInv, Shapes
<1>3. Kept(i)'
  BY <1>2 DEF Kept
<1>4. Cardinality(Positions) \in Nat
  BY FS_CardinalityType
<1>5. NoIds \in [Positions -> 0 .. Cardinality(Positions)] /\ \A p \in Positions : NoIds[p] = 0
  BY <1>4 DEF NoIds
<1>6. Len(b) \in Nat /\ 1 <= Len(b) + 1
  OBVIOUS
<1>7. Own(i)'
  BY <1>2, <1>3, <1>5, <1>6 DEF Own, IInv, Shapes, Live, Working
<1> QED
  BY <1>1, <1>7, OwnWork

\* Done with an item, an importer goes on to the next.
LEMMA GoesOn ==
  ASSUME IInv, NEW i \in Importers, pc[i] # "off",
         at[i] <= Len(batch[i]),
         Current(i).version # NoVersion =>
           \/ row[Current(i).game] = Current(i).version
           \/ row[Current(i).game] # NoVersion /\ Current(i).game \in others[i],
         at' = [at EXCEPT ![i] = @ + 1],
         UNCHANGED <<row, batch, others>>
  PROVE  Kept(i)'
<1> USE DEF IInv
<1>1. Kept(i)
  BY DEF ImportedIsStored, Kept
<1>2. at'[i] = at[i] + 1 /\ at[i] \in Nat
  BY DEF Shapes
<1>3. batch[i] \in Seq(Item)
  BY BatchTypes
<1> SUFFICES ASSUME NEW k \in DOMAIN batch[i], k < at[i] + 1, batch[i][k].version # NoVersion,
                    ~\E l \in k + 1 .. at[i] + 1 - 1 :
                       batch[i][l].game = batch[i][k].game /\ batch[i][l].version # NoVersion
             PROVE  \/ row[batch[i][k].game] = batch[i][k].version
                    \/ row[batch[i][k].game] # NoVersion /\ batch[i][k].game \in others[i]
  BY <1>2 DEF Kept
<1>4. k \in Nat
  BY <1>3
<1>5. CASE k = at[i]
  BY <1>5 DEF Current
<1>6. CASE k < at[i]
  <2>1. ~\E l \in k + 1 .. at[i] - 1 :
           batch[i][l].game = batch[i][k].game /\ batch[i][l].version # NoVersion
    BY <1>2, <1>4
  <2> QED
    BY <1>1, <1>6, <2>1 DEF Kept
<1> QED
  BY <1>2, <1>4, <1>5, <1>6

LEMMA SkipStep ==
  ASSUME IInv, NEW i \in Importers, Skip(i)
  PROVE  IInv'
<1>1. OthersStay(i) /\ UNCHANGED table /\ Rollback(i) /\ pc[i] # "commit"
  BY DEF OthersStay, Rollback, TypeOK, Skip, AtItem, IInv, Shapes
<1>2. /\ pc' = pc /\ batch' = batch /\ bulk' = bulk /\ cache' = cache /\ seen' = seen
      /\ imported' = imported /\ others' = others /\ ids' = ids /\ row' = row
      /\ at' = [at EXCEPT ![i] = @ + 1] /\ at'[i] = at[i] + 1
      /\ pc[i] = "next" /\ at[i] <= Len(batch[i]) /\ Current(i).version = NoVersion
  BY DEF Skip, AtItem, IInv, Shapes, table
<1>3. Kept(i)'
  BY <1>2, GoesOn
<1>4. Own(i)
  BY <1>1, OwnHolds
<1>5. Len(batch[i]) \in Nat
  BY DEF IInv, Shapes
<1>6. Own(i)'
  BY <1>2, <1>3, <1>4, <1>5 DEF Own, Live, Working
<1> QED
  BY <1>1, <1>6, OwnWork

LEMMA LookStep ==
  ASSUME IInv, NEW i \in Importers, Look(i)
  PROVE  IInv'
<1>1. OthersStay(i) /\ UNCHANGED table /\ Rollback(i) /\ pc[i] # "commit"
  BY DEF OthersStay, Rollback, TypeOK, Look, AtGame, AtItem, IInv, Shapes
<1>2. /\ batch' = batch /\ bulk' = bulk /\ cache' = cache /\ at' = at
      /\ imported' = imported /\ others' = others /\ ids' = ids /\ row' = row
      /\ pc[i] = "next" /\ at[i] <= Len(batch[i]) /\ Current(i).version # NoVersion
      /\ pc'[i] = IF row[Current(i).game] = Current(i).version THEN "compare" ELSE "write"
      /\ seen'[i] = row[Current(i).game]
  BY DEF Look, AtGame, AtItem, IInv, Shapes, table
<1>3. Own(i)
  BY <1>1, OwnHolds
<1>4. Kept(i)' <=> Kept(i)
  BY <1>2 DEF Kept
<1>5. Current(i)' = Current(i)
  BY <1>2 DEF Current
<1>6. row[Current(i).game] \in Versions \cup {NoVersion}
  BY <1>2, BatchTypes DEF IInv, TypeOK
<1>7. Own(i)'
  BY <1>2, <1>3, <1>4, <1>5, <1>6 DEF Own, Live, Working
<1> QED
  BY <1>1, <1>7, OwnWork

LEMMA CompareStep ==
  ASSUME IInv, NEW i \in Importers, Compare(i)
  PROVE  IInv'
<1>1. OthersStay(i) /\ UNCHANGED table /\ Rollback(i) /\ pc[i] # "commit"
  BY DEF OthersStay, Rollback, TypeOK, Compare, Persisted, IInv, Shapes
<1>2. /\ batch' = batch /\ bulk' = bulk /\ cache' = cache /\ seen' = seen
      /\ others' = others /\ ids' = ids /\ row' = row /\ pc[i] = "compare"
  BY DEF Compare, table
<1>3. Own(i) /\ at[i] <= Len(batch[i]) /\ Current(i).version # NoVersion
  BY <1>1, <1>2, OwnHolds DEF Own, Working
<1>4. \/ row[Current(i).game] = Current(i).version
      \/ row[Current(i).game] # NoVersion /\ Current(i).game \in others[i]
  BY <1>2, <1>3 DEF Own
<1>5. Current(i).game \in Games /\ Len(batch[i]) \in Nat
  BY <1>2, AtWork, BatchTypes DEF Working
<1>6. CASE SameOccurrences(Current(i).game, Current(i).version)
  <2>1. /\ at' = [at EXCEPT ![i] = @ + 1] /\ at'[i] = at[i] + 1 /\ imported'[i] = imported[i] + 1
        /\ pc'[i] = "next"
    BY <1>6 DEF Compare, Persisted, IInv, Shapes
  <2>2. Kept(i)'
    BY <1>2, <1>3, <1>4, <2>1, GoesOn
  <2>3. Own(i)'
    BY <1>2, <1>3, <1>5, <2>1, <2>2 DEF Own, Live, Working
  <2> QED
    BY <1>1, <2>3, OwnWork
<1>7. CASE ~SameOccurrences(Current(i).game, Current(i).version)
  <2>1. at' = at /\ imported' = imported /\ pc'[i] = "write"
    BY <1>7 DEF Compare, IInv, Shapes
  <2>2. (Kept(i)' <=> Kept(i)) /\ Current(i)' = Current(i)
    BY <1>2, <2>1 DEF Kept, Current
  <2>3. row[Current(i).game] # Current(i).version
    BY <1>3, <1>5, <1>7 DEF IInv, OccurrencesFaithful
  <2>4. Own(i)'
    BY <1>2, <1>3, <2>1, <2>2, <2>3 DEF Own, Live, Working
  <2> QED
    BY <1>1, <2>4, OwnWork
<1> QED
  BY <1>6, <1>7

\* An importer that ends, in whichever way, takes nothing with it.
LEMMA Stops ==
  ASSUME IInv, NEW i \in Importers, pc[i] # "off", NEW e \in Ended, pc' = [pc EXCEPT ![i] = e],
         Rollback(i), UNCHANGED <<table, batch, at, bulk, cache, seen, imported, others>>
  PROVE  IInv'
<1>1. OthersStay(i) /\ pc'[i] = e
  BY DEF OthersStay, IInv, Shapes
<1>2. Kept(i)
  BY DEF IInv, ImportedIsStored, Kept
<1>3. Kept(i)'
  BY <1>2 DEF Kept, table
<1>4. Own(i)'
  BY <1>1, <1>3 DEF Own, IInv, Shapes, Progress, Live, Working, Ended
<1> QED
  BY <1>1, <1>4, OwnWork

LEMMA EndingStep ==
  ASSUME IInv, NEW i \in Importers, Bulk(i) \/ Fail(i) \/ Interrupt(i) \/ Complete(i)
  PROVE  IInv'
<1>1. ASSUME Bulk(i) \/ Complete(i) PROVE Rollback(i)
  BY <1>1 DEF Bulk, Complete, AtGame, AtItem, Rollback, IInv, TypeOK
<1>2. Rollback(i)
  BY <1>1 DEF Fail, Interrupt
<1>3. pc[i] # "off" /\ UNCHANGED <<table, batch, at, bulk, cache, seen, imported, others>>
  BY DEF Bulk, Fail, Interrupt, Complete, AtGame, AtItem
<1>4. \E e \in Ended : pc' = [pc EXCEPT ![i] = e]
  BY DEF Bulk, Fail, Interrupt, Complete, Ended
<1> QED
  BY <1>2, <1>3, <1>4, Stops

LEMMA EndStep ==
  ASSUME IInv, NEW i \in Importers, End(i)
  PROVE  IInv'
<1>1. OthersStay(i) /\ UNCHANGED table /\ Rollback(i) /\ pc[i] # "commit"
  BY DEF OthersStay, End, Rollback, TypeOK, IInv, Shapes, Ended
<1>2. pc'[i] = "off" /\ UNCHANGED <<batch, at, bulk, cache, seen, imported, others>>
  BY DEF End, IInv, Shapes
<1>3. Own(i)'
  BY <1>2 DEF Own, IInv, Shapes, Progress, Live, Working
<1> QED
  BY <1>1, <1>3, OwnWork

LEMMA WriteStep ==
  ASSUME IInv, NEW i \in Importers, Write(i)
  PROVE  IInv'
<1> DEFINE g == Current(i).game
           v == Current(i).version
           w == Written(i, g, v)
<1> USE DEF IInv
<1>1. /\ pc[i] = "write" /\ lock = Nobody /\ lock' = i /\ pending' = w
      /\ cache' = [cache EXCEPT ![i] = Resolved(i, v)]
      /\ pc' = [pc EXCEPT ![i] = "commit"]
      /\ UNCHANGED <<row, occ, ids, batch, at, bulk, seen, imported, others>>
  BY DEF Write, table
<1>2. g \in Games /\ v \in Versions
  BY <1>1, AtWork DEF Working
<1>3. /\ IdTable(w.ids)
      /\ \A p \in Stored : w.ids[p] = ids[p]
      /\ \A p \in Range(Occurrences[v]) : Resolved(i, v)[p] = w.ids[p] /\ w.ids[p] # 0
      /\ \A p \in Positions : Resolved(i, v)[p] # 0 => Resolved(i, v)[p] = w.ids[p]
  BY <1>1, <1>2, WrittenIds
<1>4. Resolved(i, v) \in [Positions -> 0 .. Cardinality(Positions)]
  <2>1. w.ids \in [Positions -> 0 .. Cardinality(Positions)]
    BY <1>3, IdsFit
  <2>2. Cardinality(Positions) \in Nat
    BY FS_CardinalityType
  <2>3. \A p \in Positions : Resolved(i, v)[p] \in 0 .. Cardinality(Positions)
    BY <1>3, <2>1, <2>2
  <2>4. Resolved(i, v) = [p \in Positions |-> Resolved(i, v)[p]]
    BY DEF Resolved
  <2> HIDE DEF v
  <2> QED
    BY <2>3, <2>4
<1>5. \A j \in Importers : /\ pc'[j] = IF j = i THEN "commit" ELSE pc[j]
                           /\ cache'[j] = IF j = i THEN Resolved(i, v) ELSE cache[j]
                           /\ Current(j)' = Current(j)
  BY <1>1 DEF Shapes, Current
<1>6. TypeOK'
  <2>1. pending' # << >>
    BY <1>1 DEF Written
  <2> HIDE DEF v, w
  <2> QED
    BY <1>1, <1>4, <1>5, <2>1 DEF TypeOK
<1>7. Shapes'
  <2> HIDE DEF v, w
  <2> QED
    BY <1>1, <1>4 DEF Shapes, Live
<1>8. Progress'
  BY <1>1, <1>5 DEF Progress, Working
<1>9. IdTable(ids)' /\ OccurrencesFaithful' /\ ImportedIsStored'
  BY <1>1, <1>5 DEF IdTable, Assigned, OccurrencesFaithful, SameOccurrences, ImportedIsStored
<1>10. Transaction'
  <2>1. \A k \in DOMAIN Occurrences[v] :
          Occurrences[v][k] \in Range(Occurrences[v]) /\ Resolved(i, v)[Occurrences[v][k]] = w.ids[Occurrences[v][k]]
    BY <1>2, <1>3, Plies
  <2> SUFFICES Transacts(i)'
    BY <1>1 DEF Transaction
  <2>2. w = [row |-> w.row, occ |-> w.occ, ids |-> w.ids] /\ w.row = [row EXCEPT ![g] = v]
    BY DEF Written
  <2>3. w.occ = [occ EXCEPT ![g] = [k \in DOMAIN Occurrences[v] |-> Resolved(i, v)[Occurrences[v][k]]]]
    BY DEF Written
  <2>4. [k \in DOMAIN Occurrences[v] |-> Resolved(i, v)[Occurrences[v][k]]]
        = [k \in DOMAIN Occurrences[v] |-> w.ids[Occurrences[v][k]]]
    BY <2>1
  <2>5. IdTable(pending'.ids) /\ Stored' = Stored
    BY <1>1, <1>3 DEF Stored
  <2> QED
    BY <1>1, <1>3, <1>5, <2>1, <2>2, <2>3, <2>4, <2>5 DEF Transacts
<1>11. Remembered'
  <2> SUFFICES ASSUME NEW j \in Importers, pc'[j] \in Live, NEW p \in Positions, cache'[j][p] # 0
               PROVE  cache'[j][p] = IF lock' = j THEN pending'.ids[p] ELSE ids'[p]
    BY DEF Remembered
  <2>1. CASE j = i
    BY <1>1, <1>3, <1>5, <2>1
  <2>2. CASE j # i
    BY <1>1, <1>5, <2>2 DEF Remembered
  <2> QED
    BY <2>1, <2>2
<1>12. Decided'
  BY <1>1, <1>5 DEF Decided
<1> QED
  BY <1>6, <1>7, <1>8, <1>9, <1>10, <1>11, <1>12

LEMMA CommitStep ==
  ASSUME IInv, NEW i \in Importers, Commit(i)
  PROVE  IInv'
<1> DEFINE g == Current(i).game
           v == Current(i).version
           d == pending.ids
<1> USE DEF IInv
<1>1. /\ pc[i] = "commit" /\ lock' = Nobody /\ pending' = << >>
      /\ row' = pending.row /\ occ' = pending.occ /\ ids' = d
      /\ pc' = [pc EXCEPT ![i] = "next"] /\ at' = [at EXCEPT ![i] = @ + 1]
      /\ imported' = [imported EXCEPT ![i] = @ + 1]
      /\ others' = [j \in Importers |-> IF j = i THEN others[j] ELSE others[j] \cup {g}]
      /\ UNCHANGED <<batch, bulk, cache, seen>>
  BY DEF Commit, Persisted
<1>2. lock = i /\ \A j \in Importers : pc[j] = "commit" <=> j = i
  BY <1>1 DEF TypeOK
<1>3. Transacts(i)
  BY <1>2 DEF Transaction
<1>4. g \in Games /\ v \in Versions /\ at[i] \in 1 .. Len(batch[i])
  BY <1>1, AtWork DEF Working
<1>5. row' = [row EXCEPT ![g] = v] /\ IdTable(d) /\ \A p \in Stored : d[p] = ids[p]
  BY <1>1, <1>3 DEF Transacts
<1>6. occ' = [occ EXCEPT ![g] = [k \in DOMAIN Occurrences[v] |-> d[Occurrences[v][k]]]]
      /\ \A k \in DOMAIN Occurrences[v] : d[Occurrences[v][k]] # 0
  BY <1>1, <1>3 DEF Transacts
<1>7. d \in [Positions -> 0 .. Cardinality(Positions)] /\ Cardinality(Positions) \in Nat
  BY <1>5, IdsFit, FS_CardinalityType
<1> DEFINE o == [k \in DOMAIN Occurrences[v] |-> d[Occurrences[v][k]]]
<1>8. /\ o \in Seq(Nat \ {0}) /\ Len(o) = Len(Occurrences[v]) /\ DOMAIN o = DOMAIN Occurrences[v]
      /\ \A k \in DOMAIN o : d[Occurrences[v][k]] = o[k]
  <2>1. \A k \in DOMAIN Occurrences[v] : d[Occurrences[v][k]] \in Nat \ {0}
    BY <1>4, <1>6, <1>7, Plies
  <2>2. DOMAIN Occurrences[v] = 1 .. Len(Occurrences[v]) /\ Len(Occurrences[v]) \in Nat
    BY <1>4, Plies
  <2> HIDE DEF v, d
  <2> QED
    BY <2>1, <2>2
<1>9. \A j \in Importers :
        /\ pc'[j] = IF j = i THEN "next" ELSE pc[j]
        /\ at'[j] = IF j = i THEN at[j] + 1 ELSE at[j]
        /\ imported'[j] = IF j = i THEN imported[j] + 1 ELSE imported[j]
        /\ others'[j] = IF j = i THEN others[j] ELSE others[j] \cup {g}
        /\ (j # i => Current(j)' = Current(j))
  BY <1>1 DEF Shapes, Current
<1>10. \A h \in Games : /\ row'[h] = IF h = g THEN v ELSE row[h]
                        /\ occ'[h] = IF h = g THEN o ELSE occ[h]
  <2> HIDE DEF g, v, o
  <2> QED
    BY <1>5, <1>6 DEF TypeOK, o
<1> HIDE DEF g, v, o, d
<1>11. Progress'
  <2> SUFFICES ASSUME NEW j \in Importers
               PROVE  /\ at'[j] <= Len(batch'[j]) + 1 /\ imported'[j] < at'[j]
                      /\ pc'[j] \in Working => at'[j] <= Len(batch'[j]) /\ Current(j)'.version # NoVersion
    BY DEF Progress
  <2>1. CASE j = i
    <3>1. at[i] \in Nat /\ imported[i] \in Nat /\ Len(batch[i]) \in Nat /\ imported[i] < at[i]
      BY BatchTypes DEF Shapes, Progress
    <3> QED
      BY <1>1, <1>4, <1>9, <2>1, <3>1 DEF Working
  <2>2. CASE j # i
    BY <1>1, <1>9, <2>2 DEF Progress
  <2> QED
    BY <2>1, <2>2
<1>12. Shapes'
  BY <1>1, <1>4 DEF Shapes, Live
<1>13. TypeOK'
  <2>1. row' \in [Games -> Versions \cup {NoVersion}] /\ occ' \in [Games -> Seq(Nat \ {0})]
    BY <1>4, <1>5, <1>6, <1>8 DEF TypeOK, o
  <2> SUFFICES ASSUME NEW j \in Importers
               PROVE  /\ pc'[j] \in {"off", "next", "compare", "write", "commit"} \cup Ended
                      /\ pc'[j] = "commit" <=> lock' = j
                      /\ imported'[j] \in 0 .. Len(batch'[j]) /\ others'[j] \subseteq Games
                      /\ cache'[j] \in [Positions -> 0 .. Cardinality(Positions)]
    BY <1>1, <1>7, <2>1 DEF TypeOK
  <2>2. imported'[j] \in 0 .. Len(batch'[j])
    <3>1. imported'[j] \in Nat /\ at'[j] \in Nat /\ imported'[j] < at'[j] /\ at'[j] <= Len(batch'[j]) + 1
      BY <1>11, <1>12 DEF Progress, Shapes
    <3>2. Len(batch'[j]) \in Nat
      BY <1>1, BatchTypes
    <3> QED
      BY <3>1, <3>2
  <2> QED
    BY <1>1, <1>2, <1>4, <1>9, <2>2 DEF TypeOK
<1>14. IdTable(ids)'
  BY <1>1, <1>5 DEF IdTable, Assigned
<1>15. Transaction'
  BY <1>1 DEF Transaction
<1>16. Remembered'
  <2> SUFFICES ASSUME NEW j \in Importers, pc'[j] \in Live, NEW p \in Positions, cache'[j][p] # 0
               PROVE  cache'[j][p] = ids'[p]
    BY <1>1 DEF Remembered
  <2>1. CASE j = i
    BY <1>1, <1>2, <2>1 DEF Remembered, Live, d
  <2>2. CASE j # i
    <3>1. cache[j][p] = ids[p] /\ ids[p] # 0
      BY <1>1, <1>2, <1>9, <2>2 DEF Remembered
    <3> QED
      BY <1>1, <1>5, <3>1 DEF Stored
  <2> QED
    BY <2>1, <2>2
<1>17. Decided'
  <2> SUFFICES ASSUME NEW j \in Importers, pc'[j] \in {"compare", "write"}
               PROVE  /\ pc'[j] = "compare" =>
                           \/ row'[Current(j)'.game] = Current(j)'.version
                           \/ row'[Current(j)'.game] # NoVersion /\ Current(j)'.game \in others'[j]
                      /\ pc'[j] = "write" /\ row'[Current(j)'.game] = Current(j)'.version =>
                           Current(j)'.game \in others'[j]
    <3>1. \A j \in Importers : pc'[j] # "commit"
      BY <1>2, <1>9
    <3> QED
      BY <3>1 DEF Decided
  <2>1. j # i /\ pc'[j] = pc[j] /\ Current(j)' = Current(j) /\ others'[j] = others[j] \cup {g}
    BY <1>9
  <2>2. Current(j).game \in Games
    BY <2>1, AtWork DEF Working
  <2> QED
    BY <1>4, <1>10, <2>1, <2>2 DEF Decided
<1>18. OccurrencesFaithful'
  <2> SUFFICES ASSUME NEW h \in Games, row'[h] # NoVersion
               PROVE  /\ Len(occ'[h]) = Len(Occurrences[row'[h]])
                      /\ \A k \in DOMAIN occ'[h] : ids'[Occurrences[row'[h]][k]] = occ'[h][k]
    BY DEF OccurrencesFaithful, SameOccurrences
  <2>1. CASE h = g
    BY <1>1, <1>8, <1>10, <2>1
  <2>2. CASE h # g
    <3>1. row[h] \in Versions /\ occ[h] \in Seq(Nat \ {0}) /\ occ'[h] = occ[h] /\ row'[h] = row[h]
      BY <1>10, <2>2 DEF TypeOK
    <3>2. /\ Len(occ[h]) = Len(Occurrences[row[h]])
          /\ \A k \in DOMAIN occ[h] : ids[Occurrences[row[h]][k]] = occ[h][k]
      BY <3>1 DEF OccurrencesFaithful, SameOccurrences
    <3>3. ASSUME NEW k \in DOMAIN occ[h] PROVE ids'[Occurrences[row[h]][k]] = occ[h][k]
      <4>1. k \in DOMAIN Occurrences[row[h]] /\ occ[h][k] # 0
        BY <3>1, <3>2, Plies
      <4>2. Occurrences[row[h]][k] \in Stored
        BY <3>1, <3>2, <4>1, Plies DEF Stored
      <4> QED
        BY <1>1, <1>5, <3>2, <4>2
    <3> QED
      BY <3>1, <3>2, <3>3
  <2> QED
    BY <2>1, <2>2
<1>19. ImportedIsStored'
  <2> SUFFICES ASSUME NEW j \in Importers, pc'[j] # "off" PROVE Kept(j)'
    BY DEF ImportedIsStored, Kept
  <2>1. Kept(j)
    BY <1>1, <1>9 DEF ImportedIsStored, Kept
  <2>2. batch[j] \in Seq(Item) /\ at[j] \in Nat
    BY BatchTypes
  <2> SUFFICES ASSUME NEW k \in DOMAIN batch[j], k < at'[j], batch[j][k].version # NoVersion,
                      ~\E l \in k + 1 .. at'[j] - 1 :
                         batch[j][l].game = batch[j][k].game /\ batch[j][l].version # NoVersion
               PROVE  \/ row'[batch[j][k].game] = batch[j][k].version
                      \/ row'[batch[j][k].game] # NoVersion /\ batch[j][k].game \in others'[j]
    BY <1>1 DEF Kept
  <2>3. k \in Nat /\ batch[j][k].game \in Games
    <3>1. k \in Nat /\ batch[j][k] \in Item
      BY <2>2
    <3> QED
      BY <3>1 DEF Item
  <2>4. CASE j = i
    <3>0. at'[i] = at[i] + 1 /\ at[i] \in Nat
      BY <1>9, <2>2, <2>4
    <3>1. CASE k = at[i]
      BY <1>4, <1>10, <2>4, <3>1 DEF Current, g, v
    <3>2. CASE k < at[i]
      <4>1. ~\E l \in k + 1 .. at[i] - 1 :
               batch[i][l].game = batch[i][k].game /\ batch[i][l].version # NoVersion
        BY <2>3, <2>4, <3>0
      <4>2. \/ row[batch[i][k].game] = batch[i][k].version
            \/ row[batch[i][k].game] # NoVersion /\ batch[i][k].game \in others[i]
        BY <2>1, <2>4, <3>2, <4>1 DEF Kept
      <4>3. at[i] \in k + 1 .. at'[i] - 1
        BY <2>3, <3>0, <3>2
      <4>4. batch[i][k].game # g
        BY <1>4, <2>4, <4>3 DEF g, v, Current
      <4> QED
        BY <1>9, <1>10, <2>3, <2>4, <4>2, <4>4
    <3> QED
      BY <2>3, <2>4, <3>0, <3>1, <3>2
  <2>5. CASE j # i
    <3>1. \/ row[batch[j][k].game] = batch[j][k].version
          \/ row[batch[j][k].game] # NoVersion /\ batch[j][k].game \in others[j]
      <4>1. at'[j] = at[j]
        BY <1>9, <2>5
      <4> QED
        BY <2>1, <4>1 DEF Kept
    <3>2. others'[j] = others[j] \cup {g} /\ v # NoVersion
      BY <1>4, <1>9, <2>5
    <3>3. row'[batch[j][k].game] = IF batch[j][k].game = g THEN v ELSE row[batch[j][k].game]
      BY <1>10, <2>3
    <3> QED
      BY <3>1, <3>2, <3>3
  <2> QED
    BY <2>4, <2>5
<1> QED
  BY <1>11, <1>12, <1>13, <1>14, <1>15, <1>16, <1>17, <1>18, <1>19

LEMMA StepHolds == IInv /\ [Next]_vars => IInv'
<1> SUFFICES ASSUME IInv, [Next]_vars PROVE IInv'
  OBVIOUS
<1>1. CASE UNCHANGED vars
  BY <1>1 DEF vars, table, run, IInv, TypeOK, Shapes, Progress, IdTable, Assigned, Transaction, Transacts, Stored,
       Remembered, Decided, OccurrencesFaithful, SameOccurrences, ImportedIsStored, Current
<1> QED
  BY <1>1, StartStep, SkipStep, LookStep, CompareStep, WriteStep, CommitStep, EndingStep, EndStep DEF Next

LEMMA Invariance == Spec => []IInv
BY InitHolds, StepHolds, PTL DEF Spec

LEMMA StepsKeepIds ==
  IInv /\ [Next]_vars =>
    \A p \in Stored : ids'[p] = ids[p] /\ \A q \in Positions \ {p} : ids'[q] # ids'[p]
<1> SUFFICES ASSUME IInv, [Next]_vars, NEW p \in Stored
             PROVE  ids'[p] = ids[p] /\ \A q \in Positions \ {p} : ids'[q] # ids'[p]
  OBVIOUS
<1>1. ids' = ids \/ \E i \in Importers : Commit(i)
  BY DEF Next, vars, table, Start, Skip, Look, Compare, Write, Bulk, Fail, Interrupt, Complete, End
<1>2. ids'[p] = ids[p]
  <2>1. ASSUME NEW i \in Importers, Commit(i) PROVE ids'[p] = ids[p]
    <3>1. lock = i /\ ids' = pending.ids
      BY <2>1 DEF Commit, IInv, TypeOK
    <3> QED
      BY <3>1 DEF IInv, Transaction, Transacts
  <2> QED
    BY <1>1, <2>1
<1>3. IdTable(ids)'
  BY StepHolds DEF IInv
<1> QED
  BY <1>2, <1>3 DEF IdTable, Assigned, Stored

\* The id of a position never changes once it is given (repository.py:119).
THEOREM IdsStayStable == Spec => IdsAreStable
BY StepsKeepIds, Invariance, PTL DEF Spec, IdsAreStable

LEMMA StepsWriteChanges ==
  IInv /\ [Next]_vars =>
    \A i \in Importers :
       pc[i] = "commit" /\ pc'[i] = "next" /\ pending.row = row => Current(i).game \in others[i]
<1> SUFFICES ASSUME IInv, NEW i \in Importers, pc[i] = "commit", pending.row = row
             PROVE  Current(i).game \in others[i]
  OBVIOUS
<1>1. lock = i
  BY DEF IInv, TypeOK
<1>2. row = [row EXCEPT ![Current(i).game] = Current(i).version]
  BY <1>1 DEF IInv, Transaction, Transacts
<1>3. Current(i).game \in Games
  BY AtWork DEF Working
<1>4. row[Current(i).game] = Current(i).version
  BY <1>2, <1>3 DEF IInv, TypeOK
<1> QED
  BY <1>4 DEF IInv, Decided

\* A game is written again only if it has changed (persistence_repository.py:164).
THEOREM OnlyChangesWritten == Spec => OnlyChangesAreWritten
BY StepsWriteChanges, Invariance, PTL DEF Spec, OnlyChangesAreWritten

HIDE ImportHolds DEF ImportAssumption

-----------------------------------------------------------------------------

CallRecords == [at : {"off", "tested", "empty", "nowhere"}, existed : BOOLEAN]

BaseTypes ==
  /\ db \in {NoDatabase, Blank} \cup [Ledger!Months -> Ledger!Editions]
  /\ half \in BOOLEAN /\ (half => Ledger!Complete)
  /\ creation \in [Ledger!Makers -> CallRecords]
  /\ early \subseteq Ledger!Makers /\ taken \in BOOLEAN /\ created \in BOOLEAN
  /\ left \in {"no", "killed", "told", "interrupted"}

PlanTypes ==
  /\ clock \in Ledger!Months /\ remote \in [Ledger!Months -> Ledger!Editions]
  /\ file \in [Ledger!Months -> Ledger!Editions \cup {NoFile}]
  /\ step \in {"create", "discover", "fetch", "import", "off", "success", "failure"}
  /\ op \in {"setup", "update"}
  /\ current \in Ledger!Months /\ due \subseteq discovered /\ discovered \subseteq Ledger!Months
  /\ published \subseteq Ledger!Saved /\ failed \in BOOLEAN
  /\ tail \in 0 .. LastMonth /\ told \in [Ledger!Months -> Ledger!Editions \cup {NotAsked}]

\* A database that is half made is at work of the set-up that made it, or left.
Halves ==
  /\ half => left # "no" \/ (op = "setup" /\ step \in {"discover", "fetch", "import"} /\ created)
  /\ step = "create" => op = "setup"

\* What set-up takes for its own is its own or was; and a call that may take a
\* complete database away was under way when that was completed.
Owned ==
  /\ created /\ step \in {"discover", "fetch", "import"} => half \/ taken
  /\ Ledger!Complete =>
       \A w \in Ledger!Makers :
         creation[w] # Ledger!Off /\ (~creation[w].existed \/ creation[w].at # "tested") => w \in early

\* What the database holds of a month its file holds.
Filed ==
  Ledger!Complete =>
    \A m \in Ledger!Months : /\ db[m] > 0 => file[m] # NoFile
                             /\ file[m] # NoFile => db[m] <= file[m]

\* No month is saved before it comes, and of the months to come an update has saved
\* none but the tail.
Ahead ==
  /\ \A m \in Ledger!Months : file[m] # NoFile \/ m \in due => m <= clock
  /\ op = "update" /\ step = "fetch" =>
       \A m \in due : m >= tail /\ (m > tail => file[m] = NoFile)

\* What an update was told of a month is in its file, and on its way to the database.
Answers ==
  /\ step \in {"create", "discover"} => told = Ledger!NoAnswers
  /\ op = "update" /\ step \in {"fetch", "import", "success"} =>
       /\ tail \in discovered
       /\ step # "fetch" => due = {}
       /\ step = "success" => published = {} /\ ~failed
       /\ \A m \in discovered : m \in due \/ failed \/ told[m] # NotAsked
       /\ \A m \in Ledger!Months : told[m] # NotAsked =>
            /\ file[m] # NoFile /\ file[m] >= told[m]
            /\ \/ m \in published \/ failed \/ taken
               \/ step # "fetch" /\ Ledger!Complete /\ db[m] = file[m]

LedgerInv == BaseTypes /\ PlanTypes /\ Halves /\ Owned /\ Filed /\ Ahead /\ Answers

\* A set of numbers that is not empty has a least one.
LEMMA LeastOf ==
  ASSUME NEW S \in SUBSET Nat, S # {}
  PROVE  Ledger!Min(S) \in S
<1> DEFINE R == {ss \in Nat \X Nat : ss[1] < ss[2]}
<1>1. IsWellFoundedOn(R, Nat)
  BY NatLessThanWellFounded DEF OpToRel
<1>2. PICK x \in S : \A y \in S : ~(<<y, x>> \in R)
  <2> HIDE DEF R
  <2> QED
    BY <1>1, WFMin
<1>3. ASSUME NEW y \in S PROVE x <= y
  <2>1. <<y, x>> \in Nat \X Nat /\ <<y, x>>[1] = y /\ <<y, x>>[2] = x
    OBVIOUS
  <2>2. ~(y < x)
    BY <1>2, <2>1
  <2> QED
    BY <2>2
<1> QED
  BY <1>3 DEF Ledger!Min

USE LedgerHolds DEF Ledger!LedgerAssumption

LEMMA Ranges ==
  /\ Ledger!Months \subseteq Nat \ {0} /\ Ledger!Months = 1 .. LastMonth /\ 1 \in Ledger!Months
  /\ Ledger!Editions = 0 .. MaxVersion /\ 0 \in Ledger!Editions
  /\ NoFile \notin Ledger!Editions /\ NotAsked \notin Ledger!Editions /\ NoFile \notin Int
BY DEF Ledger!Months, Ledger!Editions

LEMMA Databases ==
  /\ \A f \in [Ledger!Months -> Ledger!Editions] : f # NoDatabase /\ f # Blank
  /\ Ledger!Empty \in [Ledger!Months -> Ledger!Editions]
  /\ \A m \in Ledger!Months : Ledger!Empty[m] = 0
  /\ NoDatabase # Blank
BY Ranges DEF Ledger!Empty

LEMMA CallsAre ==
  /\ Ledger!Off \in CallRecords /\ Ledger!Off.at = "off"
  /\ Ledger!Makers = {"setup", "schema"}
  /\ \A calls \in [Ledger!Makers -> CallRecords] :
       /\ Ledger!Unlinked(calls) \in [Ledger!Makers -> CallRecords]
       /\ \A w \in Ledger!Makers : calls[w] = Ledger!Off => Ledger!Unlinked(calls)[w] = Ledger!Off
BY DEF Ledger!Off, CallRecords, Ledger!Makers, Ledger!Unlinked

LEMMA LedgerInitHolds == Ledger!Init => LedgerInv
<1> SUFFICES ASSUME Ledger!Init PROVE LedgerInv
  OBVIOUS
<1>1. BaseTypes
  BY CallsAre, Databases DEF Ledger!Init, BaseTypes, Ledger!Complete
<1>2. PlanTypes
  <2>1. 1 \in Ledger!Editions /\ remote \in [Ledger!Months -> Ledger!Editions]
    BY Ranges DEF Ledger!Init
  <2>2. tail \in 0 .. LastMonth /\ told \in [Ledger!Months -> Ledger!Editions \cup {NotAsked}]
    BY DEF Ledger!Init, Ledger!NoAnswers
  <2> QED
    BY <2>1, <2>2, Ranges DEF Ledger!Init, PlanTypes
<1>3. Halves /\ Owned /\ Filed /\ Ahead /\ Answers
  BY DEF Ledger!Init, Halves, Owned, Filed, Ahead, Answers, Ledger!Complete
<1> QED
  BY <1>1, <1>2, <1>3 DEF LedgerInv

\* The month a command is at.
LEMMA NextDue ==
  ASSUME PlanTypes, due # {}
  PROVE  Ledger!Min(due) \in due /\ Ledger!Min(due) \in Ledger!Months
BY Ranges, LeastOf DEF PlanTypes

LEMMA NextPublished ==
  ASSUME PlanTypes, published # {}
  PROVE  Ledger!Min(published) \in published /\ Ledger!Min(published) \in Ledger!Saved /\ Ledger!Min(published) \in Ledger!Months
BY Ranges, LeastOf DEF PlanTypes, Ledger!Saved

\* The tail of the ledger, when it has one.
LEMMA NewestSaved ==
  ASSUME PlanTypes, op = "update", ~Ledger!NoTail
  PROVE  /\ Ledger!Max(Ledger!Saved) \in Ledger!Saved \cap Ledger!Listed
         /\ \A m \in Ledger!Saved : m <= Ledger!Max(Ledger!Saved)
<1>1. PICK m \in Ledger!Saved \cap Ledger!Listed : \A n \in Ledger!Saved : n <= m
  BY DEF Ledger!NoTail
<1>2. Ledger!Saved \subseteq Ledger!Months
  BY DEF Ledger!Saved
<1>3. \A n \in Ledger!Saved : n <= m /\ m >= n
  BY <1>1, <1>2, Ranges
<1>4. Ledger!Max(Ledger!Saved) \in Ledger!Saved /\ \A n \in Ledger!Saved : Ledger!Max(Ledger!Saved) >= n
  BY <1>1, <1>3 DEF Ledger!Max
<1>5. Ledger!Max(Ledger!Saved) = m
  <2> DEFINE x == Ledger!Max(Ledger!Saved)
  <2>1. x \in Ledger!Saved /\ m \in Ledger!Saved /\ x >= m /\ x <= m
    BY <1>1, <1>4
  <2>2. x \in Nat /\ m \in Nat
    BY <1>2, <2>1, Ranges
  <2> HIDE DEF x
  <2>3. x = m
    BY <2>1, <2>2
  <2> QED
    BY <2>3 DEF x
<1> QED
  BY <1>1, <1>2, <1>5, Ranges

USE DEF Ledger!Ends

\* Steps that leave files and plans alone: the plans hold as long as a database is
\* not taken away unnoticed.
LEMMA Elsewhere ==
  ASSUME LedgerInv, UNCHANGED <<clock, remote, file, op, Ledger!plan>>,
         step' \in {step, "off", "failure"} \/ (step = "create" /\ step' = "discover"),
         db' \in {NoDatabase, Blank, db} \/ (db' = Ledger!Empty /\ ~Ledger!Complete),
         taken => taken',
         Ledger!Complete /\ db' # db => taken' \/ step' \in {"off", "failure"}
  PROVE  PlanTypes' /\ Filed' /\ Ahead' /\ Answers'
<1>1. UNCHANGED <<clock, remote, file, op, current, discovered, due, tail, told, published, failed>>
  BY DEF Ledger!plan
<1>2. PlanTypes'
  BY <1>1 DEF LedgerInv, PlanTypes, Ledger!Saved
<1>3. Filed'
  <2>1. CASE db' = Ledger!Empty
    BY <1>1, <1>2, <2>1, Databases, Ranges DEF Filed, PlanTypes
  <2>2. CASE db' = db
    BY <1>1, <2>2 DEF LedgerInv, Filed, Ledger!Complete
  <2>3. CASE db' \in {NoDatabase, Blank}
    BY <2>3 DEF Filed, Ledger!Complete
  <2> QED
    BY <2>1, <2>2, <2>3
<1>4. Ahead'
  BY <1>1 DEF LedgerInv, Ahead
<1>5. Answers'
  <2>1. step' \in {"create", "discover"} => told' = Ledger!NoAnswers
    BY <1>1 DEF LedgerInv, Answers
  <2>2. ASSUME op' = "update", step' \in {"fetch", "import", "success"}
        PROVE  /\ tail' \in discovered'
               /\ step' # "fetch" => due' = {}
               /\ step' = "success" => published' = {} /\ ~failed'
               /\ \A m \in discovered' : m \in due' \/ failed' \/ told'[m] # NotAsked
               /\ \A m \in Ledger!Months : told'[m] # NotAsked =>
                    /\ file'[m] # NoFile /\ file'[m] >= told'[m]
                    /\ \/ m \in published' \/ failed' \/ taken'
                       \/ step' # "fetch" /\ Ledger!Complete' /\ db'[m] = file'[m]
    <3>1. step' = step /\ op = "update"
      BY <1>1, <2>2
    <3>2. (Ledger!Complete /\ ~taken') => db' = db /\ Ledger!Complete'
      BY <2>2, <3>1 DEF Ledger!Complete
    <3> QED
      BY <1>1, <2>2, <3>1, <3>2 DEF LedgerInv, Answers
  <2> QED
    BY <2>1, <2>2 DEF Answers
<1> QED
  BY <1>2, <1>3, <1>4, <1>5

\* What a command does with the database at its end, when it fails.
LEMMA CleansUp ==
  ASSUME LedgerInv, NEW how \in {"told", "interrupted"}, NEW n, Ledger!CleanUp(how, n),
         step \in {"discover", "fetch", "import"}, step' \in {"off", "failure"},
         UNCHANGED <<clock, remote, file, op, created, Ledger!plan>>
  PROVE  LedgerInv'
<1>1. \/ db' = NoDatabase /\ half' = FALSE /\ creation' = Ledger!Unlinked(creation)
         /\ early' \in {early, {}} /\ taken' = taken /\ left' = left
      \/ created /\ left' \in {"told", "interrupted"} /\ UNCHANGED <<db, half, creation, early, taken>>
      \/ ~created /\ UNCHANGED <<db, half, creation, early, taken, left>>
  BY DEF Ledger!CleanUp, Ledger!Removed, Ledger!base
<1>2. PlanTypes' /\ Filed' /\ Ahead' /\ Answers'
  BY <1>1, Elsewhere
<1>3. BaseTypes'
  <2>1. creation' \in [Ledger!Makers -> CallRecords] /\ created' = created
    BY <1>1, CallsAre DEF LedgerInv, BaseTypes
  <2>2. half' => Ledger!Complete'
    BY <1>1 DEF LedgerInv, BaseTypes, Ledger!Complete
  <2> QED
    BY <1>1, <2>1, <2>2 DEF LedgerInv, BaseTypes
<1>4. Halves'
  BY <1>1 DEF LedgerInv, Halves
<1>5. Owned'
  BY <1>1 DEF LedgerInv, Owned, Ledger!Complete
<1> QED
  BY <1>2, <1>3, <1>4, <1>5 DEF LedgerInv

LEMMA WorldStep ==
  ASSUME LedgerInv, Ledger!Tick \/ (\E m \in Ledger!Months : Ledger!Play(m))
  PROVE  LedgerInv'
<1>1. /\ clock' \in Ledger!Months /\ clock' >= clock /\ remote' \in [Ledger!Months -> Ledger!Editions]
      /\ UNCHANGED <<file, db, half, creation, early, taken, left, step, op, created,
                     current, discovered, due, tail, told, published, failed>>
  <2>1. CASE Ledger!Tick
    BY <2>1, Ranges DEF LedgerInv, PlanTypes, Ledger!Tick, Ledger!disk, Ledger!base, Ledger!command, Ledger!plan
  <2>2. ASSUME NEW m \in Ledger!Months, Ledger!Play(m) PROVE remote' \in [Ledger!Months -> Ledger!Editions]
    BY <2>2, Ranges DEF LedgerInv, PlanTypes, Ledger!Play
  <2>3. ASSUME NEW m \in Ledger!Months, Ledger!Play(m)
        PROVE  UNCHANGED <<clock, file, db, half, creation, early, taken, left, step, op, created,
                           current, discovered, due, tail, told, published, failed>>
    BY <2>3 DEF Ledger!Play, Ledger!disk, Ledger!base, Ledger!command, Ledger!plan
  <2>4. clock \in Ledger!Months /\ clock >= clock
    BY Ranges DEF LedgerInv, PlanTypes
  <2> QED
    BY <2>1, <2>2, <2>3, <2>4
<1>2. BaseTypes' /\ PlanTypes' /\ Halves' /\ Owned' /\ Filed'
  BY <1>1 DEF LedgerInv, BaseTypes, PlanTypes, Halves, Owned, Filed, Ledger!Complete, Ledger!Saved
<1>3. Ahead'
  BY <1>1, Ranges DEF LedgerInv, PlanTypes, Ahead
<1>4. Answers'
  BY <1>1 DEF LedgerInv, Answers, Ledger!Complete
<1> QED
  BY <1>2, <1>3, <1>4 DEF LedgerInv

LEMMA BeginStep ==
  ASSUME LedgerInv, Ledger!StartSetup \/ Ledger!StartUpdate
  PROVE  LedgerInv'
<1>1. /\ step = "off"
      /\ UNCHANGED <<clock, remote, file, db, half, creation, early, left, current, tail>>
      /\ created' = FALSE /\ taken' = FALSE /\ told' = Ledger!NoAnswers
      /\ discovered' = {} /\ due' = {} /\ published' = {} /\ failed' = FALSE
      /\ \/ op' = "setup" /\ step' = "create"
         \/ op' = "update" /\ step' = "discover"
  BY DEF Ledger!StartSetup, Ledger!StartUpdate, Ledger!Begin, Ledger!world
<1>2. Ledger!NoAnswers \in [Ledger!Months -> Ledger!Editions \cup {NotAsked}]
  BY DEF Ledger!NoAnswers
<1>3. BaseTypes' /\ PlanTypes'
  BY <1>1, <1>2 DEF LedgerInv, BaseTypes, PlanTypes, Ledger!Complete
<1>4. Halves' /\ Owned'
  BY <1>1 DEF LedgerInv, Halves, Owned, Ledger!Complete
<1>5. Filed' /\ Ahead' /\ Answers'
  BY <1>1 DEF LedgerInv, Filed, Ahead, Answers, Ledger!Complete
<1> QED
  BY <1>3, <1>4, <1>5 DEF LedgerInv

-----------------------------------------------------------------------------
(* The creation of the schema. *)

LEMMA TestStep ==
  ASSUME LedgerInv, NEW w \in Ledger!Makers, Ledger!Test(w)
  PROVE  LedgerInv'
<1>1. /\ creation' = [creation EXCEPT ![w] = [at |-> "tested", existed |-> db # NoDatabase]]
      /\ UNCHANGED <<clock, remote, file, db, half, early, taken, left, op, Ledger!plan, step>>
      /\ created' = created \/ (created' = FALSE /\ step = "create")
  BY DEF Ledger!Test, Ledger!Calls, Ledger!world
<1>2. PlanTypes' /\ Filed' /\ Ahead' /\ Answers'
  BY <1>1, Elsewhere
<1>3. BaseTypes'
  <2>1. ASSUME NEW e \in BOOLEAN PROVE [at |-> "tested", existed |-> e] \in CallRecords
    BY DEF CallRecords
  <2>2. (db # NoDatabase) \in BOOLEAN
    OBVIOUS
  <2>3. creation' \in [Ledger!Makers -> CallRecords]
    BY <1>1, <2>1, <2>2 DEF LedgerInv, BaseTypes
  <2> QED
    BY <1>1, <2>3 DEF LedgerInv, BaseTypes, Ledger!Complete
<1>4. Halves'
  BY <1>1 DEF LedgerInv, Halves
<1>5. Owned'
  <2>1. created' /\ step' \in {"discover", "fetch", "import"} => half' \/ taken'
    BY <1>1 DEF LedgerInv, Owned
  <2>2. ASSUME Ledger!Complete', NEW v \in Ledger!Makers,
               creation'[v] # Ledger!Off /\ (~creation'[v].existed \/ creation'[v].at # "tested")
        PROVE  v \in early'
    <3>1. CASE v = w
      <4>1. creation'[w] = [at |-> "tested", existed |-> db # NoDatabase]
        BY <1>1 DEF LedgerInv, BaseTypes
      <4>2. creation'[w].at = "tested" /\ creation'[w].existed = (db # NoDatabase)
        BY <4>1
      <4> QED
        BY <1>1, <2>2, <3>1, <4>2 DEF Ledger!Complete
    <3>2. CASE v # w
      <4>1. creation'[v] = creation[v]
        BY <1>1, <3>2 DEF LedgerInv, BaseTypes
      <4> QED
        BY <1>1, <2>2, <4>1 DEF LedgerInv, Owned, Ledger!Complete
    <3> QED
      BY <3>1, <3>2
  <2> QED
    BY <2>1, <2>2 DEF Owned
<1> QED
  BY <1>2, <1>3, <1>4, <1>5 DEF LedgerInv

LEMMA OpenStep ==
  ASSUME LedgerInv, NEW w \in Ledger!Makers, Ledger!Open(w)
  PROVE  LedgerInv'
<1>1. /\ UNCHANGED <<clock, remote, file, half, taken, left, op, Ledger!plan>>
      /\ \/ /\ Ledger!Complete /\ creation' = [creation EXCEPT ![w] = Ledger!Off]
            /\ early' = early \ {w} /\ db' = db
            /\ (step' = step /\ created' = created) \/ (step = "create" /\ step' = "failure" /\ created' = FALSE)
         \/ /\ ~Ledger!Complete /\ creation' = [creation EXCEPT ![w].at = "empty"]
            /\ db' = Blank /\ early' = early /\ step' = step
            /\ created' = created \/ (created' = FALSE /\ step = "create")
  BY DEF Ledger!Open, Ledger!Calls, Ledger!world
<1>2. PlanTypes' /\ Filed' /\ Ahead' /\ Answers'
  BY <1>1, Elsewhere
<1>3. BaseTypes'
  <2>1. creation[w] \in CallRecords /\ creation \in [Ledger!Makers -> CallRecords]
    BY DEF LedgerInv, BaseTypes
  <2>2. [creation[w] EXCEPT !.at = "empty"] \in CallRecords
    BY <2>1 DEF CallRecords
  <2>3. creation' \in [Ledger!Makers -> CallRecords]
    BY <1>1, <2>1, <2>2, CallsAre
  <2>4. half' => Ledger!Complete'
    BY <1>1 DEF LedgerInv, BaseTypes, Ledger!Complete
  <2> QED
    BY <1>1, <2>3, <2>4 DEF LedgerInv, BaseTypes
<1>4. Halves'
  BY <1>1 DEF LedgerInv, Halves
<1>5. Owned'
  BY <1>1 DEF LedgerInv, Owned, BaseTypes, Ledger!Complete
<1> QED
  BY <1>2, <1>3, <1>4, <1>5 DEF LedgerInv

LEMMA CompletedStep ==
  ASSUME LedgerInv, NEW w \in Ledger!Makers, Ledger!Completed(w),
         UNCHANGED <<clock, remote, file, op, taken, Ledger!plan>>, created' \in BOOLEAN,
         \/ w = "schema" /\ UNCHANGED <<step, created>> /\ left' \in {"no", left}
         \/ w = "setup" /\ step = "create" /\ step' = "discover" /\ created' /\ left' = "no"
         \/ w = "setup" /\ step' = "off" /\ left' \in {"killed", "interrupted"}
  PROVE  LedgerInv'
<1>1. /\ db = Blank /\ db' = Ledger!Empty /\ half' = (w = "setup")
      /\ creation' = [creation EXCEPT ![w] = Ledger!Off]
      /\ early' = {v \in Ledger!Makers : creation'[v] # Ledger!Off}
  BY DEF Ledger!Completed
<1>2. ~Ledger!Complete /\ Ledger!Complete'
  BY <1>1, Databases DEF Ledger!Complete
<1>3. PlanTypes' /\ Filed' /\ Ahead' /\ Answers'
  BY <1>1, <1>2, Elsewhere
<1>4. BaseTypes'
  BY <1>1, <1>2, CallsAre, Databases DEF LedgerInv, BaseTypes
<1>5. Halves'
  BY <1>1 DEF LedgerInv, Halves
<1>6. Owned'
  BY <1>1, <1>2 DEF LedgerInv, Owned, BaseTypes
<1> QED
  BY <1>3, <1>4, <1>5, <1>6 DEF LedgerInv

LEMMA CreateStep ==
  ASSUME LedgerInv, NEW w \in Ledger!Makers, Ledger!Create(w)
  PROVE  LedgerInv'
<1>1. /\ Ledger!Completed(w) /\ UNCHANGED <<clock, remote, file, op, taken, Ledger!plan>> /\ left' = "no"
      /\ IF w = "setup" THEN step = "create" /\ step' = "discover" /\ created' = TRUE
                        ELSE UNCHANGED <<step, created>>
  BY DEF Ledger!Create, Ledger!Calls, Ledger!world
<1>2. w = "setup" \/ w = "schema"
  BY CallsAre
<1>3. created \in BOOLEAN
  BY DEF LedgerInv, BaseTypes
<1> QED
  BY <1>1, <1>2, <1>3, CompletedStep

LEMMA CreateNowhereStep ==
  ASSUME LedgerInv, NEW w \in Ledger!Makers, Ledger!CreateNowhere(w)
  PROVE  LedgerInv'
<1>1. /\ creation' = [creation EXCEPT ![w] = Ledger!Off] /\ taken' = TRUE
      /\ UNCHANGED <<clock, remote, file, db, half, early, left, op, Ledger!plan>>
      /\ UNCHANGED <<step, created>> \/ (step = "create" /\ step' = "discover" /\ created' = TRUE)
  BY DEF Ledger!CreateNowhere, Ledger!Calls, Ledger!world
<1>2. PlanTypes' /\ Filed' /\ Ahead' /\ Answers'
  BY <1>1, Elsewhere
<1>3. BaseTypes'
  BY <1>1, CallsAre DEF LedgerInv, BaseTypes, Ledger!Complete
<1>4. Halves'
  BY <1>1 DEF LedgerInv, Halves
<1>5. Owned'
  BY <1>1 DEF LedgerInv, Owned, BaseTypes, Ledger!Complete
<1> QED
  BY <1>2, <1>3, <1>4, <1>5 DEF LedgerInv

\* A call that fails takes a complete database away only if it was under way when
\* that was completed, and that is noted.
LEMMA Undoes ==
  ASSUME LedgerInv, NEW w \in Ledger!Makers, creation[w] # Ledger!Off, Ledger!Undo(w)
  PROVE  /\ db' \in {NoDatabase, Blank, db}
         /\ creation'[w] = Ledger!Off /\ creation' \in [Ledger!Makers -> CallRecords]
         /\ db' # NoDatabase => creation' = [creation EXCEPT ![w] = Ledger!Off]
         /\ Ledger!Complete /\ db' # db => w \in early /\ half' = FALSE /\ taken' = TRUE /\ early' = {}
         /\ ~Ledger!Complete \/ db' = db => half' = half /\ taken' = taken /\ early' = early \ {w}
<1>1. /\ db' \in IF ~creation[w].existed THEN {NoDatabase, db}
                 ELSE IF creation[w].at = "tested" THEN {db}
                 ELSE {Blank}
      /\ creation' = IF db' = NoDatabase THEN Ledger!Unlinked([creation EXCEPT ![w] = Ledger!Off])
                                         ELSE [creation EXCEPT ![w] = Ledger!Off]
      /\ IF Ledger!Complete /\ db' # db
           THEN half' = FALSE /\ taken' = TRUE /\ early' = {}
           ELSE UNCHANGED <<half, taken>> /\ early' = early \ {w}
  BY DEF Ledger!Undo
<1>2. [creation EXCEPT ![w] = Ledger!Off] \in [Ledger!Makers -> CallRecords]
      /\ [creation EXCEPT ![w] = Ledger!Off][w] = Ledger!Off
  BY CallsAre DEF LedgerInv, BaseTypes
<1>3. creation' \in [Ledger!Makers -> CallRecords] /\ creation'[w] = Ledger!Off
  BY <1>1, <1>2, CallsAre
<1>4. Ledger!Complete /\ db' # db => w \in early
  BY <1>1 DEF LedgerInv, Owned
<1> QED
  BY <1>1, <1>3, <1>4

LEMMA UndoStep ==
  ASSUME LedgerInv, NEW w \in Ledger!Makers, creation[w] # Ledger!Off, Ledger!Undo(w),
         UNCHANGED <<clock, remote, file, op, left, Ledger!plan>>,
         \/ UNCHANGED <<step, created>>
         \/ step = "create" /\ step' \in {"off", "failure"} /\ created' \in BOOLEAN
  PROVE  LedgerInv'
<1>1. /\ db' \in {NoDatabase, Blank, db} /\ creation' \in [Ledger!Makers -> CallRecords]
      /\ db' # NoDatabase => creation' = [creation EXCEPT ![w] = Ledger!Off]
      /\ Ledger!Complete /\ db' # db => w \in early /\ half' = FALSE /\ taken' = TRUE /\ early' = {}
      /\ ~Ledger!Complete \/ db' = db => half' = half /\ taken' = taken /\ early' = early \ {w}
  BY Undoes
<1>2. PlanTypes' /\ Filed' /\ Ahead' /\ Answers'
  BY <1>1, Elsewhere DEF LedgerInv, BaseTypes
<1>3. BaseTypes'
  <2>1. half' \in BOOLEAN /\ taken' \in BOOLEAN /\ early' \subseteq Ledger!Makers /\ created' \in BOOLEAN
    BY <1>1 DEF LedgerInv, BaseTypes
  <2>2. half' => Ledger!Complete'
    BY <1>1 DEF LedgerInv, BaseTypes, Ledger!Complete
  <2>3. db' \in {NoDatabase, Blank} \cup [Ledger!Months -> Ledger!Editions]
    BY <1>1 DEF LedgerInv, BaseTypes
  <2> QED
    BY <1>1, <2>1, <2>2, <2>3 DEF LedgerInv, BaseTypes
<1>4. Halves'
  BY <1>1 DEF LedgerInv, Halves, BaseTypes
<1>5. Owned'
  BY <1>1, Databases DEF LedgerInv, Owned, BaseTypes, Ledger!Complete
<1> QED
  BY <1>2, <1>3, <1>4, <1>5 DEF LedgerInv

LEMMA CreateFailsStep ==
  ASSUME LedgerInv, NEW w \in Ledger!Makers, Ledger!CreateFails(w)
  PROVE  LedgerInv'
<1>1. /\ creation[w] # Ledger!Off /\ Ledger!Undo(w) /\ UNCHANGED <<clock, remote, file, op, left, Ledger!plan>>
      /\ \/ UNCHANGED <<step, created>>
         \/ step = "create" /\ step' = "failure" /\ created' = FALSE
  BY CallsAre DEF Ledger!CreateFails, Ledger!Calls, Ledger!world
<1> QED
  BY <1>1, UndoStep

LEMMA SchemaDiesStep ==
  ASSUME LedgerInv, Ledger!SchemaDies
  PROVE  LedgerInv'
<1>1. /\ creation' = [creation EXCEPT !["schema"] = Ledger!Off] /\ early' = early \ {"schema"}
      /\ UNCHANGED <<clock, remote, file, db, half, taken, left, op, created, step, Ledger!plan>>
  BY DEF Ledger!SchemaDies, Ledger!world, Ledger!command
<1>2. PlanTypes' /\ Filed' /\ Ahead' /\ Answers'
  BY <1>1, Elsewhere
<1>3. BaseTypes'
  BY <1>1, CallsAre DEF LedgerInv, BaseTypes, Ledger!Complete
<1>4. Halves' /\ Owned'
  BY <1>1, CallsAre DEF LedgerInv, Halves, Owned, BaseTypes, Ledger!Complete
<1> QED
  BY <1>2, <1>3, <1>4 DEF LedgerInv

LEMMA InterruptCreateStep ==
  ASSUME LedgerInv, Ledger!InterruptCreate \/ Ledger!SidecarsStay
  PROVE  LedgerInv'
<1>1. /\ UNCHANGED <<clock, remote, file, op, created, Ledger!plan>>
      /\ step = "create" /\ step' \in {"off", "failure"}
      /\ \/ UNCHANGED <<db, half, creation, early, taken, left>>
         \/ creation["setup"] # Ledger!Off /\ Ledger!Undo("setup") /\ left' = left
         \/ Ledger!Completed("setup") /\ left' = "interrupted" /\ taken' = taken /\ step' = "off"
  BY DEF Ledger!InterruptCreate, Ledger!SidecarsStay, Ledger!world, Ledger!disk, Ledger!base
<1>2. created \in BOOLEAN /\ "setup" \in Ledger!Makers
  BY CallsAre DEF LedgerInv, BaseTypes
<1>3. CASE UNCHANGED <<db, half, creation, early, taken, left>>
  <2>1. PlanTypes' /\ Filed' /\ Ahead' /\ Answers'
    BY <1>1, <1>3, Elsewhere
  <2>2. BaseTypes' /\ Halves' /\ Owned'
    BY <1>1, <1>3 DEF LedgerInv, BaseTypes, Halves, Owned, Ledger!Complete
  <2> QED
    BY <2>1, <2>2 DEF LedgerInv
<1>4. CASE creation["setup"] # Ledger!Off /\ Ledger!Undo("setup") /\ left' = left
  BY <1>1, <1>2, <1>4, UndoStep
<1>5. CASE Ledger!Completed("setup") /\ left' = "interrupted" /\ taken' = taken /\ step' = "off"
  BY <1>1, <1>2, <1>5, CompletedStep
<1> QED
  BY <1>1, <1>3, <1>4, <1>5

LEMMA CrashLedgerStep ==
  ASSUME LedgerInv, Ledger!Crash
  PROVE  LedgerInv'
<1>1. /\ UNCHANGED <<clock, remote, file, op, created, taken, Ledger!plan>> /\ step' = "off"
      /\ \/ /\ creation' = [creation EXCEPT !["setup"] = Ledger!Off] /\ early' = early \ {"setup"}
            /\ left' = (IF op = "setup" THEN "killed" ELSE left) /\ UNCHANGED <<db, half>>
         \/ Ledger!Completed("setup") /\ left' = "killed"
  BY DEF Ledger!Crash, Ledger!world
<1>2. created \in BOOLEAN /\ "setup" \in Ledger!Makers
  BY CallsAre DEF LedgerInv, BaseTypes
<1>3. CASE /\ creation' = [creation EXCEPT !["setup"] = Ledger!Off] /\ early' = early \ {"setup"}
           /\ left' = (IF op = "setup" THEN "killed" ELSE left) /\ UNCHANGED <<db, half>>
  <2>1. PlanTypes' /\ Filed' /\ Ahead' /\ Answers'
    BY <1>1, <1>3, Elsewhere
  <2>2. BaseTypes'
    BY <1>1, <1>3, CallsAre DEF LedgerInv, BaseTypes, Ledger!Complete
  <2>3. Halves' /\ Owned'
    BY <1>1, <1>3, CallsAre DEF LedgerInv, Halves, Owned, BaseTypes, Ledger!Complete
  <2> QED
    BY <2>1, <2>2, <2>3 DEF LedgerInv
<1>4. CASE Ledger!Completed("setup") /\ left' = "killed"
  BY <1>1, <1>2, <1>4, CompletedStep
<1> QED
  BY <1>1, <1>3, <1>4

-----------------------------------------------------------------------------
(* The steps of a command. *)

\* Where the database is left alone its part of the invariant stays.
LEMMA BaseStays ==
  ASSUME LedgerInv, UNCHANGED <<db, half, creation, early, taken, left, op, created>>,
         step \in {"discover", "fetch", "import"}, step' \in {"discover", "fetch", "import"}
  PROVE  BaseTypes' /\ Halves' /\ Owned'
BY DEF LedgerInv, BaseTypes, Halves, Owned, Ledger!Complete

LEMMA DiscoverStep ==
  ASSUME LedgerInv, Ledger!DiscoverFails \/ Ledger!Discover
  PROVE  LedgerInv'
<1>1. CASE Ledger!DiscoverFails
  BY <1>1, CleansUp DEF Ledger!DiscoverFails, Ledger!world
<1>2. CASE Ledger!Discover
  <2>1. /\ step = "discover" /\ step' = "fetch" /\ current' = clock /\ ~Ledger!NoTail
        /\ tail' = (IF op = "update" THEN Ledger!Max(Ledger!Saved) ELSE 0)
        /\ due' = {m \in Ledger!Listed : m >= tail' /\ m <= clock} /\ discovered' = due'
        /\ UNCHANGED <<clock, remote, file, db, half, creation, early, taken, left, op, created, told, published, failed>>
    BY <1>2 DEF Ledger!Discover, Ledger!world, Ledger!disk, Ledger!base
  <2>2. PlanTypes /\ Ahead /\ Answers
    BY DEF LedgerInv
  <2>3. Ledger!Listed \subseteq Ledger!Months /\ Ledger!Saved \subseteq Ledger!Months
    BY DEF Ledger!Listed, Ledger!Saved
  <2>4. op = "update" => /\ tail' \in Ledger!Listed /\ tail' \in Ledger!Saved
                         /\ \A m \in Ledger!Saved : m <= tail'
    BY <2>1, <2>2, NewestSaved
  <2>5. tail' \in 0 .. LastMonth
    <3>1. CASE op = "update"
      <4>1. tail' \in Ledger!Months
        BY <2>3, <2>4, <3>1
      <4> QED
        BY <4>1, Ranges
    <3>2. CASE op # "update"
      BY <2>1, <3>2
    <3> QED
      BY <3>1, <3>2
  <2>6. PlanTypes'
    BY <2>1, <2>2, <2>3, <2>5 DEF PlanTypes, Ledger!Saved
  <2>7. BaseTypes' /\ Halves' /\ Owned'
    BY <2>1, BaseStays
  <2>8. Filed'
    BY <2>1 DEF LedgerInv, Filed, Ledger!Complete
  <2>9. Ahead'
    <3>1. \A m \in due' : m \in Ledger!Months /\ m <= clock /\ m >= tail'
      BY <2>1, <2>3
    <3>2. op = "update" => \A m \in due' : m > tail' => file[m] = NoFile
      BY <2>4, <2>5, <3>1, Ranges DEF Ledger!Saved
    <3> QED
      BY <2>1, <2>2, <3>1, <3>2 DEF Ahead
  <2>10. Answers'
    <3>1. \A m \in Ledger!Months : told[m] = NotAsked
      BY <2>1, <2>2 DEF Answers, Ledger!NoAnswers
    <3>2. op = "update" => tail' \in discovered'
      <4>1. op = "update" => tail' <= clock
        BY <2>2, <2>3, <2>4 DEF Ahead, Ledger!Saved
      <4> QED
        BY <2>1, <2>3, <2>4, <4>1, Ranges
    <3> QED
      BY <2>1, <3>1, <3>2 DEF Answers
  <2> QED
    BY <2>6, <2>7, <2>8, <2>9, <2>10 DEF LedgerInv
<1> QED
  BY <1>1, <1>2

\* A month is passed over, or an attempt at it fails.
LEMMA PassedStep ==
  ASSUME LedgerInv, Ledger!SkipMonth \/ Ledger!FetchFails
  PROVE  LedgerInv'
<1>1. /\ step = "fetch" /\ due' \subseteq due
      /\ UNCHANGED <<clock, remote, file, db, half, creation, early, taken, left, step, op, created,
                     current, discovered, tail, told, published>>
      /\ failed' = TRUE \/ (op = "setup" /\ failed' = failed)
  BY DEF Ledger!SkipMonth, Ledger!FetchFails, Ledger!Skips, Ledger!world, Ledger!disk, Ledger!base
<1>2. PlanTypes'
  BY <1>1 DEF LedgerInv, PlanTypes, Ledger!Saved
<1>3. BaseTypes' /\ Halves' /\ Owned'
  BY <1>1, BaseStays
<1>4. Filed' /\ Ahead'
  BY <1>1 DEF LedgerInv, Filed, Ahead, Ledger!Complete
<1>5. Answers'
  BY <1>1 DEF LedgerInv, Answers, Ledger!Complete
<1> QED
  BY <1>2, <1>3, <1>4, <1>5 DEF LedgerInv

\* Merging never goes back on what is saved, and an update that saves a month saves
\* what it was told.
LEMMA MergeKeeps ==
  ASSUME LedgerInv, step = "fetch", NEW m \in due, ~Ledger!Skips(m), NEW latest \in Ledger!Editions
  PROVE  /\ Ledger!Merged(m, latest) \in Ledger!Editions
         /\ file[m] # NoFile => Ledger!Merged(m, latest) >= file[m]
         /\ op = "update" => Ledger!Merged(m, latest) >= latest
<1>1. m \in Ledger!Months /\ file[m] \in Ledger!Editions \cup {NoFile} /\ tail \in 0 .. LastMonth
  BY DEF LedgerInv, PlanTypes
<1>2. op \in {"setup", "update"}
  BY DEF LedgerInv, PlanTypes
<1>3. file[m] # NoFile => Ledger!Merges(m)
  <2>1. CASE op = "setup"
    BY <2>1 DEF Ledger!Merges, Ledger!Skips
  <2>2. CASE op = "update"
    BY <1>1, <2>2, Ranges DEF Ledger!Merges, LedgerInv, Ahead
  <2> QED
    BY <1>2, <2>1, <2>2
<1> QED
  BY <1>1, <1>3, Ranges DEF Ledger!Merged, Ledger!Merges

LEMMA FetchStep ==
  ASSUME LedgerInv, Ledger!FetchMonth
  PROVE  LedgerInv'
<1> DEFINE m == Ledger!Min(due)
<1>1. PICK latest \in 0 .. remote[m] :
        /\ told' = [told EXCEPT ![m] = latest]
        /\ file' = [file EXCEPT ![m] = Ledger!Merged(m, latest)]
        /\ published' = published \cup {m}
        /\ due' = due \ {m}
  BY DEF Ledger!FetchMonth
<1>2. /\ step = "fetch" /\ due # {} /\ ~Ledger!Skips(m)
      /\ UNCHANGED <<clock, remote, db, half, creation, early, taken, left, step, op, created,
                     current, discovered, tail, failed>>
  BY DEF Ledger!FetchMonth, Ledger!world, Ledger!base
<1>3. m \in due /\ m \in Ledger!Months
  BY <1>2, NextDue DEF LedgerInv
<1>4. latest \in Ledger!Editions
  <2>1. remote[m] \in Ledger!Editions
    BY <1>3 DEF LedgerInv, PlanTypes
  <2> QED
    BY <2>1, Ranges
<1> DEFINE new == Ledger!Merged(m, latest)
<1>5. /\ new \in Ledger!Editions /\ new # NoFile /\ (file[m] # NoFile => new >= file[m])
      /\ op = "update" => new >= latest
  BY <1>2, <1>3, <1>4, MergeKeeps, Ranges
<1> HIDE DEF m, new
<1>6. PlanTypes
  BY DEF LedgerInv
<1>7. \A n \in Ledger!Months : /\ file'[n] = IF n = m THEN new ELSE file[n]
                               /\ told'[n] = IF n = m THEN latest ELSE told[n]
  BY <1>1, <1>6 DEF PlanTypes, new
<1>8. PlanTypes'
  <2>1. file' \in [Ledger!Months -> Ledger!Editions \cup {NoFile}] /\ told' \in [Ledger!Months -> Ledger!Editions \cup {NotAsked}]
    BY <1>1, <1>4, <1>5, <1>6 DEF PlanTypes, new
  <2>2. published' \subseteq Ledger!Saved'
    BY <1>1, <1>3, <1>5, <1>6, <1>7 DEF PlanTypes, Ledger!Saved
  <2> QED
    BY <1>1, <1>2, <1>6, <2>1, <2>2 DEF PlanTypes
<1>9. BaseTypes' /\ Halves' /\ Owned'
  BY <1>2, BaseStays
<1>10. Filed'
  <2> SUFFICES ASSUME Ledger!Complete, NEW n \in Ledger!Months
               PROVE  (db[n] > 0 => file'[n] # NoFile) /\ (file'[n] # NoFile => db[n] <= file'[n])
    BY <1>2 DEF Filed, Ledger!Complete
  <2>1. /\ db[n] > 0 => file[n] # NoFile
        /\ file[n] # NoFile => db[n] <= file[n]
    BY DEF LedgerInv, Filed
  <2>2. db[n] \in Ledger!Editions /\ file[n] \in Ledger!Editions \cup {NoFile}
    BY <1>6 DEF LedgerInv, BaseTypes, PlanTypes, Ledger!Complete
  <2> QED
    BY <1>5, <1>7, <2>1, <2>2, Ranges
<1>11. Ahead'
  BY <1>1, <1>2, <1>7, <1>3, <1>6 DEF LedgerInv, Ahead, PlanTypes
<1>12. Answers'
  <2> SUFFICES ASSUME op = "update"
               PROVE  /\ tail \in discovered
                      /\ \A n \in discovered : n \in due' \/ failed \/ told'[n] # NotAsked
                      /\ \A n \in Ledger!Months : told'[n] # NotAsked =>
                           /\ file'[n] # NoFile /\ file'[n] >= told'[n]
                           /\ n \in published' \/ failed \/ taken
    BY <1>2 DEF Answers
  <2>1. /\ tail \in discovered
        /\ \A n \in discovered : n \in due \/ failed \/ told[n] # NotAsked
        /\ \A n \in Ledger!Months : told[n] # NotAsked =>
             file[n] # NoFile /\ file[n] >= told[n] /\ (n \in published \/ failed \/ taken)
    BY <1>2 DEF LedgerInv, Answers
  <2>2. latest # NotAsked /\ discovered \subseteq Ledger!Months
    BY <1>4, <1>6, Ranges DEF PlanTypes
  <2> QED
    BY <1>1, <1>5, <1>7, <2>1, <2>2
<1> QED
  BY <1>8, <1>9, <1>10, <1>11, <1>12 DEF LedgerInv

LEMMA FetchedStep ==
  ASSUME LedgerInv, Ledger!Fetched
  PROVE  LedgerInv'
<1>1. /\ step = "fetch" /\ due = {}
      /\ UNCHANGED <<clock, remote, file, op, created, Ledger!plan>>
      /\ \/ step' = "failure" /\ Ledger!CleanUp("told", 0)
         \/ step' = "import" /\ UNCHANGED <<db, half, creation, early, taken, left>>
  BY DEF Ledger!Fetched, Ledger!world, Ledger!base
<1>2. CASE step' = "failure" /\ Ledger!CleanUp("told", 0)
  BY <1>1, <1>2, CleansUp
<1>3. CASE step' = "import" /\ UNCHANGED <<db, half, creation, early, taken, left>>
  <2>1. BaseTypes' /\ Halves' /\ Owned'
    BY <1>1, <1>3, BaseStays
  <2>2. PlanTypes' /\ Filed' /\ Ahead'
    BY <1>1, <1>3 DEF LedgerInv, PlanTypes, Filed, Ahead, Ledger!Saved, Ledger!Complete, Ledger!plan
  <2>3. Answers'
    BY <1>1, <1>3 DEF LedgerInv, Answers, Ledger!Complete, Ledger!plan
  <2> QED
    BY <2>1, <2>2, <2>3 DEF LedgerInv
<1> QED
  BY <1>1, <1>2, <1>3

\* The import of a month, be it whole or in part.
LEMMA Imports ==
  ASSUME LedgerInv, Ledger!ImportMonth \/ Ledger!ImportFails
  PROVE  \E v \in Ledger!Editions :
           LET m == Ledger!Min(published)
           IN  /\ m \in Ledger!Months /\ m \in published /\ file[m] \in Ledger!Editions /\ file[m] # NoFile
               /\ v <= file[m] /\ v >= db[m]
               /\ (v = file[m] /\ failed' = failed) \/ failed' = TRUE
               /\ db' = [db EXCEPT ![m] = v]
               /\ db' \in [Ledger!Months -> Ledger!Editions]
               /\ \A n \in Ledger!Months : db'[n] = IF n = m THEN v ELSE db[n]
<1> DEFINE m == Ledger!Min(published)
<1>1. published # {} /\ Ledger!Complete
  BY DEF Ledger!ImportMonth, Ledger!ImportFails
<1>2. m \in Ledger!Months /\ m \in Ledger!Saved /\ m \in published
  BY <1>1, NextPublished DEF LedgerInv
<1>3. BaseTypes /\ PlanTypes /\ Filed
  BY DEF LedgerInv
<1>4. /\ file[m] \in Ledger!Editions /\ db[m] \in Ledger!Editions /\ db[m] <= file[m] /\ file[m] # NoFile
      /\ db \in [Ledger!Months -> Ledger!Editions]
  BY <1>1, <1>2, <1>3 DEF BaseTypes, PlanTypes, Filed, Ledger!Saved, Ledger!Complete
<1>5. PICK v \in 0 .. file[m] :
        /\ v >= db[m] /\ db' = [db EXCEPT ![m] = v]
        /\ (v = file[m] /\ failed' = failed) \/ failed' = TRUE
  <2>1. CASE Ledger!ImportMonth
    <3>1. file[m] \in 0 .. file[m] /\ file[m] >= db[m]
      BY <1>4, Ranges
    <3> QED
      BY <2>1, <3>1 DEF Ledger!ImportMonth
  <2>2. CASE Ledger!ImportFails
    BY <2>2 DEF Ledger!ImportFails
  <2> QED
    BY <2>1, <2>2
<1> HIDE DEF m
<1>6. v \in Ledger!Editions /\ v <= file[m]
  BY <1>4, <1>5, Ranges
<1>7. /\ db' \in [Ledger!Months -> Ledger!Editions]
      /\ \A n \in Ledger!Months : db'[n] = IF n = m THEN v ELSE db[n]
  BY <1>2, <1>4, <1>5, <1>6
<1> QED
  BY <1>2, <1>4, <1>5, <1>6, <1>7 DEF m

LEMMA ImportStep ==
  ASSUME LedgerInv, Ledger!ImportMonth \/ Ledger!ImportFails
  PROVE  LedgerInv'
<1> DEFINE m == Ledger!Min(published)
<1>1. /\ step = "import" /\ op = "update" /\ Ledger!Complete
      /\ UNCHANGED <<clock, remote, file, half, creation, early, taken, left, step, op, created,
                     current, discovered, due, tail, told>>
      /\ published' = published \ {m}
  BY DEF Ledger!ImportMonth, Ledger!ImportFails, Ledger!world
<1>2. PICK v \in Ledger!Editions :
        /\ m \in Ledger!Months /\ m \in published /\ file[m] \in Ledger!Editions /\ file[m] # NoFile
        /\ v <= file[m] /\ v >= db[m]
        /\ (v = file[m] /\ failed' = failed) \/ failed' = TRUE
        /\ db' \in [Ledger!Months -> Ledger!Editions]
        /\ \A n \in Ledger!Months : db'[n] = IF n = m THEN v ELSE db[n]
  BY Imports
<1> HIDE DEF m
<1>3. Ledger!Complete'
  BY <1>2, Databases DEF Ledger!Complete
<1>4. BaseTypes'
  BY <1>1, <1>2, <1>3 DEF LedgerInv, BaseTypes
<1>5. PlanTypes'
  BY <1>1, <1>2 DEF LedgerInv, PlanTypes, Ledger!Saved
<1>6. Halves' /\ Owned' /\ Ahead'
  BY <1>1, <1>3 DEF LedgerInv, Halves, Owned, Ahead
<1>7. Filed'
  BY <1>1, <1>2 DEF LedgerInv, Filed
<1>8. Answers'
  BY <1>1, <1>2, <1>3 DEF LedgerInv, Answers
<1> QED
  BY <1>4, <1>5, <1>6, <1>7, <1>8 DEF LedgerInv

LEMMA LedgerEndsStep ==
  ASSUME LedgerInv, Ledger!UpdateEnds \/ Ledger!SetupEnds \/ Ledger!End
  PROVE  LedgerInv'
<1>1. CASE Ledger!UpdateEnds
  <2>1. /\ step = "import" /\ op = "update"
        /\ step' = "failure" \/ (step' = "success" /\ ~failed /\ published = {})
        /\ UNCHANGED <<clock, remote, file, db, half, creation, early, taken, left, op, created,
                       current, discovered, due, tail, told, published, failed>>
    BY <1>1 DEF Ledger!UpdateEnds, Ledger!world, Ledger!disk, Ledger!base, Ledger!plan
  <2>2. BaseTypes' /\ PlanTypes' /\ Halves' /\ Owned'
    BY <2>1 DEF LedgerInv, BaseTypes, PlanTypes, Halves, Owned, Ledger!Complete, Ledger!Saved
  <2>3. Filed' /\ Ahead'
    BY <2>1 DEF LedgerInv, Filed, Ahead, Ledger!Complete
  <2>4. Answers'
    BY <2>1 DEF LedgerInv, Answers, Ledger!Complete
  <2> QED
    BY <2>2, <2>3, <2>4 DEF LedgerInv
<1>2. CASE Ledger!SetupEnds
  <2>1. /\ step = "import" /\ op = "setup"
        /\ UNCHANGED <<clock, remote, file, op, created, Ledger!plan>>
        /\ \/ step' = "failure" /\ \E n \in {0, 1} : Ledger!CleanUp("told", n)
           \/ step' = "success" /\ half' = FALSE /\ UNCHANGED <<db, creation, early, taken, left>>
    BY <1>2 DEF Ledger!SetupEnds, Ledger!world
  <2>2. CASE step' = "failure" /\ \E n \in {0, 1} : Ledger!CleanUp("told", n)
    BY <2>1, <2>2, CleansUp
  <2>3. CASE step' = "success" /\ half' = FALSE /\ UNCHANGED <<db, creation, early, taken, left>>
    <3>1. BaseTypes' /\ Halves' /\ Owned'
      BY <2>1, <2>3 DEF LedgerInv, BaseTypes, Halves, Owned, Ledger!Complete
    <3>2. PlanTypes' /\ Filed' /\ Ahead' /\ Answers'
      BY <2>1, <2>3 DEF LedgerInv, PlanTypes, Filed, Ahead, Answers, Ledger!Complete, Ledger!Saved, Ledger!plan
    <3> QED
      BY <3>1, <3>2 DEF LedgerInv
  <2> QED
    BY <2>1, <2>2, <2>3
<1>3. CASE Ledger!End
  <2>1. /\ step \in {"success", "failure"} /\ step' = "off"
        /\ UNCHANGED <<clock, remote, file, db, half, creation, early, taken, left, op, created, Ledger!plan>>
    BY <1>3 DEF Ledger!End, Ledger!world, Ledger!disk, Ledger!base
  <2>2. PlanTypes' /\ Filed' /\ Ahead' /\ Answers'
    BY <2>1, Elsewhere
  <2>3. BaseTypes' /\ Halves' /\ Owned'
    BY <2>1 DEF LedgerInv, BaseTypes, Halves, Owned, Ledger!Complete
  <2> QED
    BY <2>2, <2>3 DEF LedgerInv
<1> QED
  BY <1>1, <1>2, <1>3

LEMMA InterruptStep ==
  ASSUME LedgerInv, Ledger!Interrupt
  PROVE  LedgerInv'
<1>1. /\ step \in {"discover", "fetch", "import"} /\ step' = "off" /\ Ledger!CleanUp("interrupted", 1)
      /\ UNCHANGED <<clock, remote, file, op, created, Ledger!plan>>
  BY DEF Ledger!Interrupt, Ledger!world, LedgerInv, PlanTypes
<1> QED
  BY <1>1, CleansUp

LEMMA LedgerStep ==
  ASSUME LedgerInv, [Ledger!Next]_(Ledger!vars)
  PROVE  LedgerInv'
<1>1. CASE UNCHANGED Ledger!vars
  BY <1>1 DEF Ledger!vars, Ledger!world, Ledger!disk, Ledger!base, Ledger!command, Ledger!plan, LedgerInv, BaseTypes, PlanTypes,
     Halves, Owned, Filed, Ahead, Answers, Ledger!Saved, Ledger!Complete
<1>2. ASSUME NEW w \in Ledger!Makers, Ledger!Creates(w) PROVE LedgerInv'
  BY <1>2, TestStep, OpenStep, CreateStep, CreateNowhereStep, CreateFailsStep DEF Ledger!Creates
<1>3. CASE Ledger!Next
  BY <1>2, <1>3, CallsAre, WorldStep, BeginStep, SchemaDiesStep, InterruptCreateStep, CrashLedgerStep, DiscoverStep, PassedStep,
     FetchStep, FetchedStep, ImportStep, LedgerEndsStep, InterruptStep DEF Ledger!Next, Ledger!Work
<1> QED
  BY <1>1, <1>3

\* The invariant holds of set-up, updates and schema creation, wherever they die.
THEOREM LedgerInvariance == Ledger!Spec => []LedgerInv
BY LedgerInitHolds, LedgerStep, PTL DEF Ledger!Spec

LEMMA Sound == LedgerInv => Ledger!TypeOK /\ Ledger!HalfIsExplained /\ Ledger!SuccessCoversTail
<1> SUFFICES ASSUME LedgerInv PROVE Ledger!TypeOK /\ Ledger!HalfIsExplained /\ Ledger!SuccessCoversTail
  OBVIOUS
<1>1. Ledger!TypeOK
  BY DEF LedgerInv, BaseTypes, PlanTypes, Ledger!TypeOK, CallRecords
<1>2. Ledger!HalfIsExplained
  BY DEF LedgerInv, Halves, Ledger!HalfIsExplained
<1>3. Ledger!SuccessCoversTail
  <2> SUFFICES ASSUME step = "success", op = "update"
               PROVE  /\ \A m \in discovered : told[m] # NotAsked /\ file[m] >= told[m]
                      /\ ~taken => Ledger!Complete /\ \A m \in discovered : db[m] = file[m]
    BY DEF Ledger!SuccessCoversTail
  <2>1. discovered \subseteq Ledger!Months /\ tail \in discovered /\ due = {} /\ published = {} /\ ~failed
    BY DEF LedgerInv, PlanTypes, Answers
  <2>2. \A m \in discovered : told[m] # NotAsked
    BY <2>1 DEF LedgerInv, Answers
  <2> QED
    BY <2>1, <2>2 DEF LedgerInv, Answers
<1> QED
  BY <1>1, <1>2, <1>3

\* What becomes of files and of a complete database in one step.
LEMMA Kinds ==
  ASSUME LedgerInv, Ledger!Next
  PROVE  \/ Ledger!FetchMonth \/ Ledger!ImportMonth \/ Ledger!ImportFails
         \/ file' = file /\ (db' = db \/ ~Ledger!Complete)
         \/ /\ file' = file /\ db' = NoDatabase
            /\ created /\ step \in {"discover", "fetch", "import"} /\ step' \in {"off", "failure"}
         \/ file' = file /\ \E w \in Ledger!Makers : creation[w] # Ledger!Off /\ Ledger!Undo(w)
<1>1. CASE Ledger!Tick \/ (\E n \in Ledger!Months : Ledger!Play(n)) \/ Ledger!StartSetup \/ Ledger!StartUpdate
  BY <1>1 DEF Ledger!Tick, Ledger!Play, Ledger!StartSetup, Ledger!StartUpdate, Ledger!Begin, Ledger!disk, Ledger!base
<1>2. ASSUME NEW w \in Ledger!Makers, Ledger!Test(w) \/ Ledger!Open(w) \/ Ledger!Create(w) \/ Ledger!CreateNowhere(w)
      PROVE  file' = file /\ (db' = db \/ ~Ledger!Complete)
  BY <1>2 DEF Ledger!Test, Ledger!Open, Ledger!Create, Ledger!Completed, Ledger!CreateNowhere, Ledger!Complete
<1>3. ASSUME NEW w \in Ledger!Makers, Ledger!CreateFails(w)
      PROVE  file' = file /\ creation[w] # Ledger!Off /\ Ledger!Undo(w)
  BY <1>3, CallsAre DEF Ledger!CreateFails
<1>4. CASE Ledger!SchemaDies \/ Ledger!SidecarsStay \/ Ledger!Crash \/ Ledger!InterruptCreate
  <2>1. "setup" \in Ledger!Makers
    BY CallsAre
  <2> QED
    BY <1>4, <2>1 DEF Ledger!SchemaDies, Ledger!SidecarsStay, Ledger!Crash, Ledger!InterruptCreate, Ledger!Completed,
       Ledger!Complete, Ledger!disk, Ledger!base
<1>5. CASE Ledger!DiscoverFails \/ Ledger!Fetched \/ Ledger!SetupEnds \/ Ledger!Interrupt
  <2>1. /\ file' = file /\ step \in {"discover", "fetch", "import"}
        /\ db' = db \/ (step' \in {"off", "failure"} /\ \E how, n : Ledger!CleanUp(how, n))
    BY <1>5 DEF Ledger!DiscoverFails, Ledger!Fetched, Ledger!SetupEnds, Ledger!Interrupt, Ledger!base, LedgerInv, PlanTypes
  <2> QED
    BY <2>1 DEF Ledger!CleanUp, Ledger!Removed, Ledger!base
<1>6. CASE Ledger!Discover \/ Ledger!SkipMonth \/ Ledger!FetchFails \/ Ledger!UpdateEnds \/ Ledger!End
  BY <1>6 DEF Ledger!Discover, Ledger!SkipMonth, Ledger!FetchFails, Ledger!UpdateEnds, Ledger!End, Ledger!disk, Ledger!base
<1> QED
  BY <1>1, <1>2, <1>3, <1>4, <1>5, <1>6, CallsAre DEF Ledger!Next, Ledger!Work, Ledger!Creates

LEMMA NothingSavedIsLost ==
  ASSUME LedgerInv, [Ledger!Next]_(Ledger!vars)
  PROVE  [\A m \in Ledger!Saved :
            file'[m] # NoFile /\ file'[m] >= file[m]
            /\ (Ledger!Complete /\ Ledger!Complete' => db'[m] >= db[m])]_(Ledger!vars)
<1> SUFFICES ASSUME Ledger!Next, NEW m \in Ledger!Saved
             PROVE  /\ file'[m] # NoFile /\ file'[m] >= file[m]
                    /\ Ledger!Complete /\ Ledger!Complete' => db'[m] >= db[m]
  OBVIOUS
<1>1. m \in Ledger!Months /\ file[m] \in Ledger!Editions /\ file[m] # NoFile
      /\ (Ledger!Complete => db[m] \in Ledger!Editions /\ db[m] <= file[m])
  BY DEF LedgerInv, BaseTypes, PlanTypes, Filed, Ledger!Saved, Ledger!Complete
<1>2. \/ file' = file /\ (db' = db \/ ~Ledger!Complete' \/ ~Ledger!Complete)
      \/ Ledger!FetchMonth \/ Ledger!ImportMonth \/ Ledger!ImportFails
  <2>1. ASSUME NEW w \in Ledger!Makers, creation[w] # Ledger!Off, Ledger!Undo(w) PROVE db' = db \/ ~Ledger!Complete'
    BY <2>1, Undoes DEF Ledger!Complete
  <2> QED
    BY <2>1, Kinds DEF Ledger!Complete
<1>3. CASE file' = file /\ (db' = db \/ ~Ledger!Complete' \/ ~Ledger!Complete)
  BY <1>1, <1>3, Ranges
<1>4. CASE Ledger!FetchMonth
  <2> DEFINE n == Ledger!Min(due)
  <2>1. PICK latest \in 0 .. remote[n] : file' = [file EXCEPT ![n] = Ledger!Merged(n, latest)]
    BY <1>4 DEF Ledger!FetchMonth
  <2>2. step = "fetch" /\ n \in due /\ n \in Ledger!Months /\ ~Ledger!Skips(n) /\ db' = db
    BY <1>4, NextDue DEF Ledger!FetchMonth, Ledger!base, LedgerInv
  <2>3. latest \in Ledger!Editions
    <3>1. remote[n] \in Ledger!Editions
      BY <2>2 DEF LedgerInv, PlanTypes
    <3> QED
      BY <3>1, Ranges
  <2>4. Ledger!Merged(n, latest) \in Ledger!Editions /\ (file[n] # NoFile => Ledger!Merged(n, latest) >= file[n])
    BY <2>2, <2>3, MergeKeeps
  <2> DEFINE new == Ledger!Merged(n, latest)
  <2>5. file'[m] = IF m = n THEN new ELSE file[m]
    BY <1>1, <2>1 DEF LedgerInv, PlanTypes
  <2> HIDE DEF n, new
  <2> QED
    BY <1>1, <2>2, <2>4, <2>5, Ranges DEF new
<1>5. CASE Ledger!ImportMonth \/ Ledger!ImportFails
  <2>1. file' = file /\ Ledger!Complete
    BY <1>5 DEF Ledger!ImportMonth, Ledger!ImportFails
  <2>2. PICK v \in Ledger!Editions :
          /\ v >= db[Ledger!Min(published)]
          /\ \A n \in Ledger!Months : db'[n] = IF n = Ledger!Min(published) THEN v ELSE db[n]
    BY <1>5, Imports
  <2> QED
    BY <1>1, <2>1, <2>2, Ranges
<1> QED
  BY <1>2, <1>3, <1>4, <1>5

\* A month that was saved stays in the ledger, for any number of months.
THEOREM SavedIsKept == Ledger!Spec => Ledger!SavedNeverLost
<1>1. LedgerInv /\ [Ledger!Next]_(Ledger!vars) =>
        [\A m \in Ledger!Saved :
           file'[m] # NoFile /\ file'[m] >= file[m]
           /\ (Ledger!Complete /\ Ledger!Complete' => db'[m] >= db[m])]_(Ledger!vars)
  BY NothingSavedIsLost
<1> QED
  BY <1>1, LedgerInvariance, PTL DEF Ledger!Spec, Ledger!SavedNeverLost

LEMMA RemovesOwn ==
  ASSUME LedgerInv, [Ledger!Next]_(Ledger!vars)
  PROVE  [Ledger!Complete /\ ~Ledger!Complete' =>
            \/ created /\ step \notin Ledger!Ends /\ step' \in Ledger!Ends /\ (half \/ taken)
            \/ \E w \in early : creation'[w] = Ledger!Off]_(Ledger!vars)
<1> SUFFICES ASSUME Ledger!Next, Ledger!Complete, ~Ledger!Complete'
             PROVE  \/ created /\ step \notin Ledger!Ends /\ step' \in Ledger!Ends /\ (half \/ taken)
                    \/ \E w \in early : creation'[w] = Ledger!Off
  OBVIOUS
<1>1. db' # db
  BY DEF Ledger!Complete
<1>2. ASSUME NEW w \in Ledger!Makers, creation[w] # Ledger!Off, Ledger!Undo(w) PROVE w \in early /\ creation'[w] = Ledger!Off
  BY <1>1, <1>2, Undoes
<1>3. CASE created /\ step \in {"discover", "fetch", "import"} /\ step' \in {"off", "failure"}
  BY <1>3 DEF LedgerInv, Owned
<1>4. CASE Ledger!FetchMonth
  BY <1>1, <1>4 DEF Ledger!FetchMonth, Ledger!base
<1>5. CASE Ledger!ImportMonth \/ Ledger!ImportFails
  <2>1. db' \in [Ledger!Months -> Ledger!Editions]
    BY <1>5, Imports
  <2> QED
    BY <2>1, Databases DEF Ledger!Complete
<1> QED
  BY <1>1, <1>2, <1>3, <1>4, <1>5, Kinds

\* A complete database is removed only by the set-up whose own it is or was, or by
\* the failing of a creation that was under way when it was completed.
THEOREM OnlyOwnGoes == Ledger!Spec => Ledger!OnlyOwnIsRemoved
<1>1. LedgerInv /\ [Ledger!Next]_(Ledger!vars) =>
        [Ledger!Complete /\ ~Ledger!Complete' =>
           \/ created /\ step \notin Ledger!Ends /\ step' \in Ledger!Ends /\ (half \/ taken)
           \/ \E w \in early : creation'[w] = Ledger!Off]_(Ledger!vars)
  BY RemovesOwn
<1> QED
  BY <1>1, LedgerInvariance, PTL DEF Ledger!Spec, Ledger!OnlyOwnIsRemoved

HIDE LedgerHolds DEF Ledger!LedgerAssumption, Ledger!Ends

-----------------------------------------------------------------------------

\* A behaviour of the library is one of the ledger and one of the import.
LEMMA LibraryIsBoth == LibrarySpec => Spec /\ Ledger!Spec
<1>1. LibraryInit => Init /\ Ledger!Init
  BY DEF LibraryInit
<1>2. [LibraryNext]_library => [Next]_vars /\ [Ledger!Next]_(Ledger!vars)
  <2>1. UNCHANGED ledger => UNCHANGED Ledger!vars
    BY DEF ledger, Ledger!vars, Ledger!world, Ledger!disk, Ledger!base, Ledger!command, Ledger!plan
  <2> QED
    BY <2>1 DEF LibraryNext, Alone, Racing, OfLedger, library
<1> QED
  BY <1>1, <1>2, PTL DEF LibrarySpec, Spec, Ledger!Spec

\* What is half made was left by a crash or an interrupt, or by a removal that failed
\* and was told of; and an update that reports success was answered for every listed
\* month from the newest saved one on and keeps what it was told, for any number of
\* months, versions and faults.
THEOREM LedgerStaysSound == LibrarySpec => []LedgerIsSound
<1>1. LedgerInv => LedgerIsSound
  BY Sound DEF LedgerIsSound
<1> QED
  BY <1>1, LibraryIsBoth, LedgerInvariance, PTL

\* Imports that run at once store every game faithfully, for any number of imports,
\* batches, games and positions.
THEOREM ImportsAreFaithful == LibrarySpec => []ImportIsFaithful
<1>1. IInv => ImportIsFaithful
  BY DEF IInv, ImportIsFaithful
<1> QED
  BY <1>1, LibraryIsBoth, Invariance, PTL

\* Saved months stay, a complete database is removed only by who made it or by a
\* failing creation that was under way when it was completed, ids stay, and only games
\* that have changed are written again.
THEOREM NothingGetsLost == LibrarySpec => NothingIsLost
BY LibraryIsBoth, IdsStayStable, OnlyChangesWritten, SavedIsKept, OnlyOwnGoes DEF NothingIsLost

-----------------------------------------------------------------------------
(* The update of the opening sources. *)

USE FilesHold DEF Files!FilesAssumption

Update == update[updater]

Contents == Files!Known \cup {NoContent}
Accepted == (Files!Known \ Rejected) \cup {NoContent}

\* The files of an update, and what it holds of them.
Records ==
  [pc : {"idle", "fetch", "validate", "capture", "compare", "swap", "restore", "load"},
   commit : 0 .. LastCommit, at : 1 .. (FileCount + 1),
   staged : [Files!Files -> Contents], prior : [Files!Files -> Accepted], fresh : BOOLEAN,
   entry : [Files!Files -> Accepted], why : {"none", "failed", "interrupted"},
   read : [Files!Files -> Contents]]

FilesShapes ==
  /\ target \in [Files!Files -> Accepted]
  /\ Update \in Records /\ DOMAIN update = {updater} /\ DOMAIN ended = {updater}

\* What an update has fetched is of the commit it resolved, and is accepted once it
\* is validated.
Fetched ==
  Update.pc # "idle" =>
    /\ Update.commit \in Files!Commits
    /\ Update.pc = "fetch" =>
         /\ Update.at \in Files!Files
         /\ \A f \in 1 .. (Update.at - 1) : Update.staged[f] = Content[Update.commit][f]
    /\ Update.pc # "fetch" => Update.staged = Content[Update.commit]
    /\ Update.pc \notin {"fetch", "validate"} => Files!Valid(Update.commit)

\* Where the directory stands between what the update found and what it brings.
Swapped ==
  /\ Update.pc \in {"fetch", "validate", "capture", "compare"} => target = Update.entry
  /\ Update.pc \in {"validate", "capture", "compare"} => Update.at = 1
  /\ Update.pc \in {"compare", "swap", "restore"} => folder /\ Update.prior = Update.entry
  /\ Update.pc = "swap" =>
       /\ Update.at \in Files!Files
       /\ \A f \in Files!Files :
            target[f] = IF f < Update.at THEN Update.staged[f] ELSE Update.prior[f]
  /\ Update.pc = "restore" =>
       /\ Update.why # "none" /\ failures > 0
       /\ \A f \in 1 .. (Update.at - 1) : target[f] = Update.prior[f]
  /\ Update.pc = "load" =>
       /\ folder /\ target = Update.staged
       /\ \A f \in 1 .. (Update.at - 1) : Update.read[f] = target[f]

Mixed(contents) == contents # Files!NoFiles /\ ~Files!OneCommit(contents)

\* Files of two commits stem from a fault.
MixedNeedsFaults ==
  /\ Mixed(Update.entry) => failures > 0
  /\ Update.pc = "idle" => ended[updater] # "running"

FilesInv ==
  /\ Files!TypeOK /\ FilesShapes /\ Fetched /\ Swapped /\ MixedNeedsFaults
  /\ Files!CatalogueIsOneCommit /\ Files!FailureRestores /\ Files!MixedIsExplained /\ Files!CompletedIsItsCommit

LEMMA ContentsOf ==
  /\ Files!Files = 1 .. FileCount /\ Files!Commits = 1 .. LastCommit
  /\ \A c \in Files!Commits : Content[c] \in [Files!Files -> Files!Known]
  /\ NoContent \notin Files!Known
  /\ Files!NoFiles \in [Files!Files -> Contents] /\ Files!NoFiles \in [Files!Files -> Accepted]
<1>1. ASSUME NEW c \in Files!Commits PROVE Content[c] \in [Files!Files -> Files!Known]
  <2>1. \A f \in Files!Files : Content[c][f] \in Files!Known
    BY DEF Files!Known
  <2>2. Content[c] = [f \in Files!Files |-> Content[c][f]]
    BY DEF Files!Commits, Files!Files
  <2> QED
    BY <2>1, <2>2
<1>2. NoContent \notin Files!Known
  BY DEF Files!Known, Files!Commits, Files!Files
<1> QED
  BY <1>1, <1>2 DEF Files!Files, Files!Commits, Files!NoFiles, Contents, Accepted

LEMMA BareRecord == Files!Bare \in Records
BY ContentsOf DEF Files!Bare, Records

LEMMA FilesInitHolds == Files!Init => FilesInv
<1> SUFFICES ASSUME Files!Init PROVE FilesInv
  OBVIOUS
<1>1. Update = Files!Bare /\ DOMAIN update = {updater} /\ DOMAIN ended = {updater} /\ ended[updater] = "none"
  BY DEF Files!Init, Update
<1>2. target = Files!NoFiles \/ (target = Content[1] /\ Files!Valid(1) /\ folder)
  BY DEF Files!Init
<1>3. 1 \in Files!Commits
  BY DEF Files!Commits
<1>4. target \in [Files!Files -> Accepted] /\ ~Mixed(target)
  <2>1. CASE target = Files!NoFiles
    BY <2>1, ContentsOf DEF Mixed
  <2>2. CASE target = Content[1] /\ Files!Valid(1)
    BY <2>2, <1>3, ContentsOf DEF Mixed, Files!OneCommit, Files!Valid, Accepted
  <2> QED
    BY <1>2, <2>1, <2>2
<1>5. Update \in Records /\ Update.pc = "idle" /\ Update.commit = 0 /\ Update.at = 1 /\ Update.entry = Files!NoFiles
  BY <1>1, BareRecord DEF Files!Bare
<1>6. Files!TypeOK
  <2>1. \A f \in Files!Files : target[f] \in (Files!Known \ Rejected) \cup {NoContent}
    BY <1>2, <1>3, ContentsOf DEF Files!Valid, Files!NoFiles
  <2>2. catalogue = NoCatalogue \/ \A f \in Files!Files : catalogue[f] \in Files!Known \ Rejected
    BY <1>3, ContentsOf DEF Files!Init, Files!Valid
  <2>3. Update.commit \in 0 .. LastCommit /\ Update.at \in 1 .. (FileCount + 1)
    BY <1>5
  <2>4. \A u \in {updater} : update[u].commit \in 0 .. LastCommit /\ update[u].at \in 1 .. (FileCount + 1)
    BY <2>3 DEF Update
  <2>5. newest = 1 /\ failures = 0 /\ folder \in BOOLEAN
    BY DEF Files!Init
  <2>7. newest \in Files!Commits /\ failures \in 0 .. MaxFailures
    BY <1>3, <2>5
  <2>6. ~folder => target = Files!NoFiles
    BY <1>2
  <2> QED
    BY <2>1, <2>2, <2>4, <2>5, <2>6, <2>7 DEF Files!TypeOK
<1>7. FilesShapes /\ Fetched /\ Swapped
  BY <1>1, <1>4, <1>5 DEF FilesShapes, Fetched, Swapped
<1>8. MixedNeedsFaults
  BY <1>1, <1>5 DEF MixedNeedsFaults, Mixed
<1>9. Files!CatalogueIsOneCommit
  BY <1>3 DEF Files!CatalogueIsOneCommit, Files!OneCommit, Files!Init
<1>10. Files!FailureRestores /\ Files!MixedIsExplained /\ Files!CompletedIsItsCommit
  BY <1>1, <1>4 DEF Files!FailureRestores, Files!MixedIsExplained, Files!CompletedIsItsCommit, Mixed
<1> QED
  BY <1>6, <1>7, <1>8, <1>9, <1>10 DEF FilesInv

\* What holds of the one updater.
LEMMA TheUpdate ==
  ASSUME FilesInv
  PROVE  /\ Update \in Records /\ DOMAIN update = {updater} /\ DOMAIN ended = {updater}
         /\ target \in [Files!Files -> Accepted]
         /\ \A p : Files!At(updater, p) <=> Update.pc = p
BY DEF FilesInv, FilesShapes, Files!At, Update

\* An update ends: what is to be shown of the directory and the catalogue.
LEMMA Ending ==
  ASSUME FilesInv, NEW outcome, Files!Ends(updater, outcome), UNCHANGED <<newest, target>>,
         outcome \in {"completed", "failed", "interrupted", "rollback", "crashed", "cut"},
         folder' \in BOOLEAN, failures' \in 0 .. MaxFailures, ~folder' => target = Files!NoFiles,
         Mixed(Update.entry) => failures' > 0,
         catalogue' = catalogue \/ (catalogue' = Content[Update.commit] /\ Update.pc = "load"),
         outcome \in {"failed", "interrupted"} => target = Update.entry \/ target = Content[Update.commit],
         outcome = "completed" => target = Content[Update.commit] /\ catalogue' = target,
         Mixed(target) =>
           /\ failures' > 0
           /\ \/ outcome \in {"crashed", "rollback"}
              \/ outcome = "cut" /\ failures' > 1
              \/ Mixed(Update.entry)
  PROVE  FilesInv'
<1>1. /\ Update' = [Files!Bare EXCEPT !.entry = Update.entry, !.commit = Update.commit]
      /\ DOMAIN update' = {updater} /\ DOMAIN ended' = {updater} /\ ended'[updater] = outcome
  BY TheUpdate DEF Files!Ends, Update
<1>2. /\ Update'.pc = "idle" /\ Update'.entry = Update.entry /\ Update'.commit = Update.commit /\ Update'.at = 1
      /\ Update' \in Records
  BY <1>1, TheUpdate, BareRecord DEF Files!Bare, Records
<1>3. \A u \in {updater} : update'[u] = Update' /\ ended'[u] = outcome
  BY <1>1 DEF Update
<1>4. Update.pc = "load" => Update.commit \in Files!Commits /\ Files!Valid(Update.commit)
  BY DEF FilesInv, Fetched
<1>5. Files!TypeOK'
  <2>1. catalogue' = NoCatalogue \/ \A f \in Files!Files : catalogue'[f] \in Files!Known \ Rejected
    BY <1>4, ContentsOf DEF FilesInv, Files!TypeOK, Files!Valid
  <2>2. Update.commit \in 0 .. LastCommit
    BY TheUpdate DEF Records
  <2> QED
    BY <1>2, <1>3, <2>1, <2>2 DEF FilesInv, Files!TypeOK
<1>6. FilesShapes' /\ Fetched' /\ Swapped'
  BY <1>1, <1>2, TheUpdate DEF FilesShapes, Fetched, Swapped
<1>7. MixedNeedsFaults'
  BY <1>1, <1>2 DEF MixedNeedsFaults, Mixed
<1>8. Files!CatalogueIsOneCommit'
  BY <1>4 DEF FilesInv, Files!CatalogueIsOneCommit, Files!OneCommit
<1>9. Files!FailureRestores' /\ Files!CompletedIsItsCommit'
  BY <1>2, <1>3 DEF Files!FailureRestores, Files!CompletedIsItsCommit
<1>10. Files!MixedIsExplained'
  BY <1>2, <1>3 DEF Files!MixedIsExplained, Mixed
<1> QED
  BY <1>5, <1>6, <1>7, <1>8, <1>9, <1>10 DEF FilesInv

\* An update goes on: nothing is to be shown of how it ended.
LEMMA GoingOn ==
  ASSUME FilesInv, UNCHANGED <<newest, catalogue>>, Update'.pc # "idle", FilesShapes', Fetched', Swapped',
         folder' \in BOOLEAN, failures' \in 0 .. MaxFailures, ~folder' => target' = Files!NoFiles,
         Mixed(Update'.entry) => failures' > 0
  PROVE  FilesInv'
<1>1. Update' \in Records
  BY DEF FilesShapes
<1>2. Files!TypeOK'
  BY <1>1 DEF FilesInv, Files!TypeOK, FilesShapes, Accepted, Records, Update
<1>3. MixedNeedsFaults' /\ Files!CatalogueIsOneCommit'
  BY DEF MixedNeedsFaults, Mixed, FilesInv, Files!CatalogueIsOneCommit
<1>4. Files!FailureRestores' /\ Files!CompletedIsItsCommit' /\ Files!MixedIsExplained'
  BY DEF Files!FailureRestores, Files!CompletedIsItsCommit, Files!MixedIsExplained, Files!At, Update
<1> QED
  BY <1>2, <1>3, <1>4 DEF FilesInv

USE DEF Files!Goes, Files!At

LEMMA PushStep == FilesInv /\ Files!Push => FilesInv'
<1> SUFFICES ASSUME FilesInv, Files!Push PROVE FilesInv'
  OBVIOUS
<1>1. newest' \in Files!Commits
  BY ContentsOf DEF Files!Push, FilesInv, Files!TypeOK
<1> QED
  BY <1>1 DEF Files!Push, FilesInv, Files!TypeOK, FilesShapes, Fetched, Swapped, MixedNeedsFaults, Mixed, Update,
     Files!CatalogueIsOneCommit, Files!FailureRestores, Files!MixedIsExplained, Files!CompletedIsItsCommit

LEMMA ResolveStep == FilesInv /\ Files!Resolve(updater) => FilesInv'
<1> SUFFICES ASSUME FilesInv, Files!Resolve(updater) PROVE FilesInv'
  OBVIOUS
<1>1. /\ Update' = [Files!Bare EXCEPT !.pc = "fetch", !.commit = newest, !.entry = target]
      /\ DOMAIN update' = {updater} /\ DOMAIN ended' = {updater} /\ Update.pc = "idle"
      /\ UNCHANGED <<newest, folder, target, catalogue, failures>>
  BY TheUpdate DEF Files!Resolve, Update
<1>2. newest \in Files!Commits /\ newest \in 0 .. LastCommit
  BY ContentsOf DEF FilesInv, Files!TypeOK
<1>3. Update' \in Records /\ Update'.pc = "fetch" /\ Update'.commit = newest /\ Update'.at = 1 /\ Update'.entry = target
  BY <1>1, <1>2, TheUpdate, BareRecord DEF Files!Bare, Records
<1>4. FilesShapes' /\ Fetched' /\ Swapped'
  BY <1>1, <1>2, <1>3, TheUpdate, ContentsOf DEF FilesShapes, Fetched, Swapped
<1>5. Mixed(target) => failures > 0
  BY <1>1 DEF FilesInv, Files!MixedIsExplained, Mixed, Update
<1> QED
  BY <1>1, <1>3, <1>4, <1>5, GoingOn DEF FilesInv, Files!TypeOK

LEMMA FetchFileStep == FilesInv /\ Files!Fetch(updater) => FilesInv'
<1> SUFFICES ASSUME FilesInv, Files!Fetch(updater) PROVE FilesInv'
  OBVIOUS
<1> DEFINE f == Update.at
           c == Update.commit
<1>1. Update.pc = "fetch" /\ f \in Files!Files /\ c \in Files!Commits
      /\ \A g \in 1 .. (f - 1) : Update.staged[g] = Content[c][g]
  BY DEF Files!Fetch, FilesInv, Fetched, Update
<1>2. /\ Update' = [Update EXCEPT !.staged = [Update.staged EXCEPT ![f] = Content[c][f]],
                                  !.at = IF f = FileCount THEN 1 ELSE f + 1,
                                  !.pc = IF f = FileCount THEN "validate" ELSE "fetch"]
      /\ DOMAIN update' = {updater}
      /\ UNCHANGED <<newest, folder, target, catalogue, ended, failures>>
  BY TheUpdate DEF Files!Fetch, Update
<1>3. Content[c] \in [Files!Files -> Files!Known] /\ Files!Files = 1 .. FileCount
  BY <1>1, ContentsOf
<1>4. Update.staged \in [Files!Files -> Contents]
  BY TheUpdate DEF Records
<1>5. /\ Update'.staged \in [Files!Files -> Contents]
      /\ \A g \in Files!Files : Update'.staged[g] = IF g = f THEN Content[c][f] ELSE Update.staged[g]
  <2>1. Update'.staged = [Update.staged EXCEPT ![f] = Content[c][f]]
    BY <1>2, TheUpdate DEF Records
  <2> QED
    BY <1>1, <1>3, <1>4, <2>1 DEF Contents
<1>6. /\ Update'.at = IF f = FileCount THEN 1 ELSE f + 1
      /\ Update'.pc = IF f = FileCount THEN "validate" ELSE "fetch"
      /\ Update'.commit = c /\ Update'.entry = Update.entry
  BY <1>2, TheUpdate DEF Records
<1>7. Update' \in Records
  <2>1. Update'.at \in 1 .. (FileCount + 1)
    BY <1>1, <1>3, <1>6
  <2> QED
    BY <1>2, <1>5, <1>6, <2>1, TheUpdate DEF Records
<1>8. FilesShapes'
  BY <1>2, <1>7, TheUpdate DEF FilesShapes
<1>9. Fetched'
  <2>1. CASE f = FileCount
    <3>1. \A g \in Files!Files : Update'.staged[g] = Content[c][g]
      BY <1>1, <1>3, <1>5, <2>1
    <3>2. Update'.staged = Content[c]
      BY <1>3, <1>5, <3>1
    <3> QED
      BY <1>1, <1>6, <2>1, <3>2 DEF Fetched
  <2>2. CASE f # FileCount
    <3>1. f + 1 \in Files!Files /\ \A g \in 1 .. ((f + 1) - 1) : g \in Files!Files /\ (g = f \/ g \in 1 .. (f - 1))
      BY <1>1, <1>3, <2>2
    <3>2. \A g \in 1 .. ((f + 1) - 1) : Update'.staged[g] = Content[c][g]
      BY <1>1, <1>5, <3>1
    <3> QED
      BY <1>1, <1>6, <2>2, <3>1, <3>2 DEF Fetched
  <2> QED
    BY <2>1, <2>2
<1>10. Swapped'
  BY <1>1, <1>2, <1>6 DEF FilesInv, Swapped
<1> QED
  BY <1>1, <1>2, <1>6, <1>8, <1>9, <1>10, GoingOn DEF FilesInv, Files!TypeOK, MixedNeedsFaults

LEMMA ValidateStep == FilesInv /\ Files!Validate(updater) => FilesInv'
<1> SUFFICES ASSUME FilesInv, Files!Validate(updater) PROVE FilesInv'
  OBVIOUS
<1>1. Update.pc = "validate" /\ UNCHANGED <<newest, folder, target, catalogue, failures>>
      /\ Update.staged = Content[Update.commit] /\ Update.commit \in Files!Commits /\ target = Update.entry
  BY DEF Files!Validate, FilesInv, Fetched, Swapped, Update
<1>2. CASE /\ \A f \in Files!Files : update[updater].staged[f] \notin Rejected
           /\ update' = [update EXCEPT ![updater].pc = "capture"] /\ UNCHANGED ended
  <2>1. Update' = [Update EXCEPT !.pc = "capture"] /\ DOMAIN update' = {updater}
    BY <1>2, TheUpdate DEF Update
  <2>2. /\ Update' \in Records /\ Update'.pc = "capture" /\ Update'.staged = Update.staged /\ Update'.commit = Update.commit
        /\ Update'.entry = Update.entry /\ Update'.at = Update.at
    BY <2>1, TheUpdate DEF Records
  <2>3. Files!Valid(Update.commit)
    BY <1>1, <1>2 DEF Files!Valid, Update
  <2>4. FilesShapes' /\ Fetched' /\ Swapped'
    BY <1>1, <1>2, <2>1, <2>2, <2>3, TheUpdate DEF FilesShapes, Fetched, Swapped, FilesInv
  <2> QED
    BY <1>1, <2>2, <2>4, GoingOn DEF FilesInv, Files!TypeOK, MixedNeedsFaults
<1>3. CASE Files!Ends(updater, "failed")
  BY <1>1, <1>3, Ending DEF FilesInv, Files!TypeOK, MixedNeedsFaults
<1> QED
  BY <1>2, <1>3 DEF Files!Validate

LEMMA CaptureStep == FilesInv /\ Files!Capture(updater) => FilesInv'
<1> SUFFICES ASSUME FilesInv, Files!Capture(updater) PROVE FilesInv'
  OBVIOUS
<1>1. Update.pc = "capture" /\ UNCHANGED <<newest, target, catalogue, ended, failures>> /\ folder' = TRUE
      /\ Update' = [Update EXCEPT !.pc = "compare", !.prior = target, !.fresh = ~folder] /\ DOMAIN update' = {updater}
  BY TheUpdate DEF Files!Capture, Update
<1>2. /\ Update' \in Records /\ Update'.pc = "compare" /\ Update'.staged = Update.staged /\ Update'.commit = Update.commit
      /\ Update'.entry = Update.entry /\ Update'.at = Update.at /\ Update'.prior = target
  BY <1>1, TheUpdate DEF Records, FilesInv, Files!TypeOK
<1>3. FilesShapes' /\ Fetched' /\ Swapped'
  BY <1>1, <1>2, TheUpdate DEF FilesShapes, Fetched, Swapped, FilesInv
<1> QED
  BY <1>1, <1>2, <1>3, GoingOn DEF FilesInv, Files!TypeOK, MixedNeedsFaults

LEMMA CompareFilesStep == FilesInv /\ Files!Compare(updater) => FilesInv'
<1> SUFFICES ASSUME FilesInv, Files!Compare(updater) PROVE FilesInv'
  OBVIOUS
<1> DEFINE next == IF target = Update.staged THEN "load" ELSE "swap"
<1>1. Update.pc = "compare" /\ UNCHANGED <<newest, folder, target, catalogue, ended, failures>>
      /\ Update' = [Update EXCEPT !.pc = next] /\ DOMAIN update' = {updater}
  BY TheUpdate DEF Files!Compare, Update
<1>2. /\ Update' \in Records /\ Update'.pc = next /\ Update'.staged = Update.staged /\ Update'.commit = Update.commit
      /\ Update'.entry = Update.entry /\ Update'.at = Update.at /\ Update'.prior = Update.prior
  BY <1>1, TheUpdate DEF Records
<1>3. Update.at = 1 /\ target = Update.entry /\ Update.prior = Update.entry /\ folder
  BY <1>1 DEF FilesInv, Swapped
<1>4. FilesShapes' /\ Fetched' /\ Swapped'
  BY <1>1, <1>2, <1>3, TheUpdate, ContentsOf DEF FilesShapes, Fetched, Swapped, FilesInv
<1> QED
  BY <1>1, <1>2, <1>4, GoingOn DEF FilesInv, Files!TypeOK, MixedNeedsFaults

\* What an update brings is accepted.
LEMMA StagedIsAccepted ==
  ASSUME FilesInv, Update.pc \in {"capture", "compare", "swap", "restore", "load"}
  PROVE  /\ Update.staged = Content[Update.commit] /\ Update.commit \in Files!Commits
         /\ Update.staged \in [Files!Files -> Contents]
         /\ \A f \in Files!Files : Update.staged[f] \in Files!Known \ Rejected
<1>1. Update.staged = Content[Update.commit] /\ Update.commit \in Files!Commits /\ Files!Valid(Update.commit)
  BY DEF FilesInv, Fetched
<1> QED
  BY <1>1, ContentsOf DEF Files!Valid, Contents

LEMMA SwapStep == FilesInv /\ Files!Swap(updater) => FilesInv'
<1> SUFFICES ASSUME FilesInv, Files!Swap(updater) PROVE FilesInv'
  OBVIOUS
<1> DEFINE f == Update.at
<1>1. Update.pc = "swap" /\ folder /\ UNCHANGED <<newest, folder, catalogue, ended, failures>>
      /\ target' = [target EXCEPT ![f] = Update.staged[f]]
      /\ Update' = [Update EXCEPT !.at = IF f = FileCount THEN 1 ELSE f + 1,
                                  !.pc = IF f = FileCount THEN "load" ELSE "swap"]
      /\ DOMAIN update' = {updater}
  BY TheUpdate DEF Files!Swap, Update
<1>2. /\ f \in Files!Files /\ Files!Files = 1 .. FileCount /\ Update.prior = Update.entry
      /\ \A g \in Files!Files : target[g] = IF g < f THEN Update.staged[g] ELSE Update.prior[g]
  BY <1>1, ContentsOf DEF FilesInv, Swapped
<1>3. Update.staged \in [Files!Files -> Contents] /\ (\A g \in Files!Files : Update.staged[g] \in Accepted)
      /\ Update.staged = Content[Update.commit]
  BY <1>1, StagedIsAccepted DEF Accepted
<1>4. /\ target' \in [Files!Files -> Accepted]
      /\ \A g \in Files!Files : target'[g] = IF g = f THEN Update.staged[f] ELSE target[g]
  BY <1>1, <1>2, <1>3, TheUpdate
<1>5. /\ Update'.at = IF f = FileCount THEN 1 ELSE f + 1
      /\ Update'.pc = IF f = FileCount THEN "load" ELSE "swap"
      /\ Update'.staged = Update.staged /\ Update'.commit = Update.commit
      /\ Update'.entry = Update.entry /\ Update'.prior = Update.prior
  BY <1>1, TheUpdate DEF Records
<1>6. Update' \in Records
  <2>1. Update'.at \in 1 .. (FileCount + 1)
    BY <1>2, <1>5
  <2> QED
    BY <1>1, <1>5, <2>1, TheUpdate DEF Records
<1>7. FilesShapes'
  BY <1>1, <1>4, <1>6, TheUpdate DEF FilesShapes
<1>8. Fetched'
  BY <1>1, <1>5 DEF FilesInv, Fetched
<1> HIDE DEF f
<1>9. Swapped'
  <2>1. CASE f = FileCount
    <3>1. ASSUME NEW g \in Files!Files PROVE target'[g] = Update.staged[g]
      <4>1. g = f \/ g < f
        BY <1>2, <2>1
      <4> QED
        BY <1>2, <1>4, <4>1
    <3>2. target' = Update.staged
      BY <1>3, <1>4, <3>1
    <3>3. Update'.pc = "load" /\ Update'.at = 1 /\ folder'
      BY <1>1, <1>5, <2>1
    <3> QED
      BY <1>5, <3>2, <3>3 DEF Swapped
  <2>2. CASE f # FileCount
    <3>1. f + 1 \in Files!Files
      BY <1>2, <2>2
    <3>2. \A g \in Files!Files : target'[g] = IF g < f + 1 THEN Update.staged[g] ELSE Update.prior[g]
      BY <1>2, <1>4
    <3> QED
      BY <1>1, <1>2, <1>5, <2>2, <3>1, <3>2 DEF Swapped
  <2> QED
    BY <2>1, <2>2
<1> QED
  BY <1>1, <1>5, <1>7, <1>8, <1>9, GoingOn DEF FilesInv, Files!TypeOK, MixedNeedsFaults

LEMMA SwapFailsStep == FilesInv /\ Files!SwapFails(updater) => FilesInv'
<1> SUFFICES ASSUME FilesInv, Files!SwapFails(updater) PROVE FilesInv'
  OBVIOUS
<1>1. PICK why \in {"failed", "interrupted"} :
        update' = [update EXCEPT ![updater].pc = "restore", ![updater].at = 1, ![updater].why = why]
  BY DEF Files!SwapFails
<1>2. Update.pc = "swap" /\ folder /\ Update.prior = Update.entry
      /\ UNCHANGED <<newest, folder, target, catalogue, ended>> /\ failures < MaxFailures /\ failures' = failures + 1
  BY DEF Files!SwapFails, Files!Breaks, Update, FilesInv, Swapped
<1>3. Update' = [Update EXCEPT !.pc = "restore", !.at = 1, !.why = why] /\ DOMAIN update' = {updater}
  BY <1>1, TheUpdate DEF Update
<1>6. failures' \in 0 .. MaxFailures /\ failures' > 0
  BY <1>2 DEF FilesInv, Files!TypeOK
<1>7. Update' \in Records
  <2>1. 1 \in 1 .. (FileCount + 1)
    OBVIOUS
  <2> QED
    BY <1>3, <2>1, TheUpdate DEF Records
<1>4. /\ Update'.pc = "restore" /\ Update'.at = 1 /\ Update'.why # "none"
      /\ Update'.staged = Update.staged /\ Update'.commit = Update.commit
      /\ Update'.entry = Update.entry /\ Update'.prior = Update.prior
  BY <1>3, TheUpdate DEF Records
<1>5. FilesShapes' /\ Fetched' /\ Swapped'
  BY <1>2, <1>3, <1>4, <1>6, <1>7, TheUpdate DEF FilesShapes, Fetched, Swapped, FilesInv
<1> QED
  BY <1>2, <1>4, <1>5, <1>6, GoingOn DEF FilesInv, Files!TypeOK

LEMMA RestoreStep == FilesInv /\ Files!Restore(updater) => FilesInv'
<1> SUFFICES ASSUME FilesInv, Files!Restore(updater) PROVE FilesInv'
  OBVIOUS
<1> DEFINE f == Update.at
<1>1. Update.pc = "restore" /\ f <= FileCount /\ UNCHANGED <<newest, folder, catalogue, ended, failures>>
      /\ target' = [target EXCEPT ![f] = Update.prior[f]]
      /\ Update' = [Update EXCEPT !.at = f + 1] /\ DOMAIN update' = {updater}
  BY TheUpdate DEF Files!Restore, Update
<1>2. /\ f \in Files!Files /\ Files!Files = 1 .. FileCount /\ Update.prior = Update.entry /\ folder
      /\ Update.prior \in [Files!Files -> Accepted]
      /\ \A g \in 1 .. (f - 1) : target[g] = Update.prior[g]
  BY <1>1, ContentsOf, TheUpdate DEF FilesInv, Swapped, Records
<1>3. /\ target' \in [Files!Files -> Accepted]
      /\ \A g \in Files!Files : target'[g] = IF g = f THEN Update.prior[f] ELSE target[g]
  BY <1>1, <1>2, TheUpdate
<1>4. /\ Update'.at = f + 1 /\ Update'.pc = Update.pc /\ Update'.why = Update.why
      /\ Update'.staged = Update.staged /\ Update'.commit = Update.commit
      /\ Update'.entry = Update.entry /\ Update'.prior = Update.prior
  BY <1>1, TheUpdate DEF Records
<1>5. Update' \in Records
  <2>1. f + 1 \in 1 .. (FileCount + 1)
    BY <1>2
  <2> QED
    BY <1>1, <2>1, TheUpdate DEF Records
<1>6. FilesShapes' /\ Fetched'
  BY <1>1, <1>3, <1>4, <1>5, TheUpdate DEF FilesInv, FilesShapes, Fetched
<1> HIDE DEF f
<1>7. Swapped'
  <2>1. \A g \in 1 .. ((f + 1) - 1) : g \in Files!Files /\ (g = f \/ g \in 1 .. (f - 1))
    BY <1>2
  <2>2. \A g \in 1 .. ((f + 1) - 1) : target'[g] = Update.prior[g]
    BY <1>2, <1>3, <2>1
  <2> QED
    BY <1>1, <1>2, <1>4, <2>2 DEF FilesInv, Swapped
<1> QED
  BY <1>1, <1>2, <1>4, <1>6, <1>7, GoingOn DEF FilesInv, Files!TypeOK, MixedNeedsFaults

LEMMA RestoredStep == FilesInv /\ Files!Restored(updater) => FilesInv'
<1> SUFFICES ASSUME FilesInv, Files!Restored(updater) PROVE FilesInv'
  OBVIOUS
<1>1. Update.pc = "restore" /\ Update.at > FileCount /\ UNCHANGED <<newest, target, catalogue, failures>>
  BY DEF Files!Restored, Update
<1>2. target = Update.entry /\ Update.why \in {"failed", "interrupted"} /\ folder
  <2>1. Update.prior = Update.entry /\ Update.why # "none" /\ folder
        /\ \A f \in 1 .. (Update.at - 1) : target[f] = Update.prior[f]
    BY <1>1 DEF FilesInv, Swapped
  <2>2. Update.at = FileCount + 1 /\ Update.prior \in [Files!Files -> Accepted]
        /\ Update.why \in {"none", "failed", "interrupted"}
    BY <1>1, TheUpdate DEF Records
  <2>3. Files!Files = 1 .. (Update.at - 1)
    BY <2>2, ContentsOf
  <2>4. target = Update.prior
    BY <2>1, <2>2, <2>3, TheUpdate
  <2> QED
    BY <2>1, <2>2, <2>4
<1>3. /\ folder' \in BOOLEAN /\ (~folder' => target = Files!NoFiles)
      /\ Files!Ends(updater, "rollback") \/ Files!Ends(updater, Update.why)
  BY <1>2 DEF Files!Restored, Update
<1>4. failures' \in 0 .. MaxFailures /\ (Mixed(Update.entry) => failures' > 0)
  BY <1>1 DEF FilesInv, Files!TypeOK, MixedNeedsFaults
<1>5. CASE Files!Ends(updater, "rollback")
  BY <1>1, <1>2, <1>3, <1>4, <1>5, Ending
<1>6. CASE Files!Ends(updater, Update.why)
  BY <1>1, <1>2, <1>3, <1>4, <1>6, Ending
<1> QED
  BY <1>3, <1>5, <1>6

LEMMA OneFaultMore ==
  ASSUME FilesInv, Files!Breaks
  PROVE  failures' \in 0 .. MaxFailures /\ failures' > 0
BY DEF Files!Breaks, FilesInv, Files!TypeOK

\* A rollback that fails is told of.  One that is interrupted is a second fault, and
\* leaves what the update found when only the directory was left to remove.
LEMMA RestoreFailsStep == FilesInv /\ Files!RestoreFails(updater) => FilesInv'
<1> SUFFICES ASSUME FilesInv, Files!RestoreFails(updater) PROVE FilesInv'
  OBVIOUS
<1>1. Update.pc = "restore" /\ UNCHANGED <<newest, folder, target, catalogue>>
  BY DEF Files!RestoreFails, Update
<1>2. folder /\ failures > 0 /\ Update.prior = Update.entry
      /\ \A f \in 1 .. (Update.at - 1) : target[f] = Update.prior[f]
  BY <1>1 DEF FilesInv, Swapped
<1>3. Files!Breaks
  BY <1>2 DEF Files!RestoreFails
<1>4. failures' \in 0 .. MaxFailures /\ failures' > 1
  BY <1>2, <1>3 DEF Files!Breaks, FilesInv, Files!TypeOK
<1>5. CASE Files!Ends(updater, "rollback")
  BY <1>1, <1>2, <1>4, <1>5, Ending
<1>6. CASE Update.at <= FileCount /\ Files!Ends(updater, "cut")
  BY <1>1, <1>2, <1>4, <1>6, Ending
<1>7. CASE ~(Update.at <= FileCount) /\ Files!Ends(updater, "interrupted")
  <2>1. Update.at = FileCount + 1 /\ Update.prior \in [Files!Files -> Accepted]
    BY <1>7, TheUpdate DEF Records
  <2>2. Files!Files = 1 .. (Update.at - 1)
    BY <2>1, ContentsOf
  <2>3. target = Update.entry
    BY <1>2, <2>1, <2>2, TheUpdate
  <2> QED
    BY <1>1, <1>2, <1>4, <1>7, <2>3, Ending
<1> QED
  BY <1>5, <1>6, <1>7 DEF Files!RestoreFails, Update

LEMMA LoadStep == FilesInv /\ Files!Load(updater) => FilesInv'
<1> SUFFICES ASSUME FilesInv, Files!Load(updater) PROVE FilesInv'
  OBVIOUS
<1> DEFINE f == Update.at
<1>1. Update.pc = "load" /\ f <= FileCount /\ UNCHANGED <<newest, folder, target, catalogue, failures>>
  BY DEF Files!Load, Update
<1>2. /\ f \in Files!Files /\ Files!Files = 1 .. FileCount /\ folder /\ target = Update.staged
      /\ \A g \in 1 .. (f - 1) : Update.read[g] = target[g]
      /\ Update.read \in [Files!Files -> Contents]
  BY <1>1, ContentsOf, TheUpdate DEF FilesInv, Swapped, Records
<1>3. target[f] \in Files!Known \ Rejected
  BY <1>1, <1>2, StagedIsAccepted
<1>4. Update' = [Update EXCEPT !.read = [Update.read EXCEPT ![f] = target[f]], !.at = f + 1]
      /\ DOMAIN update' = {updater} /\ UNCHANGED ended
  BY <1>3, ContentsOf, TheUpdate DEF Files!Load, Update
<1>5. /\ Update'.at = f + 1 /\ Update'.pc = Update.pc /\ Update'.read = [Update.read EXCEPT ![f] = target[f]]
      /\ Update'.staged = Update.staged /\ Update'.commit = Update.commit
      /\ Update'.entry = Update.entry /\ Update'.prior = Update.prior
  BY <1>4, TheUpdate DEF Records
<1>6. /\ Update'.read \in [Files!Files -> Contents]
      /\ \A g \in Files!Files : Update'.read[g] = IF g = f THEN target[f] ELSE Update.read[g]
  BY <1>2, <1>3, <1>5 DEF Contents
<1>7. Update' \in Records
  <2>1. f + 1 \in 1 .. (FileCount + 1)
    BY <1>2
  <2> QED
    BY <1>4, <1>5, <1>6, <2>1, TheUpdate DEF Records
<1>8. FilesShapes' /\ Fetched'
  BY <1>1, <1>4, <1>5, <1>7, TheUpdate DEF FilesInv, FilesShapes, Fetched
<1> HIDE DEF f
<1>9. Swapped'
  <2>1. \A g \in 1 .. ((f + 1) - 1) : g \in Files!Files /\ (g = f \/ g \in 1 .. (f - 1))
    BY <1>2
  <2>2. \A g \in 1 .. ((f + 1) - 1) : Update'.read[g] = target[g]
    BY <1>2, <1>6, <2>1
  <2> QED
    BY <1>1, <1>2, <1>5, <2>2 DEF FilesInv, Swapped
<1> QED
  BY <1>1, <1>2, <1>5, <1>8, <1>9, GoingOn DEF FilesInv, Files!TypeOK, MixedNeedsFaults

LEMMA PublishStep == FilesInv /\ Files!Publish(updater) => FilesInv'
<1> SUFFICES ASSUME FilesInv, Files!Publish(updater) PROVE FilesInv'
  OBVIOUS
<1>1. Update.pc = "load" /\ Update.at > FileCount /\ UNCHANGED <<newest, folder, target, failures>>
      /\ catalogue' = Update.read /\ Files!Ends(updater, "completed")
  BY DEF Files!Publish, Update
<1>2. folder /\ target = Update.staged /\ \A f \in 1 .. (Update.at - 1) : Update.read[f] = target[f]
  BY <1>1 DEF FilesInv, Swapped
<1>3. Update.staged = Content[Update.commit] /\ Update.commit \in Files!Commits
  BY <1>1, StagedIsAccepted
<1>4. Update.read = target
  <2>1. Update.at = FileCount + 1 /\ Update.read \in [Files!Files -> Contents]
    BY <1>1, TheUpdate DEF Records
  <2>2. Files!Files = 1 .. (Update.at - 1)
    BY <2>1, ContentsOf
  <2>3. \A f \in Files!Files : Update.read[f] = target[f]
    BY <1>2, <2>2
  <2>4. target \in [Files!Files -> Accepted]
    BY TheUpdate
  <2> QED
    BY <2>1, <2>3, <2>4
<1>5. ~Mixed(target)
  BY <1>2, <1>3 DEF Mixed, Files!OneCommit
<1> QED
  BY <1>1, <1>2, <1>3, <1>4, <1>5, Ending DEF FilesInv, Files!TypeOK, MixedNeedsFaults

\* Before the swaps the directory is as it was found; after them it is of the commit.
LEMMA OutsideSwaps ==
  ASSUME FilesInv, Update.pc \in {"fetch", "validate", "capture", "compare", "load"}
  PROVE  /\ target = Update.entry \/ target = Content[Update.commit]
         /\ Mixed(target) => Mixed(Update.entry)
<1>1. CASE Update.pc = "load"
  <2>1. target = Content[Update.commit] /\ Update.commit \in Files!Commits
    BY <1>1, StagedIsAccepted DEF FilesInv, Swapped
  <2> QED
    BY <2>1 DEF Mixed, Files!OneCommit
<1>2. CASE Update.pc # "load"
  BY <1>2 DEF FilesInv, Swapped
<1> QED
  BY <1>1, <1>2

LEMMA FailsStep == FilesInv /\ Files!Fails(updater) => FilesInv'
<1> SUFFICES ASSUME FilesInv, Files!Fails(updater) PROVE FilesInv'
  OBVIOUS
<1>1. /\ Update.pc \in {"fetch", "validate", "capture", "compare", "load"} /\ Files!Breaks
      /\ UNCHANGED <<newest, target, catalogue>>
  BY DEF Files!Fails, Update
<1>2. PICK outcome \in {"failed", "interrupted"} :
        /\ Files!Ends(updater, outcome)
        /\ folder' = (folder /\ ~(/\ Files!At(updater, "compare") /\ outcome = "failed"
                                  /\ update[updater].fresh /\ target = Files!NoFiles))
  BY DEF Files!Fails
<1>3. folder' \in BOOLEAN /\ (~folder' => target = Files!NoFiles)
  BY <1>2 DEF FilesInv, Files!TypeOK
<1> QED
  BY <1>1, <1>2, <1>3, OutsideSwaps, OneFaultMore, Ending

LEMMA CrashStep == FilesInv /\ Files!Crash(updater) => FilesInv'
<1> SUFFICES ASSUME FilesInv, Files!Crash(updater) PROVE FilesInv'
  OBVIOUS
<1>1. Files!Breaks /\ Files!Ends(updater, "crashed") /\ UNCHANGED <<newest, folder, target, catalogue>>
  BY DEF Files!Crash
<1> QED
  BY <1>1, OneFaultMore, Ending DEF FilesInv, Files!TypeOK

LEMMA FilesStep == FilesInv /\ [Files!Next]_(Files!vars) => FilesInv'
<1> SUFFICES ASSUME FilesInv, [Files!Next]_(Files!vars) PROVE FilesInv'
  OBVIOUS
<1>1. CASE UNCHANGED Files!vars
  BY <1>1 DEF Files!vars, FilesInv, Files!TypeOK, FilesShapes, Fetched, Swapped, MixedNeedsFaults, Mixed, Update,
     Files!CatalogueIsOneCommit, Files!FailureRestores, Files!MixedIsExplained, Files!CompletedIsItsCommit
<1>2. CASE Files!Next
  BY <1>2, PushStep, ResolveStep, FetchFileStep, ValidateStep, CaptureStep, CompareFilesStep, SwapStep, SwapFailsStep,
     RestoreStep, RestoredStep, RestoreFailsStep, LoadStep, PublishStep, FailsStep, CrashStep
     DEF Files!Next, Files!Work, Files!Faulty
<1> QED
  BY <1>1, <1>2

HIDE FilesHold DEF Files!FilesAssumption, Files!Goes, Files!At

-----------------------------------------------------------------------------

USE MutexHolds DEF Mutex!MutexAssumption

\* BeliefIsOwnership is inductive with the types; RecoveryIsReal needs to know
\* besides that an abandoned object stems from a death not yet reported.
MutexInv ==
  /\ Mutex!TypeOK
  /\ Mutex!BeliefIsOwnership
  /\ abandoned => orphaned

LEMMA MutexInitHolds == Mutex!Init => MutexInv
BY DEF Mutex!Init, MutexInv, Mutex!TypeOK, Mutex!BeliefIsOwnership

LEMMA MutexStep == MutexInv /\ [Mutex!Next]_(Mutex!vars) => MutexInv'
<1> SUFFICES ASSUME MutexInv, [Mutex!Next]_(Mutex!vars) PROVE MutexInv'
  OBVIOUS
<1> USE DEF MutexInv, Mutex!TypeOK, Mutex!BeliefIsOwnership
<1>1. ASSUME NEW p \in Processes, Mutex!Open(p) PROVE MutexInv'
  BY <1>1 DEF Mutex!Open
<1>2. ASSUME NEW p \in Processes, Mutex!Acquire(p) PROVE MutexInv'
  BY <1>2 DEF Mutex!Acquire
<1>3. ASSUME NEW p \in Processes, Mutex!Busy(p) PROVE MutexInv'
  BY <1>3 DEF Mutex!Busy, Mutex!CloseHandle, Mutex!HandleElsewhere
<1>4. ASSUME NEW p \in Processes, Mutex!WaitFails(p) PROVE MutexInv'
  BY <1>4 DEF Mutex!WaitFails, Mutex!CloseHandle, Mutex!HandleElsewhere
<1>5. ASSUME NEW p \in Processes, Mutex!Release(p) PROVE MutexInv'
  BY <1>5 DEF Mutex!Release, Mutex!CloseHandle, Mutex!HandleElsewhere
<1>6. ASSUME NEW p \in Processes, Mutex!Crash(p) PROVE MutexInv'
  BY <1>6 DEF Mutex!Crash, Mutex!CloseHandle, Mutex!HandleElsewhere
<1>7. CASE UNCHANGED Mutex!vars
  BY <1>7 DEF Mutex!vars
<1> QED
  BY <1>1, <1>2, <1>3, <1>4, <1>5, <1>6, <1>7 DEF Mutex!Next

RecoveryStep == \A p \in Processes : recovered'[p] /\ ~recovered[p] => orphaned

LEMMA StepRecoversDeath == MutexInv /\ [Mutex!Next]_(Mutex!vars) => RecoveryStep
<1> SUFFICES ASSUME MutexInv, [Mutex!Next]_(Mutex!vars), NEW o \in Processes,
                    recovered'[o], ~recovered[o]
    PROVE  orphaned
  BY DEF RecoveryStep
<1> USE DEF MutexInv, Mutex!TypeOK
<1>1. ASSUME NEW p \in Processes, Mutex!Acquire(p) PROVE orphaned
  BY <1>1 DEF Mutex!Acquire
<1>2. ASSUME UNCHANGED recovered PROVE orphaned
  BY <1>2
<1>3. ASSUME NEW p \in Processes, Mutex!Busy(p) \/ Mutex!WaitFails(p) \/ Mutex!Release(p) \/ Mutex!Crash(p)
      PROVE  orphaned
  BY <1>3 DEF Mutex!Busy, Mutex!WaitFails, Mutex!Release, Mutex!Crash, Mutex!CloseHandle
<1> QED
  BY <1>1, <1>2, <1>3 DEF Mutex!Next, Mutex!Open, Mutex!vars

HIDE MutexHolds DEF Mutex!MutexAssumption

-----------------------------------------------------------------------------

DatabaseInv == FilesInv /\ MutexInv

LEMMA DatabaseInvariance == DatabaseSpec => []DatabaseInv
<1>1. DatabaseInit => DatabaseInv
  BY FilesInitHolds, MutexInitHolds DEF DatabaseInit, DatabaseInv
<1>2. [DatabaseNext]_database => [Files!Next]_(Files!vars) /\ [Mutex!Next]_(Mutex!vars)
  BY DEF DatabaseNext, OfFiles, database, files, guard, Files!vars, Mutex!vars
<1>3. DatabaseInv /\ [DatabaseNext]_database => DatabaseInv'
  BY <1>2, FilesStep, MutexStep DEF DatabaseInv
<1> QED
  BY <1>1, <1>3, PTL DEF DatabaseSpec

\* The update of the opening files recovers, for any number of files and commits,
\* whatever fails and wherever it dies.
THEOREM FilesStayRecovered == DatabaseSpec => []FilesAreRecovered
<1>1. DatabaseInv => FilesAreRecovered
  BY DEF DatabaseInv, FilesInv, FilesAreRecovered
<1> QED
  BY <1>1, DatabaseInvariance, PTL

\* No two processes are in their engine work at once.
THEOREM MutualExclusion ==
  DatabaseSpec => [](\A p, o \in Processes :
               instance[p] = "owned" /\ instance[o] = "owned" => p = o)
<1>1. DatabaseInv => \A p, o \in Processes :
                    instance[p] = "owned" /\ instance[o] = "owned" => p = o
  BY DEF DatabaseInv, MutexInv, Mutex!BeliefIsOwnership
<1> QED
  BY <1>1, DatabaseInvariance, PTL

\* A recovery is never reported unless an owner died and no acquisition has
\* succeeded since.
THEOREM RecoveriesAreReal == DatabaseSpec => Mutex!RecoveryIsReal
<1>1. DatabaseInv /\ [DatabaseNext]_database => [RecoveryStep]_(Mutex!vars)
  <2>1. [DatabaseNext]_database => [Mutex!Next]_(Mutex!vars)
    BY DEF DatabaseNext, OfFiles, database, guard, Mutex!vars
  <2> QED
    BY <2>1, StepRecoversDeath DEF DatabaseInv
<1> QED
  BY <1>1, DatabaseInvariance, PTL DEF DatabaseSpec, Mutex!RecoveryIsReal, RecoveryStep

\* The mutex is kept by any number of processes.
THEOREM MutexStaysKept == DatabaseSpec => MutexIsKept
<1>1. DatabaseInv => Mutex!TypeOK /\ Mutex!BeliefIsOwnership
  BY DEF DatabaseInv, MutexInv
<1> QED
  BY <1>1, DatabaseInvariance, RecoveriesAreReal, PTL DEF MutexIsKept, Mutex!MutexIsKept

=============================================================================
