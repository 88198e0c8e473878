----------------------------- MODULE GameImport ------------------------------
(***************************************************************************)
(* Import of normalized games (import_normalized_games, GameRepository).   *)
(* Each game is a transaction of its own, in source order; the comparison  *)
(* with what is stored is made before the transaction takes SQLite's write *)
(* lock, in two statements.  Positions are shared by all games; an import  *)
(* remembers the ids it resolved.  Several imports may run at once.        *)
(***************************************************************************)
EXTENDS Integers, FiniteSets, Sequences, SequencesExt, Functions

CONSTANTS
  Games,        \* game uuids
  Versions,     \* what can be known of a game: metadata and moves
  Positions,    \* canonical positions
  Occurrences,  \* Occurrences[v]: the positions of version v by ply
  Importers,
  Batches,      \* source batches: sequences of items
  NoVersion,    \* the game is not stored
  Nobody,
  MaxFaults     \* bound on failures and interrupts

\* What normalization makes of a raw game; a game it skips has no version.
Item == [game : Games, version : Versions \cup {NoVersion}]

ImportAssumption ==
  /\ Occurrences \in [Versions -> Seq(Positions) \ {<< >>}]
  /\ Batches \subseteq Seq(Item)
  /\ NoVersion \notin Versions /\ Nobody \notin Importers
  /\ IsFiniteSet(Positions) /\ MaxFaults \in Nat

VARIABLES
  row,       \* row[g]: the stored version of g (datasource_game)
  occ,       \* occ[g]: the stored position ids of g by ply (derived_game_position)
  ids,       \* ids[p]: the id of position p, 0 when not stored (derived_position)
  lock,      \* the importer in a write transaction
  pending,   \* what the transaction has written, << >> when there is none
  pc, batch, at,
  bulk,      \* bulk[i]: one transaction for the whole batch
  cache,     \* cache[i]: position_cache
  seen,      \* seen[i]: the version the look at datasource_game returned
  imported,  \* imported_count
  others,    \* others[i]: games that others have written since i started
  faults

table == <<row, occ, ids>>
run == <<pc, batch, at, bulk, cache, seen, imported>>
vars == <<table, lock, pending, run, others, faults>>

NoIds == [p \in Positions |-> 0]
Ended == {"completed", "raised", "interrupted"}

-----------------------------------------------------------------------------

Current(i) == batch[i][at[i]]
AtItem(i) == pc[i] = "next" /\ at[i] <= Len(batch[i])
AtGame(i) == AtItem(i) /\ Current(i).version # NoVersion

\* _stored_game_matches, its second statement: the occurrences by ply.
SameOccurrences(g, v) ==
  /\ Len(occ[g]) = Len(Occurrences[v])
  /\ \A k \in DOMAIN occ[g] : ids[Occurrences[v][k]] = occ[g][k]

Stored == {p \in Positions : ids[p] # 0}

\* _resolve: the remembered id, the stored one, or a new one behind all ids.
Resolved(i, v) ==
  LET new == SetToSeq({p \in Range(Occurrences[v]) \ Stored : cache[i][p] = 0})
  IN  [p \in Positions |->
         IF p \notin Range(Occurrences[v]) \/ cache[i][p] # 0 THEN cache[i][p]
         ELSE IF p \in Stored THEN ids[p]
         ELSE Cardinality(Stored) + CHOOSE k \in DOMAIN new : new[k] = p]

\* Slip: a position that is stored is inserted again under a new id.
WrittenAnew(i, g, v) ==
  LET all == SetToSeq(Range(Occurrences[v]))
      fresh == [p \in Range(Occurrences[v]) |-> Cardinality(Stored) + CHOOSE k \in DOMAIN all : all[k] = p]
  IN  [row |-> [row EXCEPT ![g] = v],
       occ |-> [occ EXCEPT ![g] = [k \in DOMAIN Occurrences[v] |-> fresh[Occurrences[v][k]]]],
       ids |-> [p \in Positions |-> IF p \in DOMAIN fresh THEN fresh[p] ELSE ids[p]]]

\* Only what was not remembered is inserted, and only if it is not stored.
Written(i, g, v) ==
  [row |-> [row EXCEPT ![g] = v],
   occ |-> [occ EXCEPT ![g] = [k \in DOMAIN Occurrences[v] |-> Resolved(i, v)[Occurrences[v][k]]]],
   ids |-> [p \in Positions |->
              IF ids[p] = 0 /\ p \in Range(Occurrences[v]) /\ cache[i][p] = 0
                THEN Resolved(i, v)[p] ELSE ids[p]]]

-----------------------------------------------------------------------------

Start(i, b, all) ==
  /\ pc[i] = "off"
  /\ pc' = [pc EXCEPT ![i] = "next"]
  /\ batch' = [batch EXCEPT ![i] = b]
  /\ bulk' = [bulk EXCEPT ![i] = all]
  /\ at' = [at EXCEPT ![i] = 1]
  /\ cache' = [cache EXCEPT ![i] = NoIds]
  /\ imported' = [imported EXCEPT ![i] = 0]
  /\ others' = [others EXCEPT ![i] = {}]
  /\ UNCHANGED <<table, lock, pending, seen, faults>>

\* A game that was not normalized is a warning.
Skip(i) ==
  /\ AtItem(i) /\ Current(i).version = NoVersion
  /\ at' = [at EXCEPT ![i] = @ + 1]
  /\ UNCHANGED <<table, lock, pending, pc, batch, bulk, cache, seen, imported, others, faults>>

\* The first statement of a game: its row.
Look(i) ==
  /\ AtGame(i) /\ ~bulk[i]
  /\ pc' = [pc EXCEPT ![i] = IF row[Current(i).game] = Current(i).version THEN "compare" ELSE "write"]
  /\ seen' = [seen EXCEPT ![i] = row[Current(i).game]]
  /\ UNCHANGED <<table, lock, pending, batch, at, bulk, cache, imported, others, faults>>

Persisted(i) ==
  /\ pc' = [pc EXCEPT ![i] = "next"]
  /\ at' = [at EXCEPT ![i] = @ + 1]
  /\ imported' = [imported EXCEPT ![i] = @ + 1]

\* Slip: a stored game is written again although nothing changed.
CompareNever(i) ==
  /\ pc[i] = "compare"
  /\ pc' = [pc EXCEPT ![i] = "write"]
  /\ UNCHANGED <<table, lock, pending, at, imported, batch, bulk, cache, seen, others, faults>>

\* The second statement: the game is unchanged, or is to be written.
Compare(i) ==
  /\ pc[i] = "compare"
  /\ IF SameOccurrences(Current(i).game, Current(i).version)
       THEN Persisted(i)
       ELSE pc' = [pc EXCEPT ![i] = "write"] /\ UNCHANGED <<at, imported>>
  /\ UNCHANGED <<table, lock, pending, batch, bulk, cache, seen, others, faults>>

\* The INSERT or UPDATE of the game begins the transaction and nobody sees what
\* follows in it; the ids it resolved are remembered before it commits.  A game
\* that another import inserted since the look cannot be inserted again.
Write(i) ==
  /\ pc[i] = "write"
  /\ lock = Nobody
  /\ seen[i] = NoVersion => row[Current(i).game] = NoVersion
  /\ lock' = i
  /\ pending' = Written(i, Current(i).game, Current(i).version)
  /\ cache' = [cache EXCEPT ![i] = Resolved(i, Current(i).version)]
  /\ pc' = [pc EXCEPT ![i] = "commit"]
  /\ UNCHANGED <<table, batch, at, bulk, seen, imported, others, faults>>

Commit(i) ==
  /\ pc[i] = "commit"
  /\ row' = pending.row /\ occ' = pending.occ /\ ids' = pending.ids
  /\ lock' = Nobody /\ pending' = << >>
  /\ others' = [j \in Importers |-> IF j = i THEN others[j] ELSE others[j] \cup {Current(i).game}]
  /\ Persisted(i)
  /\ UNCHANGED <<batch, bulk, cache, seen, faults>>

\* Slip: an import that stops keeps its transaction.
RollbackNot(i) == UNCHANGED <<lock, pending>>

Rollback(i) ==
  IF lock = i THEN lock' = Nobody /\ pending' = << >> ELSE UNCHANGED <<lock, pending>>

\* The write lock is not free within the timeout, or the game was inserted by another.
Conflict(i) ==
  \/ lock \notin {Nobody, i}
  \/ pc[i] = "write" /\ seen[i] = NoVersion /\ row[Current(i).game] # NoVersion

\* Slip: the import goes on with the next game, the remembered ids in hand.
FailGoesOn(i) ==
  /\ (AtGame(i) /\ ~bulk[i]) \/ pc[i] \in {"compare", "write", "commit"}
  /\ faults' = IF Conflict(i) THEN faults ELSE faults + 1
  /\ faults' <= MaxFaults
  /\ Rollback(i)
  /\ pc' = [pc EXCEPT ![i] = "next"]
  /\ at' = [at EXCEPT ![i] = @ + 1]
  /\ UNCHANGED <<table, batch, bulk, cache, seen, imported, others>>

\* A statement fails and the import stops.  The handler would return the failure
\* as a result, but persistence_import.py does not know the name ImportFailure.
Fail(i) ==
  /\ (AtGame(i) /\ ~bulk[i]) \/ pc[i] \in {"compare", "write", "commit"}
  /\ faults' = IF Conflict(i) THEN faults ELSE faults + 1
  /\ faults' <= MaxFaults
  /\ Rollback(i)
  /\ pc' = [pc EXCEPT ![i] = "raised"]
  /\ UNCHANGED <<table, batch, at, bulk, cache, seen, imported, others>>

\* The bulk import opens its transaction at the first normalized game and asks for
\* chain, another name the module does not know; nothing was written.
Bulk(i) ==
  /\ AtGame(i) /\ bulk[i]
  /\ pc' = [pc EXCEPT ![i] = "raised"]
  /\ UNCHANGED <<table, lock, pending, batch, at, bulk, cache, seen, imported, others, faults>>

\* KeyboardInterrupt, or the end of the process.
Interrupt(i) ==
  /\ pc[i] \notin Ended \cup {"off"}
  /\ faults < MaxFaults /\ faults' = faults + 1
  /\ Rollback(i)
  /\ pc' = [pc EXCEPT ![i] = "interrupted"]
  /\ UNCHANGED <<table, batch, at, bulk, cache, seen, imported, others>>

Complete(i) ==
  /\ pc[i] = "next" /\ at[i] > Len(batch[i])
  /\ pc' = [pc EXCEPT ![i] = "completed"]
  /\ UNCHANGED <<table, lock, pending, batch, at, bulk, cache, seen, imported, others, faults>>

End(i) ==
  /\ pc[i] \in Ended
  /\ pc' = [pc EXCEPT ![i] = "off"]
  /\ UNCHANGED <<table, lock, pending, batch, at, bulk, cache, seen, imported, others, faults>>

Init ==
  /\ row = [g \in Games |-> NoVersion]
  /\ occ = [g \in Games |-> << >>]
  /\ ids = NoIds
  /\ lock = Nobody /\ pending = << >>
  /\ pc = [i \in Importers |-> "off"]
  /\ batch = [i \in Importers |-> << >>]
  /\ at = [i \in Importers |-> 1]
  /\ bulk = [i \in Importers |-> FALSE]
  /\ cache = [i \in Importers |-> NoIds]
  /\ seen = [i \in Importers |-> NoVersion]
  /\ imported = [i \in Importers |-> 0]
  /\ others = [i \in Importers |-> {}] /\ faults = 0

Next ==
  \E i \in Importers :
    \/ \E b \in Batches, all \in BOOLEAN : Start(i, b, all)
    \/ Skip(i) \/ Look(i) \/ Compare(i) \/ Write(i) \/ Commit(i)
    \/ Bulk(i) \/ Fail(i) \/ Interrupt(i) \/ Complete(i) \/ End(i)

Spec == Init /\ [][Next]_vars

-----------------------------------------------------------------------------

TypeOK ==
  /\ row \in [Games -> Versions \cup {NoVersion}]
  /\ occ \in [Games -> Seq(Nat \ {0})]
  /\ ids \in [Positions -> 0 .. Cardinality(Positions)]
  /\ lock \in Importers \cup {Nobody}
  /\ lock = Nobody <=> pending = << >>
  /\ \A i \in Importers :
       /\ pc[i] \in {"off", "next", "compare", "write", "commit"} \cup Ended
       /\ pc[i] = "commit" <=> lock = i
       /\ imported[i] \in 0 .. Len(batch[i]) /\ others[i] \subseteq Games
       /\ cache[i] \in [Positions -> 0 .. Cardinality(Positions)]

\* Every stored game holds, ply by ply, the positions of its stored version: no id
\* of an import's memory ever stands for another position (repository.py:138-205).
OccurrencesFaithful ==
  \A g \in Games : row[g] # NoVersion => SameOccurrences(g, row[g])

\* The id of a position is its own and never changes (repository.py:119).
IdsAreStable ==
  [][\A p \in Stored : ids'[p] = ids[p] /\ \A q \in Positions \ {p} : ids'[q] # ids'[p]]_vars

\* What an import is done with is stored, as the version it brought unless another
\* import has written the game meanwhile (persistence_import.py:19).
ImportedIsStored ==
  \A i \in Importers : pc[i] # "off" =>
    \A k \in DOMAIN batch[i] :
      LET item == batch[i][k]
      IN  k < at[i] /\ item.version # NoVersion =>
            \/ \E l \in k + 1 .. at[i] - 1 :
                 batch[i][l].game = item.game /\ batch[i][l].version # NoVersion
            \/ row[item.game] = item.version
            \/ row[item.game] # NoVersion /\ item.game \in others[i]

\* An unchanged game is not written again, unless another import has written it
\* since this one started (persistence_repository.py:164).
OnlyChangesAreWritten ==
  [][\A i \in Importers :
       pc[i] = "commit" /\ pc'[i] = "next" /\ pending.row = row =>
         Current(i).game \in others[i]]_vars

\* An import that a failure stops says so in its result (persistence_import.py:140).
FailureIsReported == \A i \in Importers : ~bulk[i] => pc[i] # "raised"

\* A bulk import that nothing disturbs completes (persistence_import.py:125).
BulkCompletes == faults = 0 => \A i \in Importers : bulk[i] => pc[i] # "raised"
=============================================================================
