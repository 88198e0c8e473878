----------------------------- MODULE GameLibrary -----------------------------
(***************************************************************************)
(* How games come to the disk and to the database: the ledger of raw       *)
(* months (GameLedger) and the import of games (GameImport).  The ledger   *)
(* takes the import of a month for one step, so each behaviour is of one   *)
(* of them.                                                                *)
(***************************************************************************)
EXTENDS GameImport

CONSTANTS LastMonth, MaxVersion, MaxMishaps, NoFile, NoDatabase, NotAsked, Blank   \* see GameLedger

VARIABLES
  part,   \* whose behaviour it is
  clock, remote, file, db, half, creation, early, taken, left, step, op, created, current,
  discovered, due, tail, told, published, failed, mishaps   \* see GameLedger

ledger == <<clock, remote, file, db, half, creation, early, taken, left, step, op, created, current,
            discovered, due, tail, told, published, failed, mishaps>>
library == <<part, vars, ledger>>

Ledger == INSTANCE GameLedger WITH MaxFaults <- MaxMishaps, pc <- step, faults <- mishaps

ASSUME ImportHolds == ImportAssumption
ASSUME LedgerHolds == Ledger!LedgerAssumption

LibraryInit == Init /\ Ledger!Init /\ part \in {"ledger", "race", "import"}

OfLedger(p, A) == part = p /\ A /\ UNCHANGED <<part, vars>>

\* For a smaller instance either schema create runs only where no database is and no
\* command runs, or there is but the first month in its first version.
Alone(A) == OfLedger("ledger", A /\ (creation'["schema"] # Ledger!Off => step' = "off" /\ ~Ledger!Complete'))
Racing(A) == OfLedger("race", UNCHANGED <<clock, remote>> /\ A)

LibraryNext ==
  \/ part = "import" /\ Next /\ UNCHANGED <<part, ledger>>
  \/ Alone(Ledger!Next) \/ Racing(Ledger!Next)

LibrarySpec == LibraryInit /\ [][LibraryNext]_library

\* The fairness of GameLedger.
FairLibrarySpec ==
  /\ LibrarySpec
  /\ WF_library(Alone(Ledger!Work)) /\ WF_library(Alone(Ledger!StartUpdate))
  /\ WF_library(Racing(Ledger!Work)) /\ WF_library(Racing(Ledger!StartUpdate))

-----------------------------------------------------------------------------

\* A database that is half made stays only after a crash or an interrupt, or a
\* removal that failed and was told of; and an update that reports success was
\* answered for every month listed from the newest saved one on, and has saved and
\* imported what it was told (lifecycle.py:142, update in lifecycle.py:165).
LedgerIsSound == Ledger!TypeOK /\ Ledger!HalfIsExplained /\ Ledger!SuccessCoversTail

\* Two imports at once store games faithfully: every stored game holds, ply by ply,
\* the positions of its version, for no id in an import's memory ever stands for
\* another position (repository.py:138), and what an import has done is stored as
\* the version it brought unless another has written the game meanwhile.
ImportIsFaithful ==
  /\ TypeOK
  /\ OccurrencesFaithful
  /\ ImportedIsStored

\* Nothing stored is lost: a month that was saved stays in the ledger; a database is
\* removed only by the set-up that made it, or by the failing of a creation that was
\* under way when it was completed, never by a call that came after; the id of a
\* position never changes (repository.py:119), and a game is written again only if it
\* has changed (persistence_repository.py:164).
NothingIsLost ==
  /\ Ledger!SavedNeverLost
  /\ Ledger!OnlyOwnIsRemoved
  /\ IdsAreStable
  /\ OnlyChangesAreWritten

\* With updates run again and again the newest month comes to be up to date.
TailCatchesUp == Ledger!TailCatchesUp

=============================================================================
