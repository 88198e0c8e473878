------------------------------- MODULE Database -------------------------------
(***************************************************************************)
(* What guards and fills the shared database: the mutex of its engine      *)
(* programs (DatabaseMutex) and the update of the opening sources          *)
(* (OpeningFiles).  The update does not take the mutex, so each behaviour  *)
(* is of one of them.                                                      *)
(***************************************************************************)
EXTENDS Integers

CONSTANTS
  Processes, NoProcess,   \* see DatabaseMutex
  updater, FileCount, LastCommit, Content, Rejected, NoContent, NoCatalogue, MaxFailures
                          \* see OpeningFiles; one process updates the files

VARIABLES
  branch,   \* whose behaviour it is
  instance, recovered, owner, abandoned, orphaned,   \* see DatabaseMutex
  newest, folder, target, catalogue, update, ended, failures   \* see OpeningFiles

guard == <<instance, recovered, owner, abandoned, orphaned>>
files == <<newest, folder, target, catalogue, update, ended, failures>>
database == <<branch, guard, files>>

Mutex == INSTANCE DatabaseMutex

Files == INSTANCE OpeningFiles WITH
  Updaters <- {updater}, NoFile <- NoContent, MaxFaults <- MaxFailures, told <- ended, faults <- failures

ASSUME MutexHolds == Mutex!MutexAssumption
ASSUME FilesHold == Files!FilesAssumption

-----------------------------------------------------------------------------

DatabaseInit ==
  /\ Mutex!Init /\ Files!Init
  /\ branch \in {"mutex", "files"}
  /\ branch # "files" => ~folder /\ catalogue = NoCatalogue

OfFiles(A) == branch = "files" /\ A /\ UNCHANGED <<branch, guard>>

DatabaseNext ==
  \/ branch = "mutex" /\ Mutex!Next /\ UNCHANGED <<branch, files>>
  \/ OfFiles(Files!Next)

DatabaseSpec == DatabaseInit /\ [][DatabaseNext]_database

\* The fairness of OpeningFiles.
FairDatabaseSpec ==
  /\ DatabaseSpec
  /\ WF_database(OfFiles(Files!Resolve(updater))) /\ WF_database(OfFiles(Files!Work(updater)))

-----------------------------------------------------------------------------

\* Who believes to own the mutex owns it, deaths included, and the abandoned flag
\* speaks of the acquisition at hand (mutex.py:98).
MutexIsKept == Mutex!MutexIsKept

\* The opening sources and the catalogue through failures, interrupts and crashes:
\* the stored catalogue is that of one commit as a whole; an update that fails, or is
\* interrupted once, and says nothing of its rollback leaves the files it found
\* (acquisition.py:320); files of two commits stand there only after a fault that was
\* reported or fatal, or an interrupt of the rollback from another; and a completed
\* update is of the commit it resolved (acquisition.py:202).
FilesAreRecovered ==
  /\ Files!TypeOK
  /\ Files!CatalogueIsOneCommit
  /\ Files!FailureRestores
  /\ Files!MixedIsExplained
  /\ Files!CompletedIsItsCommit

\* A mixed directory is repaired by running the update again, unless the newest
\* commit is one that is not accepted.
RerunRepairs == branch = "files" => Files!RerunRepairs

=============================================================================
