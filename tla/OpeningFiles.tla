---------------------------- MODULE OpeningFiles ----------------------------
(***************************************************************************)
(* update_openings: the opening source files of one commit are fetched     *)
(* into a staging directory and validated, swapped one by one into the     *)
(* source directory with rollback, and the directory is then read and      *)
(* published as the catalogue of the database.  Nothing keeps two updates  *)
(* apart.                                                                  *)
(***************************************************************************)
EXTENDS Naturals, FiniteSets

CONSTANTS
  Updaters,    \* the processes that run update_openings
  FileCount,   \* how many source files there are
  LastCommit,  \* bound: the commits are 1..LastCommit
  Content,     \* Content[c][f]: what file f is in commit c
  Rejected,    \* contents that load_opening_sources does not accept
  NoFile, NoCatalogue,
  MaxFaults    \* bound: failed operations, interrupts and crashes

FilesAssumption ==
  /\ FileCount \in Nat \ {0} /\ LastCommit \in Nat \ {0} /\ MaxFaults \in Nat
  /\ DOMAIN Content = 1..LastCommit
  /\ \A c \in 1..LastCommit :
       /\ Content[c] = [f \in 1..FileCount |-> Content[c][f]]
       /\ NoFile \notin {Content[c][f] : f \in 1..FileCount}

VARIABLES
  newest,     \* the head of the default branch
  folder,     \* whether the source directory exists
  target,     \* target[f]: the content of file f in it, or NoFile
  catalogue,  \* the contents the stored catalogue was made from
  update,     \* update[u]: what the process u is doing
  told,       \* told[u]: how its last update ended
  faults

vars == <<newest, folder, target, catalogue, update, told, faults>>

-----------------------------------------------------------------------------

Files == 1..FileCount
Commits == 1..LastCommit

NoFiles == [f \in Files |-> NoFile]

Valid(c) == \A f \in Files : Content[c][f] \notin Rejected

\* Bare is between updates; entry is what the directory held at the start.
Bare == [pc |-> "idle", commit |-> 0, at |-> 1, staged |-> NoFiles, prior |-> NoFiles,
         fresh |-> FALSE, entry |-> NoFiles, why |-> "none", read |-> NoFiles]

At(u, pc) == update[u].pc = pc

Goes(u, pc) == update' = [update EXCEPT ![u].pc = pc]

\* The update is over and the staging directory removed.
Ends(u, outcome) ==
  /\ update' = [update EXCEPT ![u] = [Bare EXCEPT !.entry = update[u].entry,
                                                  !.commit = update[u].commit]]
  /\ told' = [told EXCEPT ![u] = outcome]

Breaks == faults < MaxFaults /\ faults' = faults + 1

-----------------------------------------------------------------------------

\* Commits are pushed.
Push ==
  /\ newest < LastCommit /\ newest' = newest + 1
  /\ UNCHANGED <<folder, target, catalogue, update, told, faults>>

\* The head of the branch is asked for and the staging directory made.
Resolve(u) ==
  /\ At(u, "idle")
  /\ update' = [update EXCEPT ![u] = [Bare EXCEPT !.pc = "fetch", !.commit = newest,
                                                  !.entry = target]]
  /\ told' = [told EXCEPT ![u] = "running"]
  /\ UNCHANGED <<newest, folder, target, catalogue, faults>>

\* Slip: files are fetched from the branch and not from the commit.
FetchNewest(u) ==
  LET f == update[u].at
  IN  /\ At(u, "fetch")
      /\ update' = [update EXCEPT ![u].staged[f] = Content[newest][f],
                                  ![u].at = IF f = FileCount THEN 1 ELSE f + 1,
                                  ![u].pc = IF f = FileCount THEN "validate" ELSE "fetch"]
      /\ UNCHANGED <<newest, folder, target, catalogue, told, faults>>

Fetch(u) ==
  LET f == update[u].at
  IN  /\ At(u, "fetch")
      /\ update' = [update EXCEPT ![u].staged[f] = Content[update[u].commit][f],
                                  ![u].at = IF f = FileCount THEN 1 ELSE f + 1,
                                  ![u].pc = IF f = FileCount THEN "validate" ELSE "fetch"]
      /\ UNCHANGED <<newest, folder, target, catalogue, told, faults>>

\* Slip: the directory is read only when it is published.
ValidateLater(u) ==
  /\ At(u, "validate")
  /\ Goes(u, "capture")
  /\ UNCHANGED <<newest, folder, target, catalogue, told, faults>>

\* load_opening_sources on the staging directory.
Validate(u) ==
  /\ At(u, "validate")
  /\ IF \A f \in Files : update[u].staged[f] \notin Rejected
       THEN Goes(u, "capture") /\ UNCHANGED told
       ELSE Ends(u, "failed")
  /\ UNCHANGED <<newest, folder, target, catalogue, faults>>

\* What is there is kept in memory, and a directory that is absent is made.
Capture(u) ==
  /\ At(u, "capture")
  /\ update' = [update EXCEPT ![u].pc = "compare", ![u].prior = target, ![u].fresh = ~folder]
  /\ folder' = TRUE
  /\ UNCHANGED <<newest, target, catalogue, told, faults>>

\* Slip: nothing is swapped when every file is there.
CompareExists(u) ==
  /\ At(u, "compare")
  /\ Goes(u, IF \A f \in Files : target[f] # NoFile THEN "load" ELSE "swap")
  /\ UNCHANGED <<newest, folder, target, catalogue, told, faults>>

\* Nothing is swapped when every file is as it should be.
Compare(u) ==
  /\ At(u, "compare")
  /\ Goes(u, IF target = update[u].staged THEN "load" ELSE "swap")
  /\ UNCHANGED <<newest, folder, target, catalogue, told, faults>>

\* Slip: a file that is there is kept.
SwapMissing(u) ==
  LET f == update[u].at
  IN  /\ At(u, "swap") /\ folder
      /\ target' = [target EXCEPT ![f] = IF @ = NoFile THEN update[u].staged[f] ELSE @]
      /\ update' = [update EXCEPT ![u].at = IF f = FileCount THEN 1 ELSE f + 1,
                                  ![u].pc = IF f = FileCount THEN "load" ELSE "swap"]
      /\ UNCHANGED <<newest, folder, catalogue, told, faults>>

\* One file is replaced, atomically.
Swap(u) ==
  LET f == update[u].at
  IN  /\ At(u, "swap") /\ folder
      /\ target' = [target EXCEPT ![f] = update[u].staged[f]]
      /\ update' = [update EXCEPT ![u].at = IF f = FileCount THEN 1 ELSE f + 1,
                                  ![u].pc = IF f = FileCount THEN "load" ELSE "swap"]
      /\ UNCHANGED <<newest, folder, catalogue, told, faults>>

\* Slip: nothing is put back.
SwapFailsOnly(u) ==
  /\ At(u, "swap")
  /\ \E why \in {"failed", "interrupted"} :
       /\ (folder => Breaks) /\ (~folder => why = "failed" /\ UNCHANGED faults)
       /\ Ends(u, why)
  /\ UNCHANGED <<newest, folder, target, catalogue>>

\* A swap fails - for sure when the directory has been taken away - or is
\* interrupted, and what was captured is to be put back.
SwapFails(u) ==
  /\ At(u, "swap")
  /\ \E why \in {"failed", "interrupted"} :
       /\ (folder => Breaks) /\ (~folder => why = "failed" /\ UNCHANGED faults)
       /\ update' = [update EXCEPT ![u].pc = "restore", ![u].at = 1, ![u].why = why]
  /\ UNCHANGED <<newest, folder, target, catalogue, told>>

\* Slip: only the files that were there are put back.
RestoreExisting(u) ==
  LET f == update[u].at
      prior == update[u].prior[f]
  IN  /\ At(u, "restore") /\ f <= FileCount
      /\ folder \/ prior = NoFile
      /\ target' = [target EXCEPT ![f] = IF prior = NoFile THEN @ ELSE prior]
      /\ update' = [update EXCEPT ![u].at = f + 1]
      /\ UNCHANGED <<newest, folder, catalogue, told, faults>>

\* _restore_prior_state, file by file: content put back, new files removed.
Restore(u) ==
  LET f == update[u].at
      prior == update[u].prior[f]
  IN  /\ At(u, "restore") /\ f <= FileCount
      /\ folder \/ prior = NoFile
      /\ target' = [target EXCEPT ![f] = prior]
      /\ update' = [update EXCEPT ![u].at = f + 1]
      /\ UNCHANGED <<newest, folder, catalogue, told, faults>>

\* A directory made for the update is removed if it can be.
Restored(u) ==
  /\ At(u, "restore") /\ update[u].at > FileCount
  /\ IF update[u].fresh /\ folder /\ target # NoFiles
       THEN Ends(u, "rollback") /\ UNCHANGED folder
       ELSE /\ folder' = (folder /\ ~update[u].fresh)
            /\ Ends(u, update[u].why)
  /\ UNCHANGED <<newest, target, catalogue, faults>>

\* Putting back fails, which is told, or is interrupted, which looks like any other
\* interrupt; the rest is left as it is, which is a cut unless nothing is left but
\* the directory.
RestoreFails(u) ==
  /\ At(u, "restore")
  /\ \/ /\ IF ~folder /\ update[u].at <= FileCount
             THEN update[u].prior[update[u].at] # NoFile /\ UNCHANGED faults
             ELSE Breaks
        /\ Ends(u, "rollback")
     \/ Breaks /\ Ends(u, IF update[u].at <= FileCount THEN "cut" ELSE "interrupted")
  /\ UNCHANGED <<newest, folder, target, catalogue>>

\* load_opening_sources on the source directory reads one file at a time.
Load(u) ==
  LET f == update[u].at
  IN  /\ At(u, "load") /\ f <= FileCount
      /\ IF target[f] \in Rejected \cup {NoFile}
           THEN Ends(u, "failed")
           ELSE /\ update' = [update EXCEPT ![u].read[f] = target[f], ![u].at = f + 1]
                /\ UNCHANGED told
      /\ UNCHANGED <<newest, folder, target, catalogue, faults>>

\* The repository replaces the catalogue in one transaction.
Publish(u) ==
  /\ At(u, "load") /\ update[u].at > FileCount
  /\ catalogue' = update[u].read
  /\ Ends(u, "completed")
  /\ UNCHANGED <<newest, folder, target, faults>>

\* A request, a read or a transaction fails, or KeyboardInterrupt comes.
Fails(u) ==
  /\ \E pc \in {"fetch", "validate", "capture", "compare", "load"} : At(u, pc)
  /\ Breaks
  /\ \E outcome \in {"failed", "interrupted"} :
       /\ Ends(u, outcome)
       /\ folder' = (folder /\ ~(/\ At(u, "compare") /\ outcome = "failed"
                                 /\ update[u].fresh /\ target = NoFiles))
  /\ UNCHANGED <<newest, target, catalogue>>

\* The process dies; its staging directory and a temporary file stay behind.
Crash(u) ==
  /\ ~At(u, "idle")
  /\ Breaks
  /\ Ends(u, "crashed")
  /\ UNCHANGED <<newest, folder, target, catalogue>>

-----------------------------------------------------------------------------

Init ==
  /\ newest = 1
  /\ \/ folder = FALSE /\ target = NoFiles
     \/ folder = TRUE /\ (target = NoFiles \/ (Valid(1) /\ target = Content[1]))
  /\ catalogue = NoCatalogue \/ (Valid(1) /\ catalogue = Content[1])
  /\ update = [u \in Updaters |-> Bare]
  /\ told = [u \in Updaters |-> "none"]
  /\ faults = 0

Work(u) ==
  \/ Fetch(u) \/ Validate(u) \/ Capture(u) \/ Compare(u) \/ Swap(u)
  \/ Restore(u) \/ Restored(u) \/ Load(u) \/ Publish(u)

Faulty(u) == SwapFails(u) \/ RestoreFails(u) \/ Fails(u) \/ Crash(u)

Next == Push \/ \E u \in Updaters : Resolve(u) \/ Work(u) \/ Faulty(u)

Spec == Init /\ [][Next]_vars

\* Updates are run again and again, and one that runs is not left alone.
FairSpec == Spec /\ \A u \in Updaters : WF_vars(Resolve(u)) /\ WF_vars(Work(u))

-----------------------------------------------------------------------------

Known == UNION {{Content[c][f] : f \in Files} : c \in Commits}

OneCommit(contents) == \E c \in Commits : contents = Content[c]

TypeOK ==
  /\ newest \in Commits /\ folder \in BOOLEAN /\ faults \in 0..MaxFaults
  /\ \A f \in Files : target[f] \in (Known \ Rejected) \cup {NoFile}
  /\ catalogue = NoCatalogue \/ \A f \in Files : catalogue[f] \in Known \ Rejected
  /\ \A u \in Updaters : update[u].commit \in 0..LastCommit /\ update[u].at \in 1..(FileCount + 1)
  /\ ~folder => target = NoFiles

\* The stored catalogue is at any time that of one commit as a whole,
\* whatever failed, was interrupted or crashed before: update_openings
\* publishes one complete catalogue.
CatalogueIsOneCommit == catalogue = NoCatalogue \/ OneCommit(catalogue)

\* An update that fails, or that is interrupted but not while it puts files back, and
\* says nothing of its rollback leaves in the directory, up to the swaps, exactly the
\* files it found.
FailureRestores ==
  \A u \in Updaters :
    At(u, "idle") /\ told[u] \in {"failed", "interrupted"}
      => target = update[u].entry \/ target = Content[update[u].commit]

\* Between updates files of two commits, or a part of one, stand in the directory
\* only after a crash, a rollback that was reported to have failed, or a second fault
\* at least, an interrupt of the rollback; and never after an update that completed
\* or failed otherwise in a directory that was whole before.
MixedIsExplained ==
  (\A u \in Updaters : At(u, "idle")) /\ target # NoFiles /\ ~OneCommit(target)
    => /\ faults > 0
       /\ \A u \in Updaters :
            \/ told[u] \in {"crashed", "rollback"}
            \/ told[u] = "cut" /\ faults > 1
            \/ update[u].entry # NoFiles /\ ~OneCommit(update[u].entry)

\* A completed update leaves the directory and the catalogue at the commit it
\* resolved, though the branch may have moved on while it ran.
CompletedIsItsCommit ==
  \A u \in Updaters :
    At(u, "idle") /\ told[u] = "completed"
      => target = Content[update[u].commit] /\ catalogue = target

\* A mixed directory is repaired by running the update again, unless the
\* newest commit is one that is not accepted.
RerunRepairs ==
  ~OneCommit(target) ~> OneCommit(target) \/ ~Valid(newest)
=============================================================================
