----------------------------- MODULE GameLedger ------------------------------
(***************************************************************************)
(* The commands that bring games into the database: set-up, update and     *)
(* schema creation.  Chess.com lists months and answers with the games of  *)
(* one; each month is saved as a file, which is the ledger of the updates; *)
(* files are imported into the database.  What a month holds is a version: *)
(* 0 is no game, and a higher version adds to and corrects the lower ones. *)
(* Set-up and schema creation make the database by create_schema, which    *)
(* tests, opens and undoes in steps of its own.                            *)
(***************************************************************************)
EXTENDS Integers, FiniteSetsExt

CONSTANTS
  LastMonth,    \* months are 1 .. LastMonth
  MaxVersion,   \* bound on additions to a month
  MaxFaults,    \* bound on failing steps, short answers, interrupts and crashes
  NoFile, NoDatabase, NotAsked,
  Blank         \* a database file without the schema

Months == 1 .. LastMonth
Editions == 0 .. MaxVersion

LedgerAssumption ==
  /\ LastMonth \in Nat \ {0} /\ MaxVersion \in Nat \ {0} /\ MaxFaults \in Nat
  /\ {NoFile, NotAsked} \cap Int = {}
  /\ NoDatabase # Blank /\ {NoDatabase, Blank} \cap [Months -> Editions] = {}

VARIABLES
  clock,      \* the month it is
  remote,     \* remote[m]: what Chess.com holds of m; it lists the months with games
  file,       \* file[m]: the raw month file
  db,         \* the database: the version of each month that is imported
  half,       \* the database is one that set-up made and has not finished
  creation,   \* creation[w]: the call of create_schema by set-up or by schema create
  early,      \* whose calls were under way when the database was completed
  taken,      \* a failing call took a complete database away while the command ran
  left,       \* why a database that is half made stayed
  pc, op,
  created,    \* created_by_setup
  current,    \* the month it was when the archive was discovered
  discovered, \* listed months the command has to ask for
  due,        \* those still to do
  tail,       \* the newest saved month when an update began
  told,       \* told[m]: the answer for m in this command
  published,  \* published_months, still to import
  failed,     \* whether the command has noted a failure
  faults

world == <<clock, remote>>
base == <<db, half, creation, early, taken, left>>
disk == <<file, base>>
plan == <<current, discovered, due, tail, told, published, failed>>
command == <<pc, op, created, plan>>
vars == <<world, disk, command, faults>>

Makers == {"setup", "schema"}
Complete == db \notin {NoDatabase, Blank}
Listed == {m \in Months : remote[m] > 0}
Saved == {m \in Months : file[m] # NoFile}
NoAnswers == [m \in Months |-> NotAsked]
Empty == [m \in Months |-> 0]
Off == [at |-> "off", existed |-> FALSE]
Ends == {"off", "success", "failure"}

Fault == faults < MaxFaults /\ faults' = faults + 1

-----------------------------------------------------------------------------
(* The world *)

Tick ==
  /\ clock < LastMonth
  /\ clock' = clock + 1
  /\ UNCHANGED <<remote, disk, command, faults>>

Play(m) ==
  /\ m <= clock /\ remote[m] < MaxVersion
  /\ remote' = [remote EXCEPT ![m] = @ + 1]
  /\ UNCHANGED <<clock, disk, command, faults>>

-----------------------------------------------------------------------------
(* Set-up and update *)

Begin(name, step) ==
  /\ pc = "off"
  /\ op' = name /\ pc' = step
  /\ created' = FALSE /\ taken' = FALSE
  /\ told' = NoAnswers /\ discovered' = {} /\ due' = {} /\ published' = {} /\ failed' = FALSE
  /\ UNCHANGED <<world, file, db, half, creation, early, left, current, tail, faults>>

\* Set-up looks whether the database exists, and refuses or goes on to create it.
StartSetup == db = NoDatabase /\ Begin("setup", "create")
StartUpdate == Begin("update", "discover")

\* Sidecars left beside the database that is not there cannot be removed.
SidecarsStay ==
  /\ pc = "create" /\ creation["setup"] = Off /\ Fault
  /\ pc' = "failure"
  /\ UNCHANGED <<world, disk, op, created, plan>>

-----------------------------------------------------------------------------
(* create_schema, called by set-up or by schema create in another process. *)

\* What a call is to set-up: it is made once, its end is the next step.
Calls(w, step, mine) ==
  IF w = "setup" THEN pc = "create" /\ pc' = step /\ created' = mine
                 ELSE UNCHANGED <<pc, created>>

\* Slip: the existence of the file is not asked for.
TestNothing(w) ==
  /\ creation[w] = Off
  /\ creation' = [creation EXCEPT ![w] = [at |-> "tested", existed |-> FALSE]]
  /\ Calls(w, "create", FALSE)
  /\ UNCHANGED <<world, file, db, half, early, taken, left, op, plan, faults>>

Test(w) ==
  /\ creation[w] = Off
  /\ creation' = [creation EXCEPT ![w] = [at |-> "tested", existed |-> db # NoDatabase]]
  /\ Calls(w, "create", FALSE)
  /\ UNCHANGED <<world, file, db, half, early, taken, left, op, plan, faults>>

\* Slip: set-up takes a database that appeared meanwhile for its own.
OpenAnyway(w) ==
  /\ creation[w].at = "tested"
  /\ IF Complete
       THEN /\ creation' = [creation EXCEPT ![w] = Off]
            /\ Calls(w, "discover", TRUE)
            /\ early' = early \ {w} /\ UNCHANGED db
       ELSE /\ creation' = [creation EXCEPT ![w].at = "empty"]
            /\ Calls(w, "create", FALSE)
            /\ db' = Blank /\ UNCHANGED early
  /\ UNCHANGED <<world, file, half, taken, left, op, plan, faults>>

\* A file that is not there comes to be by opening it; one without the schema is
\* read, one with it is left alone, which set-up takes for a failure.
Open(w) ==
  /\ creation[w].at = "tested"
  /\ IF Complete
       THEN /\ creation' = [creation EXCEPT ![w] = Off]
            /\ Calls(w, "failure", FALSE)
            /\ early' = early \ {w} /\ UNCHANGED db
       ELSE /\ creation' = [creation EXCEPT ![w].at = "empty"]
            /\ Calls(w, "create", FALSE)
            /\ db' = Blank /\ UNCHANGED early
  /\ UNCHANGED <<world, file, half, taken, left, op, plan, faults>>

\* The schema comes to the file that was opened ...
Completed(w) ==
  /\ creation[w].at = "empty" /\ db = Blank
  /\ creation' = [creation EXCEPT ![w] = Off]
  /\ db' = Empty /\ half' = (w = "setup")
  /\ early' = {v \in Makers : creation'[v] # Off}

Create(w) ==
  /\ Completed(w)
  /\ Calls(w, "discover", TRUE)
  /\ left' = "no"
  /\ UNCHANGED <<world, file, taken, op, plan, faults>>

\* ... or to one that has been removed meanwhile, and is gone with it.
CreateNowhere(w) ==
  /\ creation[w].at = "nowhere"
  /\ creation' = [creation EXCEPT ![w] = Off]
  /\ Calls(w, "discover", TRUE)
  /\ taken' = TRUE
  /\ UNCHANGED <<world, file, db, half, early, left, op, plan, faults>>

\* Who has a file open when it is removed is left with one that is nowhere.
Unlinked(calls) ==
  [w \in Makers |->
     IF calls[w].at = "empty" THEN [calls[w] EXCEPT !.at = "nowhere"] ELSE calls[w]]

\* A call that fails removes the file if there was none at its test - unless the
\* system refuses to, another having it open - or puts the blank one back.
Undo(w) ==
  /\ db' \in IF ~creation[w].existed THEN {NoDatabase, db}
             ELSE IF creation[w].at = "tested" THEN {db}
             ELSE {Blank}
  /\ LET others == [creation EXCEPT ![w] = Off]
     IN  creation' = IF db' = NoDatabase THEN Unlinked(others) ELSE others
  /\ IF Complete /\ db' # db
       THEN half' = FALSE /\ taken' = TRUE /\ early' = {}
       ELSE UNCHANGED <<half, taken>> /\ early' = early \ {w}

\* Any error; or the schema is there by now.
CreateFails(w) ==
  /\ \/ creation[w] # Off /\ Fault
     \/ creation[w].at = "empty" /\ Complete /\ UNCHANGED faults
  /\ Undo(w)
  /\ Calls(w, "failure", FALSE)
  /\ UNCHANGED <<world, file, left, op, plan>>

\* The process of schema create is killed.
SchemaDies ==
  /\ creation["schema"] # Off /\ Fault
  /\ creation' = [creation EXCEPT !["schema"] = Off] /\ early' = early \ {"schema"}
  /\ UNCHANGED <<world, file, db, half, taken, left, command>>

Creates(w) == Test(w) \/ Open(w) \/ Create(w) \/ CreateNowhere(w) \/ CreateFails(w)

-----------------------------------------------------------------------------
(* Set-up and update, with a database *)

Removed ==
  /\ db' = NoDatabase /\ half' = FALSE /\ creation' = Unlinked(creation)
  /\ early' = IF Complete THEN {} ELSE early
  /\ UNCHANGED <<taken, left>>

\* Slip: the database is removed and still thought to be there.
CleanUpHalf(how, n) ==
  /\ IF created THEN db' = NoDatabase /\ creation' = Unlinked(creation)
                     /\ UNCHANGED <<half, early, taken, left>>
                ELSE UNCHANGED base
  /\ faults' = faults + n /\ faults' <= MaxFaults

\* _remove_created_database, after n faults; an update never removes anything.  A
\* removal that fails is told, but not after an interrupt, nor one interrupted.
CleanUp(how, n) ==
  /\ \/ created /\ Removed /\ faults' = faults + n
     \/ /\ created /\ faults' = faults + n + 1
        /\ left' \in {how, "interrupted"} /\ UNCHANGED <<db, half, creation, early, taken>>
     \/ ~created /\ UNCHANGED base /\ faults' = faults + n
  /\ faults' <= MaxFaults

\* Discovery fails, or the ledger has no tail or one the archive does not list.
NoTail == op = "update" /\ ~\E m \in Saved \cap Listed : \A n \in Saved : n <= m

DiscoverFails ==
  /\ pc = "discover"
  /\ pc' = "failure" /\ CleanUp("told", IF NoTail THEN 0 ELSE 1)
  /\ UNCHANGED <<world, file, op, created, plan>>

\* Slip: the months behind the tail only.
DiscoverBehind ==
  /\ pc = "discover" /\ ~NoTail
  /\ current' = clock
  /\ tail' = IF op = "update" THEN Max(Saved) ELSE 0
  /\ due' = {m \in Listed : m > tail' /\ m <= clock} /\ discovered' = due'
  /\ pc' = "fetch"
  /\ UNCHANGED <<world, disk, op, created, told, published, failed, faults>>

Discover ==
  /\ pc = "discover" /\ ~NoTail
  /\ current' = clock
  /\ tail' = IF op = "update" THEN Max(Saved) ELSE 0
  /\ due' = {m \in Listed : m >= tail' /\ m <= clock} /\ discovered' = due'
  /\ pc' = "fetch"
  /\ UNCHANGED <<world, disk, op, created, told, published, failed, faults>>

\* Set-up asks for the current month and for those that are not saved.
Skips(m) == op = "setup" /\ m # current /\ file[m] # NoFile
\* The answer is merged over what is saved, game by game.
Merges(m) == file[m] # NoFile /\ (IF op = "setup" THEN m = current ELSE m = tail)

\* Slip: the answer replaces what is saved.
MergedReplaced(m, answer) == answer

Merged(m, answer) ==
  IF Merges(m) /\ answer < file[m] THEN file[m] ELSE answer

SkipMonth ==
  /\ pc = "fetch" /\ due # {} /\ Skips(Min(due))
  /\ due' = due \ {Min(due)}
  /\ UNCHANGED <<world, disk, pc, op, created, current, discovered, tail, told, published, failed, faults>>

\* The month is answered, at times with games left out, and saved at once.
FetchMonth ==
  /\ pc = "fetch" /\ due # {} /\ ~Skips(Min(due))
  /\ LET m == Min(due)
     IN  \E answer \in 0 .. remote[m] :
           /\ IF answer = remote[m] THEN UNCHANGED faults ELSE Fault
           /\ told' = [told EXCEPT ![m] = answer]
           /\ file' = [file EXCEPT ![m] = Merged(m, answer)]
           /\ published' = published \cup {m}
           /\ due' = due \ {m}
  /\ UNCHANGED <<world, base, pc, op, created, current, discovered, tail, failed>>

\* No answer, a malformed one, or a file that cannot be written.
FetchFails ==
  /\ pc = "fetch" /\ due # {} /\ ~Skips(Min(due))
  /\ Fault
  /\ due' = due \ {Min(due)}
  /\ failed' = TRUE
  /\ UNCHANGED <<world, disk, pc, op, created, current, discovered, tail, told, published>>

Fetched ==
  /\ pc = "fetch" /\ due = {}
  /\ IF op = "setup" /\ failed
       THEN pc' = "failure" /\ CleanUp("told", 0)
       ELSE pc' = "import" /\ UNCHANGED <<base, faults>>
  /\ UNCHANGED <<world, file, op, created, plan>>

\* An update imports the months it has published, each on its own.
ImportMonth ==
  /\ pc = "import" /\ op = "update" /\ published # {} /\ Complete
  /\ LET m == Min(published)
     IN  /\ db' = [db EXCEPT ![m] = file[m]]
         /\ published' = published \ {m}
  /\ UNCHANGED <<world, file, half, creation, early, taken, left, pc, op, created,
                 current, discovered, due, tail, told, failed, faults>>

\* Slip: a month that could not be imported is not a failure of the update.
ImportFailsSilently ==
  /\ pc = "import" /\ op = "update" /\ published # {} /\ Complete
  /\ Fault
  /\ published' = published \ {Min(published)}
  /\ UNCHANGED <<world, disk, pc, op, created, current, discovered, due, tail, told, failed>>

\* The import of a month stops at a game; those before it may already be stored.
ImportFails ==
  /\ pc = "import" /\ op = "update" /\ published # {} /\ Complete
  /\ Fault
  /\ LET m == Min(published)
     IN  /\ \E v \in 0 .. file[m] : v >= db[m] /\ db' = [db EXCEPT ![m] = v]
         /\ published' = published \ {m}
  /\ failed' = TRUE
  /\ UNCHANGED <<world, file, half, creation, early, taken, left, pc, op, created,
                 current, discovered, due, tail, told>>

\* Without a database with its schema an update is a failure that has saved its
\* months.
UpdateEnds ==
  /\ pc = "import" /\ op = "update" /\ (published = {} \/ ~Complete)
  /\ pc' = IF failed \/ published # {} THEN "failure" ELSE "success"
  /\ UNCHANGED <<world, disk, op, created, plan, faults>>

\* Set-up imports all files in bulk, which raises if any game normalizes
\* (GameImport) or there is no database, then publishes the openings.
SetupEnds ==
  /\ pc = "import" /\ op = "setup"
  /\ \/ /\ Complete /\ \A m \in Saved : file[m] = 0
        /\ pc' = "success" /\ half' = FALSE
        /\ UNCHANGED <<db, creation, early, taken, left, faults>>
     \/ pc' = "failure" /\ CleanUp("told", IF Complete /\ \A m \in Saved : file[m] = 0 THEN 1 ELSE 0)
  /\ UNCHANGED <<world, file, op, created, plan>>

End ==
  /\ pc \in {"success", "failure"}
  /\ pc' = "off"
  /\ UNCHANGED <<world, disk, op, created, plan, faults>>

\* Slip: KeyboardInterrupt is no Exception, the database stays.
InterruptKeeps ==
  /\ pc \notin Ends \cup {"create"} /\ Fault
  /\ pc' = "off"
  /\ UNCHANGED <<world, disk, op, created, plan>>

\* KeyboardInterrupt: set-up removes what it created.
Interrupt ==
  /\ pc \notin Ends \cup {"create"}
  /\ pc' = "off" /\ CleanUp("interrupted", 1)
  /\ UNCHANGED <<world, file, op, created, plan>>

\* KeyboardInterrupt in create_schema, which undoes; or when it has returned and
\* set-up has not yet noted that it created the database, which stays.
InterruptCreate ==
  /\ pc = "create" /\ Fault
  /\ pc' = "off"
  /\ \/ creation["setup"] = Off /\ UNCHANGED base
     \/ creation["setup"] # Off /\ Undo("setup") /\ UNCHANGED left
     \/ Completed("setup") /\ left' = "interrupted" /\ UNCHANGED taken
  /\ UNCHANGED <<world, file, op, created, plan>>

\* The process is killed.
Crash ==
  /\ pc \notin Ends /\ Fault
  /\ pc' = "off"
  /\ \/ /\ creation' = [creation EXCEPT !["setup"] = Off] /\ early' = early \ {"setup"}
        /\ left' = IF op = "setup" THEN "killed" ELSE left
        /\ UNCHANGED <<db, half, taken>>
     \/ Completed("setup") /\ left' = "killed" /\ UNCHANGED taken
  /\ UNCHANGED <<world, file, op, created, plan>>

Init ==
  /\ clock = 1
  /\ remote = [m \in Months |-> IF m = 1 THEN 1 ELSE 0]
  /\ file = [m \in Months |-> NoFile]
  /\ db = NoDatabase /\ half = FALSE /\ creation = [w \in Makers |-> Off]
  /\ early = {} /\ taken = FALSE /\ left = "no"
  /\ pc = "off" /\ op = "update" /\ created = FALSE
  /\ current = 1 /\ discovered = {} /\ due = {} /\ tail = 0
  /\ told = NoAnswers /\ published = {} /\ failed = FALSE
  /\ faults = 0

Work ==
  \/ Creates("setup") \/ SidecarsStay
  \/ DiscoverFails \/ Discover \/ SkipMonth \/ FetchMonth \/ FetchFails
  \/ Fetched \/ ImportMonth \/ ImportFails \/ UpdateEnds \/ SetupEnds \/ End

Next ==
  \/ Tick \/ (\E m \in Months : Play(m))
  \/ StartSetup \/ StartUpdate \/ Creates("schema") \/ SchemaDies
  \/ Work \/ Interrupt \/ InterruptCreate \/ Crash

Spec == Init /\ [][Next]_vars

\* A command runs to its end; updates are run again and again.
FairSpec == Spec /\ WF_vars(Work) /\ WF_vars(StartUpdate)

-----------------------------------------------------------------------------

TypeOK ==
  /\ clock \in Months /\ remote \in [Months -> Editions]
  /\ file \in [Months -> Editions \cup {NoFile}]
  /\ db \in {NoDatabase, Blank} \cup [Months -> Editions]
  /\ half \in BOOLEAN /\ (half => Complete)
  /\ creation \in [Makers -> [at : {"off", "tested", "empty", "nowhere"}, existed : BOOLEAN]]
  /\ early \subseteq Makers /\ taken \in BOOLEAN
  /\ left \in {"no", "killed", "told", "interrupted"}
  /\ pc \in {"create", "discover", "fetch", "import"} \cup Ends
  /\ op \in {"setup", "update"} /\ created \in BOOLEAN
  /\ current \in Months /\ due \subseteq discovered /\ discovered \subseteq Months
  /\ published \subseteq Saved
  /\ tail \in 0 .. LastMonth /\ told \in [Months -> Editions \cup {NotAsked}]

\* What is saved of a month is never lost, whatever the answers leave out, and as
\* long as the database is there it never goes back on what it imported
\* (raw_storage.py:48).
SavedNeverLost ==
  [][\A m \in Saved :
       file'[m] # NoFile /\ file'[m] >= file[m]
       /\ (Complete /\ Complete' => db'[m] >= db[m])]_vars

\* A database that set-up did not finish is there only while it runs, when its
\* process was killed or interrupted, or when it said that it could not remove it
\* (lifecycle.py:142).
HalfIsExplained ==
  half => left # "no" \/ (op = "setup" /\ pc \notin Ends)

\* Of failing set-ups and schema creations at once: a database that was completed
\* is taken away or emptied only by the set-up that made it - or whose own was
\* taken away before - or by the failing of a call that was under way when it was
\* completed (schema.py:51, 74, lifecycle.py:102).
OnlyOwnIsRemoved ==
  [][Complete /\ ~Complete' =>
       \/ created /\ pc \notin Ends /\ pc' \in Ends /\ (half \/ taken)
       \/ \E w \in early : creation'[w] = Off]_vars

\* A successful update has been answered for every month listed from the tail on,
\* and what it was told is in the files and, unless the database was taken away
\* meanwhile, in it (acquisition.py:210).
SuccessCoversTail ==
  pc = "success" /\ op = "update" =>
    /\ \A m \in discovered : told[m] # NotAsked /\ file[m] >= told[m]
    /\ ~taken => Complete /\ \A m \in discovered : db[m] = file[m]

\* After a successful update the database holds the games of every saved month
\* (lifecycle.py:176).
SuccessMeansImported ==
  pc = "success" /\ op = "update" /\ Complete => \A m \in Saved : db[m] = file[m]

\* With updates run again and again, and a file and a database there to stay, the
\* newest month comes to be up to date for good (acquisition.py:210).
TailCatchesUp ==
  <>[](Saved # {} /\ Complete) =>
    <>[](Complete /\ LET m == Max(Listed) IN db[m] = remote[m])
=============================================================================
