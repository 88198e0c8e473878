-------------------------- MODULE StockfishBenchmark --------------------------
(***************************************************************************)
(* The resumable benchmark (stockfish/benchmark*.py): one process at a     *)
(* time runs the matrix of a specification in an output directory.  It     *)
(* appends each measurement to attempts.jsonl and then replaces            *)
(* checkpoint.json; the next run reads both back, refuses what does not    *)
(* fit, and measures only the jobs without a success.                      *)
(*                                                                         *)
(* Files are written one after the other (plan); at every step the process *)
(* may be interrupted (Ctrl-C) or die.  A file is replaced atomically; a   *)
(* line is appended in place, so a failure may leave a part of it (Torn).  *)
(***************************************************************************)
EXTENDS Integers, FiniteSets, Sequences, SequencesExt

CONSTANTS
  Specs,       \* [profiles, budgets, positions, repetitions]; a profile is a pair of thread count and hash size
  Retries,     \* artifact_write_retries
  Missing,     \* a file that does not exist
  Torn,        \* a part of a line
  Interrupts,  \* the points of a run at which Ctrl-C may meet it
  Crashes,     \* the points at which its process may die
  TornWrites,  \* whether a failed append may leave something behind
  MaxRuns      \* bound: how many runs are started

VARIABLES
  disk,        \* disk[f]: the content of file f
  spec,        \* the specification of the current run
  pc,          \* where it is
  plan,        \* the writes it is about to make
  tries,       \* how often it has tried the first of them
  records,     \* the attempts it knows
  successful,  \* the jobs it holds for measured
  failed,      \* the jobs it holds for failed
  block,       \* the number of the current profile
  todo,        \* the jobs of the profile that are left, taken in an order of the seed
  leaving,     \* why it leaves the profile: "done", "interrupt" or "error"
  outcome,     \* how the last run ended
  runs         \* how many runs were started

memory == <<spec, records, successful, failed, block, todo>>
vars == <<disk, pc, plan, tries, leaving, outcome, runs, memory>>

Files == {"manifest", "attempts", "checkpoint", "summary", "csv", "status"}

-----------------------------------------------------------------------------
(* Jobs and records. *)

BlockJobs(s, b) ==
  {[profile |-> s.profiles[b], round |-> r, nodes |-> n, position |-> p] :
     r \in 1..s.repetitions, n \in s.budgets, p \in s.positions}

JobIds(s) == UNION {BlockJobs(s, b) : b \in DOMAIN s.profiles}

\* The attempts that may be stored.
Attempts ==
  [job : UNION {JobIds(s) : s \in Specs}, status : {"success", "failure"}, attempt : Nat]

BenchmarkAssumption ==
  /\ Retries \in Nat /\ MaxRuns \in Nat /\ TornWrites \in BOOLEAN
  /\ \A s \in Specs :
       /\ IsFiniteSet(s.positions) /\ IsFiniteSet(s.budgets)
       /\ s.positions # {} /\ s.budgets # {} /\ s.repetitions \in Nat \ {0}
       /\ s.profiles \in Seq(ToSet(s.profiles)) \ {<<>>} /\ IsInjective(s.profiles)
  /\ Torn \notin Attempts
  /\ Missing # "complete" /\ Missing \notin Specs /\ Missing \notin Seq(Attempts \cup {Torn})

TotalJobs(s) ==
  Cardinality(s.positions) * Cardinality(s.budgets) * Len(s.profiles) * s.repetitions

Record(j, status, rs) ==
  [job |-> j, status |-> status,
   attempt |-> Cardinality({k \in DOMAIN rs : rs[k].job = j}) + 1]

\* The jobs whose latest attempt has a status.
JobSets(rs, status) ==
  {rs[i].job : i \in {k \in DOMAIN rs :
     rs[k].status = status /\ \A l \in k+1..Len(rs) : rs[l].job # rs[k].job}}

Lines == IF disk["attempts"] = Missing THEN <<>> ELSE disk["attempts"]

Checkpoint(rs, succ, fail, complete, interrupted) ==
  [complete |-> complete, interrupted |-> interrupted, count |-> Len(rs),
   successful |-> succ, failed |-> fail]

-----------------------------------------------------------------------------
(* Writing. *)

File(f, content) == [file |-> f, content |-> content]
Line(record) == [file |-> "attempts", line |-> record]

\* What the directory holds once a write is made.
Written(w) ==
  [disk EXCEPT ![w.file] = IF "line" \in DOMAIN w THEN Append(Lines, w.line) ELSE w.content]

\* What a write that fails for good may have left: a file is as it was; of a
\* line that could not be truncated away, all or a part.
Remains(w) ==
  {disk} \cup
  IF "line" \in DOMAIN w /\ TornWrites
    THEN {Written(w), Written([w EXCEPT !.line = Torn])} ELSE {}

\* Slip: the checkpoint is written before the attempt.
PersistBackwards(record) ==
  LET ok == record.status = "success"
      succ == IF ok THEN successful \cup {record.job} ELSE successful
      fail == IF ok THEN failed \ {record.job} ELSE failed \cup {record.job} IN
  plan' = <<File("checkpoint", Checkpoint(Append(records, record), succ, fail, FALSE, FALSE)),
            Line(record)>>

PersistRecord(record) ==
  LET ok == record.status = "success"
      succ == IF ok THEN successful \cup {record.job} ELSE successful
      fail == IF ok THEN failed \ {record.job} ELSE failed \cup {record.job} IN
  plan' = <<Line(record),
            File("checkpoint", Checkpoint(Append(records, record), succ, fail, FALSE, FALSE))>>

Status(complete, interrupted) ==
  IF complete THEN "complete" ELSE IF interrupted THEN "interrupted" ELSE "incomplete"

\* Slip: the status is written first.
FinishPlanStatusFirst(rs, complete, interrupted) ==
  <<File("status", Status(complete, interrupted)),
    File("summary", [complete |-> complete, records |-> rs]),
    File("csv", rs),
    File("checkpoint", Checkpoint(rs, JobSets(rs, "success"), JobSets(rs, "failure"),
                                  complete, interrupted))>>

FinishPlan(rs, complete, interrupted) ==
  <<File("summary", [complete |-> complete, records |-> rs]),
    File("csv", rs),
    File("checkpoint", Checkpoint(rs, JobSets(rs, "success"), JobSets(rs, "failure"),
                                  complete, interrupted)),
    File("status", Status(complete, interrupted))>>

\* A run that ends, interrupted or not, writes what it knows.
FinishArtifacts(rs, interrupted) ==
  LET complete == Cardinality(JobSets(rs, "success")) = TotalJobs(spec) IN
  /\ plan' = FinishPlan(rs, complete, interrupted)
  /\ pc' = "finish"
  /\ outcome' = IF interrupted THEN "interrupted" ELSE Status(complete, FALSE)

-----------------------------------------------------------------------------
(* A run. *)

Init ==
  /\ disk \in {[f \in Files |-> Missing],
               [[f \in Files |-> Missing] EXCEPT !["status"] = "incomplete"]}
  /\ spec \in Specs /\ pc = "idle" /\ plan = <<>> /\ tries = 0
  /\ records = <<>> /\ successful = {} /\ failed = {} /\ block = 0 /\ todo = {}
  /\ leaving = "done" /\ outcome = "none" /\ runs = 0

Invoke(s) ==
  /\ pc = "idle" /\ runs < MaxRuns
  /\ spec' = s /\ pc' = "prepare" /\ runs' = runs + 1 /\ outcome' = "none"
  /\ records' = <<>> /\ successful' = {} /\ failed' = {} /\ block' = 0 /\ todo' = {}
  /\ leaving' = "done"
  /\ UNCHANGED <<disk, plan, tries>>

\* The run ends without another write.
End(how) == pc' = "idle" /\ plan' = <<>> /\ tries' = 0 /\ outcome' = how

At(point) == pc = point /\ plan = <<>>

\* Slip: an existing manifest is resumed without a look at it.
PrepareAny ==
  /\ At("prepare")
  /\ \/ disk["manifest"] # Missing /\ pc' = "load" /\ UNCHANGED <<plan, tries, outcome>>
     \/ /\ \A f \in Files : disk[f] = Missing
        /\ plan' = <<File("manifest", spec), File("attempts", <<>>), File("status", "incomplete")>>
        /\ pc' = "load" /\ UNCHANGED <<tries, outcome>>
  /\ UNCHANGED <<disk, memory, leaving, runs>>

Prepare ==
  /\ At("prepare")
  /\ \/ /\ disk["manifest"] = spec
        /\ pc' = "load" /\ UNCHANGED <<plan, tries, outcome>>
     \/ /\ disk["manifest"] \notin {Missing, spec}
        /\ End("refused")
     \/ /\ disk["manifest"] = Missing
        /\ \E f \in Files : disk[f] # Missing
        /\ End("refused")
     \/ /\ \A f \in Files : disk[f] = Missing
        /\ plan' = <<File("manifest", spec), File("attempts", <<>>), File("status", "incomplete")>>
        /\ pc' = "load" /\ UNCHANGED <<tries, outcome>>
  /\ UNCHANGED <<disk, memory, leaving, runs>>

Readable ==
  /\ Torn \notin ToSet(Lines)
  /\ \A i \in DOMAIN Lines : Lines[i].job \in JobIds(spec)

\* The checkpoint fits the attempts.
Agrees(c) ==
  /\ c.successful \subseteq JobIds(spec) /\ c.failed \subseteq JobIds(spec)
  /\ c.successful = JobSets(Lines, "success")
  /\ c.failed \subseteq JobSets(Lines, "failure")

Compatible ==
  Readable /\ (disk["checkpoint"] # Missing => Agrees(disk["checkpoint"]))

Load ==
  /\ At("load")
  /\ \/ /\ ~Compatible
        /\ End("refused") /\ UNCHANGED memory
     \/ /\ Compatible /\ JobSets(Lines, "success") = JobIds(spec)
        /\ FinishArtifacts(Lines, FALSE)
        /\ UNCHANGED <<memory, tries>>
     \/ /\ Compatible /\ JobSets(Lines, "success") # JobIds(spec)
        /\ records' = Lines
        /\ successful' = JobSets(Lines, "success") /\ failed' = JobSets(Lines, "failure")
        /\ pc' = "block" /\ block' = 1
        /\ UNCHANGED <<spec, todo, plan, tries, outcome>>
  /\ UNCHANGED <<disk, leaving, runs>>

\* Slip: every job of the profile is measured again.
PendingAll == BlockJobs(spec, block)

Pending == BlockJobs(spec, block) \ successful

NextBlock ==
  /\ At("block")
  /\ \/ /\ block > Len(spec.profiles)
        /\ FinishArtifacts(records, FALSE)
        /\ UNCHANGED <<memory, tries>>
     \/ /\ block <= Len(spec.profiles) /\ Pending = {}
        /\ block' = block + 1
        /\ UNCHANGED <<spec, records, successful, failed, todo, pc, plan, tries, outcome>>
     \/ /\ block <= Len(spec.profiles) /\ Pending # {}
        /\ todo' = Pending /\ pc' = "start"
        /\ UNCHANGED <<spec, records, successful, failed, block, plan, tries, outcome>>
  /\ UNCHANGED <<disk, leaving, runs>>

\* The engine of the profile starts and warms up, or every job of it fails.
StartEngine ==
  /\ At("start")
  /\ pc' \in {"measure", "fail"}
  /\ UNCHANGED <<disk, memory, plan, tries, leaving, outcome, runs>>

Measure ==
  /\ At("measure")
  /\ \E j \in todo, status \in {"success", "failure"} : PersistRecord(Record(j, status, records))
  /\ pc' = "note"
  /\ UNCHANGED <<disk, memory, tries, leaving, outcome, runs>>

FailJob ==
  /\ At("fail")
  /\ \E j \in todo : PersistRecord(Record(j, "failure", records))
  /\ pc' = "noteFailure"
  /\ UNCHANGED <<disk, memory, tries, leaving, outcome, runs>>

\* The record that was just stored enters the memory.
Remember ==
  LET r == Last(Lines)
      ok == r.status = "success" IN
  /\ records' = Append(records, r)
  /\ successful' = IF ok THEN successful \cup {r.job} ELSE successful
  /\ failed' = IF ok THEN failed \ {r.job} ELSE failed \cup {r.job}
  /\ todo' = todo \ {r.job}
  /\ UNCHANGED spec

Note ==
  /\ At("note") /\ Remember
  /\ pc' = IF todo' = {} THEN "close" ELSE "measure"
  /\ UNCHANGED <<disk, block, plan, tries, leaving, outcome, runs>>

\* Slip: an engine that does not start fails its first job only.
NoteFirstFailure ==
  /\ At("noteFailure") /\ Remember
  /\ pc' = "block" /\ block' = block + 1
  /\ UNCHANGED <<disk, plan, tries, leaving, outcome, runs>>

NoteFailure ==
  /\ At("noteFailure") /\ Remember
  /\ \/ todo' # {} /\ pc' = "fail" /\ UNCHANGED block
     \/ todo' = {} /\ pc' = "block" /\ block' = block + 1
  /\ UNCHANGED <<disk, plan, tries, leaving, outcome, runs>>

\* The engine is closed, whatever the reason to leave the profile.
Close ==
  /\ At("close")
  /\ \/ /\ leaving = "done"
        /\ pc' = "block" /\ block' = block + 1
        /\ UNCHANGED <<plan, tries, outcome>>
     \/ /\ leaving = "interrupt"
        /\ FinishArtifacts(records, TRUE)
        /\ UNCHANGED <<block, tries>>
     \/ /\ leaving = "error"
        /\ End("raised") /\ UNCHANGED block
  /\ UNCHANGED <<disk, spec, records, successful, failed, todo, leaving, runs>>

Finish ==
  /\ At("finish")
  /\ pc' = "idle"
  /\ UNCHANGED <<disk, memory, plan, tries, leaving, outcome, runs>>

-----------------------------------------------------------------------------
(* Writes, interrupts and crashes. *)

Write ==
  /\ plan # <<>>
  /\ disk' = Written(Head(plan)) /\ plan' = Tail(plan) /\ tries' = 0
  /\ UNCHANGED <<memory, pc, leaving, outcome, runs>>

\* Slip: the count of the tries starts over.
RetryForever ==
  /\ plan # <<>>
  /\ tries' = (tries + 1) % (Retries + 1)
  /\ UNCHANGED <<disk, memory, pc, plan, leaving, outcome, runs>>

\* Slip: one try more than there are.
RetryOnceMore ==
  /\ plan # <<>> /\ tries <= Retries
  /\ tries' = tries + 1
  /\ UNCHANGED <<disk, memory, pc, plan, leaving, outcome, runs>>

\* The file cannot be opened for now; nothing is written.
Retry ==
  /\ plan # <<>> /\ tries < Retries
  /\ tries' = tries + 1
  /\ UNCHANGED <<disk, memory, pc, plan, leaving, outcome, runs>>

\* An exception leaves the current point of the run: with an engine through its
\* close, and an interrupt through the final artifacts.
Raise(why) ==
  \/ /\ pc \in {"prepare", "load", "finish"} \/ (pc \in {"fail", "noteFailure"} /\ why = "error")
     /\ End("raised") /\ UNCHANGED leaving
  \/ /\ pc \in {"block", "close"} \/ (pc \in {"fail", "noteFailure"} /\ why = "interrupt")
     /\ FinishArtifacts(records, TRUE)
     /\ tries' = 0 /\ UNCHANGED leaving
  \/ /\ pc \in {"start", "measure", "note"}
     /\ pc' = "close" /\ plan' = <<>> /\ tries' = 0
     /\ leaving' = why /\ UNCHANGED outcome

WriteFails ==
  /\ plan # <<>>
  /\ disk' \in Remains(Head(plan))
  /\ Raise("error")
  /\ UNCHANGED <<memory, runs>>

\* What an interrupt or a crash may have left of the write it met.
Met == {disk} \cup (IF plan = <<>> THEN {} ELSE {Written(Head(plan))})

Interrupt ==
  /\ pc \in Interrupts
  /\ disk' \in Met
  /\ Raise("interrupt")
  /\ UNCHANGED <<memory, runs>>

Crash ==
  /\ pc \in Crashes
  /\ disk' \in Met \cup (IF plan = <<>> THEN {} ELSE Remains(Head(plan)))
  /\ End("died")
  /\ UNCHANGED <<memory, leaving, runs>>

Work ==
  \/ Prepare \/ Load \/ NextBlock \/ StartEngine \/ Measure \/ FailJob \/ Note \/ NoteFailure
  \/ Close \/ Finish \/ Write \/ Retry \/ WriteFails

Next == (\E s \in Specs : Invoke(s)) \/ Work \/ Interrupt \/ Crash

Spec == Init /\ [][Next]_vars

\* A step of a run is a system call or a search of the engine, which a watchdog
\* bounds: the process takes its next step.
FairSpec == Spec /\ WF_vars(Work)

-----------------------------------------------------------------------------
(* Properties. *)

Points == {"prepare", "load", "block", "start", "measure", "note", "fail", "noteFailure",
           "close", "finish"}

\* Type correctness: the current run knows disjoint sets of measured and of
\* failed jobs, those of the latest attempts it knows.
TypeOK ==
  /\ DOMAIN disk = Files
  /\ \A i \in 1..Len(Lines) - 1 : Lines[i] # Torn
  /\ spec \in Specs /\ pc \in Points \cup {"idle"}
  /\ disk["manifest"] \in Specs \cup {Missing}
  /\ disk["status"] \in {Missing, "complete", "interrupted", "incomplete"}
  /\ tries \in 0..Retries
  /\ successful = JobSets(records, "success") /\ failed = JobSets(records, "failure")
  /\ successful \cup failed \subseteq JobIds(spec)
  /\ block \in 0..Len(spec.profiles) + 1
  /\ leaving \in {"done", "interrupt", "error"}
  /\ outcome \in {"none", "complete", "incomplete", "interrupted", "raised", "refused", "died"}

\* The whole lines: a part of a line can only be the last.
Stored == IF Lines # <<>> /\ Last(Lines) = Torn THEN Front(Lines) ELSE Lines

\* Whatever says that the benchmark is complete says so truly (_finish_artifacts
\* and the outcome of run): every job has a stored success, and once the status
\* says it so do the checkpoint and the summary, which holds every record.
CompleteIsTrue ==
  /\ outcome = "complete" /\ pc = "idle" => disk["status"] = "complete"
  /\ disk["status"] = "complete" =>
       /\ JobSets(Stored, "success") = JobIds(disk["manifest"])
       /\ disk["checkpoint"].complete
       /\ disk["summary"] = [complete |-> TRUE, records |-> Stored]

\* A run that returns without an interrupt has tried every job that had no
\* success, also those of a profile whose engine did not start.
NothingLeftOut ==
  pc = "idle" /\ outcome = "incomplete" =>
    JobSets(Stored, "success") \cup JobSets(Stored, "failure") = JobIds(spec)

\* The checkpoint and the summaries tell of a beginning of the stored attempts,
\* whenever a run stopped (_persist_record, _finish_artifacts): what the
\* checkpoint has not seen are failures, except perhaps the last attempt.
ArtifactsAreOfABeginning ==
  /\ disk["checkpoint"] # Missing =>
       LET c == disk["checkpoint"]
           seen == SubSeq(Stored, 1, c.count) IN
       /\ c.count <= Len(Stored)
       /\ c.successful = JobSets(seen, "success") /\ c.failed = JobSets(seen, "failure")
       /\ \A i \in c.count + 1..Len(Stored) - 1 : Stored[i].status = "failure"
  /\ disk["summary"] # Missing => IsPrefix(disk["summary"].records, Stored)
  /\ disk["csv"] # Missing => IsPrefix(disk["csv"], Stored)

\* A measured job is never measured again, by any later run, and the attempts of
\* a job are numbered without a gap (_load_attempts, run).
MeasuredOnce ==
  \A i \in DOMAIN Stored :
    /\ \A k \in 1..i - 1 : Stored[k].job = Stored[i].job => Stored[k].status = "failure"
    /\ Stored[i].attempt = Cardinality({k \in 1..i : Stored[k].job = Stored[i].job})

\* The artifacts of a directory are of one specification, the manifest's
\* (_prepare_artifacts: "refusing to mix state").
NeverMixed ==
  \A i \in DOMAIN Stored :
    disk["manifest"] # Missing /\ Stored[i].job \in JobIds(disk["manifest"])

\* Every run ends, whichever writes fail and however often.
RunsEnd == pc # "idle" ~> pc = "idle"

\* A run is resumable: the same specification in the same directory is not
\* refused.  The CLI promises it ("Run one explicit, resumable Stockfish
\* benchmark matrix"); the code breaks it when a run is interrupted between the
\* attempt and its checkpoint.
ResumesItsOwn == outcome = "refused" => disk["manifest"] # spec

====
