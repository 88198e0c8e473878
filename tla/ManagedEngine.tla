----------------------------- MODULE ManagedEngine -----------------------------
(***************************************************************************)
(* One engine process and the object that owns it (PythonChessProcess,     *)
(* ManagedStockfish and close_process of analysis/engine.py).  Its worker  *)
(* thread analyses with it, a coordinating thread closes it and an         *)
(* interrupting thread terminates it by force, at the same time.  Every    *)
(* wait for the process is bounded; a thread that gives up waiting goes on *)
(* while the process may still run.                                        *)
(***************************************************************************)
EXTENDS Integers, FiniteSets

CONSTANTS
  Callers,     \* threads that hold the object
  Nobody,      \* the lock is free
  Unkillable,  \* whether a terminated process may outlive the wait for its exit
  MaxCalls     \* bound: calls per thread

ASSUME ManagedEngineAssumption ==
  Nobody \notin Callers /\ Unkillable \in BOOLEAN /\ MaxCalls \in Nat

VARIABLES
  child,   \* the process: "none", "started", "idle", "analysing", "dying" (signalled) or "exited"
  owner,   \* the object: "none", "launching", "unowned" (the constructor raised), "failed" or "ready"
  closed,  \* ManagedStockfish._closed
  holder,  \* who holds _use_lock
  at,      \* where each thread is
  call,    \* what it calls
  result,  \* how its last call ended
  calls,   \* how many it made
  late     \* the thread's call began after a close or force_terminate had returned (history)

vars == <<child, owner, closed, holder, at, call, result, calls, late>>

Alive == child \in {"started", "idle", "analysing"}

-----------------------------------------------------------------------------
(* The launch. *)

\* Slip: a process that reports another identity is left behind.
LaunchLeaving ==
  /\ owner = "none"
  /\ \/ owner' = "launching" /\ child' = "started"
     \/ owner' = "failed" /\ child' \in {"none", "started"}
  /\ UNCHANGED <<closed, holder, at, call, result, calls, late>>

\* popen_uci, and the reported identity verified; what fails closes the child.
Launch ==
  /\ owner = "none"
  /\ \/ owner' = "launching" /\ child' = "started"
     \/ owner' = "failed" /\ child' \in {"none", "exited"}
     \/ owner' = "failed" /\ child' = "dying" /\ Unkillable
  /\ UNCHANGED <<closed, holder, at, call, result, calls, late>>

\* ManagedStockfish(...): checksum and version compared, the process configured.
Construct ==
  /\ owner = "launching"
  /\ \/ /\ child = "started"
        /\ owner' = "ready" /\ child' = "idle"
     \/ owner' = "unowned" /\ UNCHANGED child
  /\ UNCHANGED <<closed, holder, at, call, result, calls, late>>

-----------------------------------------------------------------------------
(* The calls. *)

Returned == \E d \in Callers : result[d] = "closed"

Enter(c, operation) ==
  /\ owner = "ready" /\ at[c] = "out" /\ calls[c] < MaxCalls
  /\ call' = [call EXCEPT ![c] = operation]
  /\ calls' = [calls EXCEPT ![c] = @ + 1]
  /\ result' = [result EXCEPT ![c] = "none"]
  /\ late' = [late EXCEPT ![c] = Returned]
  /\ at' = [at EXCEPT ![c] = "entered"]
  /\ UNCHANGED <<child, owner, closed, holder>>

Go(c, place) == at' = [at EXCEPT ![c] = place] /\ UNCHANGED result

Return(c, how) ==
  /\ at' = [at EXCEPT ![c] = "out"]
  /\ result' = [result EXCEPT ![c] = how]

Steady == UNCHANGED <<owner, call, calls, late>>

\* Slip: close leaves the flag to close_process.
TestClosedNever(c) ==
  /\ at[c] = "entered"
  /\ Go(c, "open")
  /\ UNCHANGED <<child, closed, holder>> /\ Steady

\* Every call first looks at _closed.
TestClosed(c) ==
  /\ at[c] = "entered"
  /\ IF ~ closed THEN Go(c, "open")
                 ELSE Return(c, IF call[c] = "analyse" THEN "refused" ELSE "nothing to do")
  /\ UNCHANGED <<child, closed, holder>> /\ Steady

\* Slip: the lock is not asked for.
TakeLockNot(c) ==
  /\ at[c] = "open" /\ call[c] = "analyse"
  /\ holder' = c /\ Go(c, "engine") /\ child' = IF child = "idle" THEN "analysing" ELSE child
  /\ UNCHANGED closed /\ Steady

\* The lock of the object is taken or the call refused; the hash is cleared and the analysis begins.
TakeLock(c) ==
  /\ at[c] = "open" /\ call[c] = "analyse"
  /\ IF holder # Nobody
       THEN Return(c, "shared") /\ UNCHANGED <<child, holder>>
       ELSE holder' = c /\ Go(c, "engine") /\ child' = IF child = "idle" THEN "analysing" ELSE child
  /\ UNCHANGED closed /\ Steady

Answer(c) ==
  /\ at[c] = "engine" /\ child = "analysing"
  /\ child' = "idle" /\ holder' = Nobody /\ Return(c, "answer")
  /\ UNCHANGED closed /\ Steady

\* The process is gone, or what it says is not a result.
AnalysisRaises(c) ==
  /\ at[c] = "engine"
  /\ child' = IF child = "analysing" THEN "idle" ELSE child
  /\ holder' = Nobody /\ Return(c, "error")
  /\ UNCHANGED closed /\ Steady

\* The watchdog: the call is given up and the process terminated.
Watchdog(c) ==
  /\ at[c] = "engine"
  /\ closed' = TRUE /\ Go(c, "terminate")
  /\ UNCHANGED <<child, holder>> /\ Steady

SetClosed(c) ==
  /\ at[c] = "open" /\ call[c] # "analyse"
  /\ closed' = TRUE
  /\ Go(c, IF call[c] = "close" THEN "quit" ELSE "terminate")
  /\ UNCHANGED <<child, holder>> /\ Steady

\* Slip: only the answer to quit ends the wait for it.
QuitForever(c) ==
  /\ at[c] = "quit" /\ child \in {"idle", "exited"}
  /\ child' = "exited" /\ Return(c, "closed")
  /\ UNCHANGED <<closed, holder>> /\ Steady

\* close_process: an exited process is left alone; one that does not follow quit in time is terminated.
Quit(c) ==
  /\ at[c] = "quit"
  /\ \/ child' = "exited" /\ Return(c, "closed")
     \/ child # "exited" /\ Go(c, "terminate") /\ UNCHANGED child
  /\ UNCHANGED <<closed, holder>> /\ Steady

Terminate(c) ==
  /\ at[c] = "terminate"
  /\ child' = IF child = "exited" THEN "exited" ELSE "dying"
  /\ Go(c, "wait")
  /\ UNCHANGED <<closed, holder>> /\ Steady

Release(c) == holder' = IF call[c] = "analyse" THEN Nobody ELSE holder

\* Slip: the wait is taken for the exit.
WaitExitedBlind(c) ==
  /\ at[c] = "wait"
  /\ Return(c, IF call[c] = "analyse" THEN "timeout" ELSE "closed")
  /\ Release(c) /\ UNCHANGED <<child, closed>> /\ Steady

\* wait_exited: the exit is seen, or the wait ends without it.
WaitExited(c) ==
  /\ at[c] = "wait"
  /\ \/ child = "exited" /\ Return(c, IF call[c] = "analyse" THEN "timeout" ELSE "closed")
     \/ child # "exited" /\ Unkillable /\ Return(c, "not exited")
  /\ Release(c) /\ UNCHANGED <<child, closed>> /\ Steady

\* The process: it ends when signalled, and may end by itself.
Exit ==
  /\ child = "dying"
  /\ child' = "exited"
  /\ UNCHANGED <<owner, closed, holder, at, call, result, calls, late>>

Crash ==
  /\ Alive
  /\ child' = "exited"
  /\ UNCHANGED <<owner, closed, holder, at, call, result, calls, late>>

-----------------------------------------------------------------------------
Init ==
  /\ child = "none" /\ owner = "none" /\ closed = FALSE /\ holder = Nobody
  /\ at = [c \in Callers |-> "out"] /\ call = [c \in Callers |-> "none"]
  /\ result = [c \in Callers |-> "none"] /\ calls = [c \in Callers |-> 0]
  /\ late = [c \in Callers |-> FALSE]

Step(c) ==
  \/ TestClosed(c) \/ TakeLock(c) \/ Answer(c) \/ AnalysisRaises(c) \/ Watchdog(c)
  \/ SetClosed(c) \/ Quit(c) \/ Terminate(c) \/ WaitExited(c)

Next ==
  \/ Launch \/ Construct \/ Exit \/ Crash
  \/ \E c \in Callers :
       Step(c) \/ \E operation \in {"analyse", "close", "force_terminate"} : Enter(c, operation)

Spec == Init /\ [][Next]_vars

\* Threads run and every wait has its deadline; nothing is asked of the process.
FairSpec == Spec /\ \A c \in Callers : WF_vars(Step(c))

-----------------------------------------------------------------------------
(* Properties. *)

\* The flag, the lock and the process fit the places the threads are at.
TypeOK ==
  /\ child \in {"none", "started", "idle", "analysing", "dying", "exited"}
  /\ owner \in {"none", "launching", "unowned", "failed", "ready"}
  /\ closed \in BOOLEAN /\ holder \in Callers \cup {Nobody}
  /\ at \in [Callers -> {"out", "entered", "open", "engine", "quit", "terminate", "wait"}]
  /\ call \in [Callers -> {"none", "analyse", "close", "force_terminate"}]
  /\ result \in [Callers -> {"none", "answer", "error", "refused", "shared", "timeout", "closed", "nothing to do", "not exited"}]
  /\ calls \in [Callers -> 0..MaxCalls] /\ late \in [Callers -> BOOLEAN]
  /\ owner = "ready" => child # "started"
  /\ owner = "failed" => ~ Alive

\* A call that says it has closed the engine, or that its analysis ran out of time, has seen the process exit,
\* however many threads close it at once.
ClosedMeansExited ==
  \A c \in Callers : result[c] \in {"closed", "timeout"} => child = "exited"

\* At most one analysis uses the process, and it is the one that holds the lock.
OneAnalysis ==
  \A c \in Callers : at[c] = "engine" => holder = c

\* An analysis called after the engine was closed is refused without a look at the process.
NoAnalysisAfterClose ==
  \A c \in Callers : late[c] /\ call[c] = "analyse" => at[c] \in {"entered", "out"} /\ result[c] \in {"none", "refused"}

\* Every call returns, whether or not the engine answers, follows quit or exits.
CallsReturn == \A c \in Callers : at[c] # "out" ~> at[c] = "out"

\* src/backend/app/features/analysis/engine.py:253 has force_terminate "Immediately terminate this tracked child":
\* when it has returned without an error the process is not left running.
ForceTerminatesAtOnce ==
  \A c \in Callers : call[c] = "force_terminate" /\ result[c] \in {"closed", "nothing to do"} => ~ Alive

\* Threads that analyse with, close and terminate one engine exclude each other as
\* they should: who is told that it is closed has seen its process exit, one analysis
\* at a time uses it, and none begins after it was closed (engine.py:255).
ClosedEnginesAreGone == TypeOK /\ ClosedMeansExited /\ OneAnalysis /\ NoAnalysisAfterClose

=============================================================================
