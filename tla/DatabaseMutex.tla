---------------------------- MODULE DatabaseMutex ----------------------------
(***************************************************************************)
(* DatabaseMutex: one named Windows mutex per database path, and one       *)
(* DatabaseMutex object in each process that works with the engine.        *)
(*                                                                         *)
(* The kernel object is modelled from the calls the class makes.  It       *)
(* exists while some process has a handle to it: the death of its owner    *)
(* leaves it abandoned for the next waiter only if another handle is open, *)
(* otherwise the object and its abandoned state go with the last handle.   *)
(***************************************************************************)
CONSTANTS
  Processes,   \* processes that may run engine work on the database
  NoProcess    \* the kernel object has no owner

MutexAssumption == NoProcess \notin Processes

VARIABLES
  instance,    \* instance[p]: "closed", "open" (handle, not yet waited), "owned"
  recovered,   \* recovered[p]: the _abandoned flag of p's object
  owner,       \* kernel: the owning process, or NoProcess
  abandoned,   \* kernel: the last owner died and no wait has succeeded since
  orphaned     \* history: some owner died and no wait has succeeded since

vars == <<instance, recovered, owner, abandoned, orphaned>>

-----------------------------------------------------------------------------

HandleElsewhere(p) == \E o \in Processes \ {p} : instance[o] # "closed"

\* Slip: the abandoned flag outlives the ownership.
CloseHandleKeepingFlag(p, wasAbandoned) ==
  /\ instance' = [instance EXCEPT ![p] = "closed"]
  /\ abandoned' = (wasAbandoned /\ HandleElsewhere(p))
  /\ UNCHANGED recovered

\* Closing p's handle destroys the object, and its state, if it is the last.
CloseHandle(p, wasAbandoned) ==
  /\ instance' = [instance EXCEPT ![p] = "closed"]
  /\ recovered' = [recovered EXCEPT ![p] = FALSE]
  /\ abandoned' = (wasAbandoned /\ HandleElsewhere(p))

\* acquire, first call: CreateMutexW opens the object or creates it.
Open(p) ==
  /\ instance[p] = "closed"
  /\ instance' = [instance EXCEPT ![p] = "open"]
  /\ UNCHANGED <<recovered, owner, abandoned, orphaned>>

\* Slip: every successful wait counts as a recovery.
AcquireRecovering(p) ==
  /\ instance[p] = "open"
  /\ owner = NoProcess
  /\ owner' = p
  /\ instance' = [instance EXCEPT ![p] = "owned"]
  /\ recovered' = [recovered EXCEPT ![p] = TRUE]
  /\ abandoned' = FALSE
  /\ orphaned' = FALSE

\* acquire, second call: WAIT_OBJECT_0 or WAIT_ABANDONED.
Acquire(p) ==
  /\ instance[p] = "open"
  /\ owner = NoProcess
  /\ owner' = p
  /\ instance' = [instance EXCEPT ![p] = "owned"]
  /\ recovered' = [recovered EXCEPT ![p] = abandoned]
  /\ abandoned' = FALSE
  /\ orphaned' = FALSE

\* Slip: a timed-out wait counts as success.
BusyOwning(p) ==
  /\ instance[p] = "open"
  /\ owner # NoProcess
  /\ instance' = [instance EXCEPT ![p] = "owned"]
  /\ UNCHANGED <<recovered, owner, abandoned, orphaned>>

\* acquire, second call: WAIT_TIMEOUT; the handle is closed again.
Busy(p) ==
  /\ instance[p] = "open"
  /\ owner # NoProcess
  /\ CloseHandle(p, abandoned)
  /\ UNCHANGED <<owner, orphaned>>

\* acquire, second call: WAIT_FAILED, or an unexpected result.
WaitFails(p) ==
  /\ instance[p] = "open"
  /\ CloseHandle(p, abandoned)
  /\ UNCHANGED <<owner, orphaned>>

\* release: ReleaseMutex, CloseHandle, both flags cleared.
Release(p) ==
  /\ instance[p] = "owned"
  /\ owner' = NoProcess
  /\ CloseHandle(p, FALSE)
  /\ UNCHANGED orphaned

\* The process dies wherever it is; the kernel closes its handle.
Crash(p) ==
  /\ instance[p] # "closed"
  /\ owner' = IF owner = p THEN NoProcess ELSE owner
  /\ CloseHandle(p, abandoned \/ owner = p)
  /\ orphaned' = (orphaned \/ owner = p)

-----------------------------------------------------------------------------

Init ==
  /\ instance = [p \in Processes |-> "closed"]
  /\ recovered = [p \in Processes |-> FALSE]
  /\ owner = NoProcess
  /\ abandoned = FALSE
  /\ orphaned = FALSE

Next ==
  \E p \in Processes :
    \/ Open(p) \/ Acquire(p) \/ Busy(p) \/ WaitFails(p)
    \/ Release(p) \/ Crash(p)

Spec == Init /\ [][Next]_vars

-----------------------------------------------------------------------------
(* Properties. *)

\* The two halves are well formed; acquired_abandoned is set only on an object
\* that owns the mutex.
TypeOK ==
  /\ instance \in [Processes -> {"closed", "open", "owned"}]
  /\ recovered \in [Processes -> BOOLEAN]
  /\ owner \in Processes \cup {NoProcess}
  /\ abandoned \in BOOLEAN
  /\ orphaned \in BOOLEAN
  /\ \A p \in Processes : recovered[p] => instance[p] = "owned"

\* An object that believes it owns the mutex is the kernel's owner, so no two
\* processes believe it at once, crashes included.
BeliefIsOwnership ==
  \A p \in Processes : instance[p] = "owned" <=> owner = p

\* acquired_abandoned is never a false alarm: a process that recovers acquired
\* the mutex after an owner died, with no successful acquisition in between.
RecoveryIsReal ==
  [][\A p \in Processes : recovered'[p] /\ ~recovered[p] => orphaned]_vars

\* Who believes to own the mutex owns it, deaths included, and the abandoned flag
\* speaks of the acquisition at hand (mutex.py:98).
MutexIsKept == [](TypeOK /\ BeliefIsOwnership) /\ RecoveryIsReal

=============================================================================
