-------------------------- MODULE EnginesProofs --------------------------
(***************************************************************************)
(* The safety of the engine processes of Engines, for every number of      *)
(* threads, calls, processes and requests.  First, ManagedEngine.          *)
(* What makes the invariants inductive: a thread in the engine or past its *)
(* watchdog holds the lock, whoever closes has set _closed before, and an  *)
(* exited process never comes back.                                        *)
(***************************************************************************)
EXTENDS Engines, Sequences, FiniteSetTheorems, TLAPS

Children == {"none", "started", "idle", "analysing", "dying", "exited"}
Owners == {"none", "launching", "unowned", "failed", "ready"}
Places == {"out", "entered", "open", "engine", "quit", "terminate", "wait"}
Operations == {"none", "analyse", "close", "force_terminate"}
Results == {"none", "answer", "error", "refused", "shared", "timeout", "closed", "nothing to do", "not exited"}

\* Every variable has its type.
Types ==
  /\ child \in Children /\ owner \in Owners
  /\ closed \in BOOLEAN /\ holder \in Callers \cup {Nobody}
  /\ at \in [Callers -> Places] /\ call \in [Callers -> Operations]
  /\ result \in [Callers -> Results]
  /\ calls \in [Callers -> 0..MaxCalls] /\ late \in [Callers -> BOOLEAN]

\* What the process is, by the state of the object that owns it.
Ownership ==
  /\ owner = "ready" => child \in {"idle", "analysing", "dying", "exited"}
  /\ owner = "failed" => child \in {"none", "exited", "dying"}
  /\ owner = "none" => child = "none"
  /\ owner # "ready" => \A c \in Callers : at[c] = "out" /\ result[c] = "none"

\* A thread inside an analysis holds the lock.
Locked ==
  \A c \in Callers :
    /\ at[c] = "engine" => call[c] = "analyse"
    /\ at[c] = "quit" => call[c] # "analyse"
    /\ at[c] \in {"engine", "terminate", "wait"} /\ call[c] = "analyse" => holder = c

\* Whoever closes, or was told that it is closed, finds the flag set.
Flagged ==
  /\ \A c \in Callers : at[c] \in {"quit", "terminate", "wait"} => closed
  /\ \A c \in Callers : result[c] = "closed" => closed
  /\ \A c \in Callers : late[c] => closed

\* A call keeps its result to itself until it returns.
Unsettled == \A c \in Callers : at[c] # "out" => result[c] = "none"

IInv == Types /\ Ownership /\ Locked /\ Flagged /\ Unsettled /\ ClosedMeansExited /\ NoAnalysisAfterClose

USE ManagedEngineAssumption DEF ManagedEngineAssumption

\* A thread below its bound may count one more call.
LEMMA OneMore == \A n \in 0..MaxCalls : n < MaxCalls => n + 1 \in 0..MaxCalls
OBVIOUS

LEMMA InitInv == Init => IInv
<1> SUFFICES ASSUME Init PROVE IInv
  OBVIOUS
<1> USE DEF Init, Children, Owners, Places, Operations, Results
<1>1. Types
  <2>1. child \in Children /\ owner \in Owners /\ closed \in BOOLEAN /\ holder \in Callers \cup {Nobody}
    OBVIOUS
  <2>2. at \in [Callers -> Places] /\ call \in [Callers -> Operations] /\ result \in [Callers -> Results]
    OBVIOUS
  <2>3. calls \in [Callers -> 0..MaxCalls]
    OBVIOUS
  <2>4. late \in [Callers -> BOOLEAN]
    BY Zenon
  <2> QED
    BY <2>1, <2>2, <2>3, <2>4 DEF Types
<1>2. Ownership
  BY DEF Ownership
<1>3. Locked
  BY DEF Locked
<1>4. Flagged
  BY DEF Flagged
<1>5. Unsettled
  BY DEF Unsettled
<1>6. ClosedMeansExited
  BY DEF ClosedMeansExited
<1>7. NoAnalysisAfterClose
  BY DEF NoAnalysisAfterClose
<1> QED
  BY <1>1, <1>2, <1>3, <1>4, <1>5, <1>6, <1>7 DEF IInv

LEMMA StepInv == IInv /\ [Next]_vars => IInv'
<1> SUFFICES ASSUME IInv, [Next]_vars PROVE IInv'
  OBVIOUS
<1> USE DEF IInv, Types, Children, Owners, Places, Operations, Results
<1>1. CASE Launch
  <2>1. Types'
    BY <1>1 DEF Launch
  <2>2. Ownership'
    BY <1>1 DEF Ownership, Launch
  <2>3. Locked'
    BY <1>1 DEF Locked, Ownership, Launch
  <2>4. Flagged'
    BY <1>1 DEF Flagged, Ownership, Unsettled, Launch
  <2>5. Unsettled'
    BY <1>1 DEF Unsettled, Ownership, Launch
  <2>6. ClosedMeansExited'
    BY <1>1 DEF ClosedMeansExited, Ownership, Unsettled, Flagged, Launch
  <2>7. NoAnalysisAfterClose'
    BY <1>1 DEF NoAnalysisAfterClose, Ownership, Unsettled, Flagged, Launch
  <2> QED
    BY <2>1, <2>2, <2>3, <2>4, <2>5, <2>6, <2>7 DEF IInv
<1>2. CASE Construct
  <2>1. Types'
    BY <1>2 DEF Construct
  <2>2. Ownership'
    BY <1>2 DEF Ownership, Construct
  <2>3. Locked'
    BY <1>2 DEF Locked, Ownership, Construct
  <2>4. Flagged'
    BY <1>2 DEF Flagged, Ownership, Unsettled, Construct
  <2>5. Unsettled'
    BY <1>2 DEF Unsettled, Ownership, Construct
  <2>6. ClosedMeansExited'
    BY <1>2 DEF ClosedMeansExited, Ownership, Unsettled, Flagged, Construct
  <2>7. NoAnalysisAfterClose'
    BY <1>2 DEF NoAnalysisAfterClose, Ownership, Unsettled, Flagged, Construct
  <2> QED
    BY <2>1, <2>2, <2>3, <2>4, <2>5, <2>6, <2>7 DEF IInv
<1>3. CASE Exit \/ Crash
  <2>1. Types'
    BY <1>3 DEF Exit, Crash, Alive
  <2>2. Ownership'
    BY <1>3 DEF Ownership, Exit, Crash, Alive
  <2>3. Locked'
    BY <1>3 DEF Locked, Ownership, Exit, Crash, Alive
  <2>4. Flagged'
    BY <1>3 DEF Flagged, Ownership, Unsettled, Exit, Crash, Alive
  <2>5. Unsettled'
    BY <1>3 DEF Unsettled, Ownership, Exit, Crash, Alive
  <2>6. ClosedMeansExited'
    BY <1>3 DEF ClosedMeansExited, Ownership, Unsettled, Flagged, Exit, Crash, Alive
  <2>7. NoAnalysisAfterClose'
    BY <1>3 DEF NoAnalysisAfterClose, Ownership, Unsettled, Flagged, Exit, Crash, Alive
  <2> QED
    BY <2>1, <2>2, <2>3, <2>4, <2>5, <2>6, <2>7 DEF IInv
<1>4. ASSUME NEW c \in Callers, NEW operation \in {"analyse", "close", "force_terminate"}, Enter(c, operation)
      PROVE  IInv'
  <2>1. Types'
    <3>1. child' \in Children /\ owner' \in Owners /\ closed' \in BOOLEAN /\ holder' \in Callers \cup {Nobody}
      BY <1>4 DEF Enter
    <3>2. at' \in [Callers -> Places] /\ call' \in [Callers -> Operations] /\ result' \in [Callers -> Results]
      BY <1>4 DEF Enter
    <3>3. calls' \in [Callers -> 0..MaxCalls]
      <4>1. calls[c] + 1 \in 0..MaxCalls
        <5>1. calls[c] \in 0..MaxCalls /\ calls[c] < MaxCalls
          BY <1>4 DEF Enter
        <5> QED
          BY <5>1, OneMore, Zenon
      <4>2. calls' = [calls EXCEPT ![c] = calls[c] + 1] /\ calls \in [Callers -> 0..MaxCalls]
        BY <1>4 DEF Enter
      <4> QED
        BY <4>1, <4>2, Zenon
    <3>4. late' \in [Callers -> BOOLEAN]
      <4>1. Returned \in BOOLEAN
        BY Zenon DEF Returned
      <4>2. late' = [late EXCEPT ![c] = Returned]
        BY <1>4 DEF Enter
      <4> QED
        BY <4>1, <4>2
    <3> QED
      BY <3>1, <3>2, <3>3, <3>4 DEF Types
  <2>2. Ownership'
    BY <1>4 DEF Ownership, Enter, Returned
  <2>3. Locked'
    BY <1>4 DEF Locked, Ownership, Enter, Returned
  <2>4. Flagged'
    BY <1>4 DEF Flagged, Ownership, Unsettled, Enter, Returned
  <2>5. Unsettled'
    BY <1>4 DEF Unsettled, Ownership, Enter, Returned
  <2>6. ClosedMeansExited'
    BY <1>4 DEF ClosedMeansExited, Ownership, Unsettled, Flagged, Enter, Returned
  <2>7. NoAnalysisAfterClose'
    BY <1>4 DEF NoAnalysisAfterClose, Ownership, Unsettled, Flagged, Enter, Returned
  <2> QED
    BY <2>1, <2>2, <2>3, <2>4, <2>5, <2>6, <2>7 DEF IInv
<1>5. ASSUME NEW c \in Callers, TestClosed(c) PROVE IInv'
  <2>1. Types'
    BY <1>5 DEF TestClosed, Go, Return, Steady
  <2>2. Ownership'
    BY <1>5 DEF Ownership, TestClosed, Go, Return, Steady
  <2>3. Locked'
    BY <1>5 DEF Locked, Ownership, TestClosed, Go, Return, Steady
  <2>4. Flagged'
    BY <1>5 DEF Flagged, Ownership, Unsettled, TestClosed, Go, Return, Steady
  <2>5. Unsettled'
    BY <1>5 DEF Unsettled, Ownership, TestClosed, Go, Return, Steady
  <2>6. ClosedMeansExited'
    BY <1>5 DEF ClosedMeansExited, Ownership, Unsettled, Flagged, TestClosed, Go, Return, Steady
  <2>7. NoAnalysisAfterClose'
    BY <1>5 DEF NoAnalysisAfterClose, Ownership, Unsettled, Flagged, TestClosed, Go, Return, Steady
  <2> QED
    BY <2>1, <2>2, <2>3, <2>4, <2>5, <2>6, <2>7 DEF IInv
<1>6. ASSUME NEW c \in Callers, TakeLock(c) PROVE IInv'
  <2>1. Types'
    BY <1>6 DEF TakeLock, Go, Return, Steady
  <2>2. Ownership'
    BY <1>6 DEF Ownership, TakeLock, Go, Return, Steady
  <2>3. Locked'
    <3>1. CASE holder # Nobody
      BY <1>6, <3>1 DEF Locked, TakeLock, Return, Steady
    <3>2. CASE holder = Nobody
      <4>1. holder' = c /\ at' = [at EXCEPT ![c] = "engine"] /\ call' = call
        BY <1>6, <3>2 DEF TakeLock, Go, Steady
      <4>2. \A d \in Callers : ~ (at[d] \in {"engine", "terminate", "wait"} /\ call[d] = "analyse")
        BY <3>2 DEF Locked
      <4>3. call[c] = "analyse"
        BY <1>6 DEF TakeLock
      <4> QED
        BY <4>1, <4>2, <4>3 DEF Locked
    <3> QED
      BY <3>1, <3>2
  <2>4. Flagged'
    BY <1>6 DEF Flagged, Ownership, Unsettled, TakeLock, Go, Return, Steady
  <2>5. Unsettled'
    BY <1>6 DEF Unsettled, Ownership, TakeLock, Go, Return, Steady
  <2>6. ClosedMeansExited'
    BY <1>6 DEF ClosedMeansExited, Ownership, Unsettled, Flagged, TakeLock, Go, Return, Steady
  <2>7. NoAnalysisAfterClose'
    BY <1>6 DEF NoAnalysisAfterClose, Ownership, Unsettled, Flagged, TakeLock, Go, Return, Steady
  <2> QED
    BY <2>1, <2>2, <2>3, <2>4, <2>5, <2>6, <2>7 DEF IInv
<1>7. ASSUME NEW c \in Callers, Answer(c) PROVE IInv'
  <2>1. Types'
    BY <1>7 DEF Answer, Return, Steady
  <2>2. Ownership'
    BY <1>7 DEF Ownership, Answer, Return, Steady
  <2>3. Locked'
    BY <1>7 DEF Locked, Ownership, Answer, Return, Steady
  <2>4. Flagged'
    BY <1>7 DEF Flagged, Ownership, Unsettled, Answer, Return, Steady
  <2>5. Unsettled'
    BY <1>7 DEF Unsettled, Ownership, Answer, Return, Steady
  <2>6. ClosedMeansExited'
    BY <1>7 DEF ClosedMeansExited, Ownership, Unsettled, Flagged, Answer, Return, Steady
  <2>7. NoAnalysisAfterClose'
    BY <1>7 DEF NoAnalysisAfterClose, Ownership, Unsettled, Flagged, Answer, Return, Steady
  <2> QED
    BY <2>1, <2>2, <2>3, <2>4, <2>5, <2>6, <2>7 DEF IInv
<1>8. ASSUME NEW c \in Callers, AnalysisRaises(c) PROVE IInv'
  <2>1. Types'
    BY <1>8 DEF AnalysisRaises, Return, Steady
  <2>2. Ownership'
    BY <1>8 DEF Ownership, AnalysisRaises, Return, Steady
  <2>3. Locked'
    BY <1>8 DEF Locked, Ownership, AnalysisRaises, Return, Steady
  <2>4. Flagged'
    BY <1>8 DEF Flagged, Ownership, Unsettled, AnalysisRaises, Return, Steady
  <2>5. Unsettled'
    BY <1>8 DEF Unsettled, Ownership, AnalysisRaises, Return, Steady
  <2>6. ClosedMeansExited'
    BY <1>8 DEF ClosedMeansExited, Ownership, Unsettled, Flagged, AnalysisRaises, Return, Steady
  <2>7. NoAnalysisAfterClose'
    BY <1>8 DEF NoAnalysisAfterClose, Ownership, Unsettled, Flagged, AnalysisRaises, Return, Steady
  <2> QED
    BY <2>1, <2>2, <2>3, <2>4, <2>5, <2>6, <2>7 DEF IInv
<1>9. ASSUME NEW c \in Callers, Watchdog(c) PROVE IInv'
  <2>1. Types'
    BY <1>9 DEF Watchdog, Go, Steady
  <2>2. Ownership'
    BY <1>9 DEF Ownership, Watchdog, Go, Steady
  <2>3. Locked'
    BY <1>9 DEF Locked, Ownership, Watchdog, Go, Steady
  <2>4. Flagged'
    BY <1>9 DEF Flagged, Ownership, Unsettled, Watchdog, Go, Steady
  <2>5. Unsettled'
    BY <1>9 DEF Unsettled, Ownership, Watchdog, Go, Steady
  <2>6. ClosedMeansExited'
    BY <1>9 DEF ClosedMeansExited, Ownership, Unsettled, Flagged, Watchdog, Go, Steady
  <2>7. NoAnalysisAfterClose'
    BY <1>9 DEF NoAnalysisAfterClose, Ownership, Unsettled, Flagged, Watchdog, Go, Steady
  <2> QED
    BY <2>1, <2>2, <2>3, <2>4, <2>5, <2>6, <2>7 DEF IInv
<1>10. ASSUME NEW c \in Callers, SetClosed(c) PROVE IInv'
  <2>1. Types'
    BY <1>10 DEF SetClosed, Go, Steady
  <2>2. Ownership'
    BY <1>10 DEF Ownership, SetClosed, Go, Steady
  <2>3. Locked'
    BY <1>10 DEF Locked, Ownership, SetClosed, Go, Steady
  <2>4. Flagged'
    BY <1>10 DEF Flagged, Ownership, Unsettled, SetClosed, Go, Steady
  <2>5. Unsettled'
    BY <1>10 DEF Unsettled, Ownership, SetClosed, Go, Steady
  <2>6. ClosedMeansExited'
    BY <1>10 DEF ClosedMeansExited, Ownership, Unsettled, Flagged, SetClosed, Go, Steady
  <2>7. NoAnalysisAfterClose'
    BY <1>10 DEF NoAnalysisAfterClose, Ownership, Unsettled, Flagged, SetClosed, Go, Steady
  <2> QED
    BY <2>1, <2>2, <2>3, <2>4, <2>5, <2>6, <2>7 DEF IInv
<1>11. ASSUME NEW c \in Callers, Quit(c) PROVE IInv'
  <2>1. Types'
    BY <1>11 DEF Quit, Go, Return, Steady
  <2>2. Ownership'
    BY <1>11 DEF Ownership, Quit, Go, Return, Steady
  <2>3. Locked'
    BY <1>11 DEF Locked, Ownership, Quit, Go, Return, Steady
  <2>4. Flagged'
    BY <1>11 DEF Flagged, Ownership, Unsettled, Quit, Go, Return, Steady
  <2>5. Unsettled'
    BY <1>11 DEF Unsettled, Ownership, Quit, Go, Return, Steady
  <2>6. ClosedMeansExited'
    BY <1>11 DEF ClosedMeansExited, Ownership, Unsettled, Flagged, Quit, Go, Return, Steady
  <2>7. NoAnalysisAfterClose'
    BY <1>11 DEF NoAnalysisAfterClose, Ownership, Unsettled, Flagged, Quit, Go, Return, Steady
  <2> QED
    BY <2>1, <2>2, <2>3, <2>4, <2>5, <2>6, <2>7 DEF IInv
<1>12. ASSUME NEW c \in Callers, Terminate(c) PROVE IInv'
  <2>1. Types'
    BY <1>12 DEF Terminate, Go, Steady
  <2>2. Ownership'
    BY <1>12 DEF Ownership, Terminate, Go, Steady
  <2>3. Locked'
    BY <1>12 DEF Locked, Ownership, Terminate, Go, Steady
  <2>4. Flagged'
    BY <1>12 DEF Flagged, Ownership, Unsettled, Terminate, Go, Steady
  <2>5. Unsettled'
    BY <1>12 DEF Unsettled, Ownership, Terminate, Go, Steady
  <2>6. ClosedMeansExited'
    BY <1>12 DEF ClosedMeansExited, Ownership, Unsettled, Flagged, Terminate, Go, Steady
  <2>7. NoAnalysisAfterClose'
    BY <1>12 DEF NoAnalysisAfterClose, Ownership, Unsettled, Flagged, Terminate, Go, Steady
  <2> QED
    BY <2>1, <2>2, <2>3, <2>4, <2>5, <2>6, <2>7 DEF IInv
<1>13. ASSUME NEW c \in Callers, WaitExited(c) PROVE IInv'
  <2>1. Types'
    BY <1>13 DEF WaitExited, Release, Return, Steady
  <2>2. Ownership'
    BY <1>13 DEF Ownership, WaitExited, Release, Return, Steady
  <2>3. Locked'
    BY <1>13 DEF Locked, Ownership, WaitExited, Release, Return, Steady
  <2>4. Flagged'
    BY <1>13 DEF Flagged, Ownership, Unsettled, WaitExited, Release, Return, Steady
  <2>5. Unsettled'
    BY <1>13 DEF Unsettled, Ownership, WaitExited, Release, Return, Steady
  <2>6. ClosedMeansExited'
    BY <1>13 DEF ClosedMeansExited, Ownership, Unsettled, Flagged, WaitExited, Release, Return, Steady
  <2>7. NoAnalysisAfterClose'
    BY <1>13 DEF NoAnalysisAfterClose, Ownership, Unsettled, Flagged, WaitExited, Release, Return, Steady
  <2> QED
    BY <2>1, <2>2, <2>3, <2>4, <2>5, <2>6, <2>7 DEF IInv
<1>14. CASE UNCHANGED vars
  <2>1. Types'
    BY <1>14 DEF vars
  <2>2. Ownership'
    BY <1>14 DEF Ownership, vars
  <2>3. Locked'
    BY <1>14 DEF Locked, Ownership, vars
  <2>4. Flagged'
    BY <1>14 DEF Flagged, Ownership, Unsettled, vars
  <2>5. Unsettled'
    BY <1>14 DEF Unsettled, Ownership, vars
  <2>6. ClosedMeansExited'
    BY <1>14 DEF ClosedMeansExited, Ownership, Unsettled, Flagged, vars
  <2>7. NoAnalysisAfterClose'
    BY <1>14 DEF NoAnalysisAfterClose, Ownership, Unsettled, Flagged, vars
  <2> QED
    BY <2>1, <2>2, <2>3, <2>4, <2>5, <2>6, <2>7 DEF IInv
<1> QED
  BY <1>1, <1>2, <1>3, <1>4, <1>5, <1>6, <1>7, <1>8, <1>9, <1>10, <1>11, <1>12, <1>13, <1>14 DEF Next, Step

LEMMA EngineInvariant == Spec => []IInv
BY InitInv, StepInv, PTL DEF Spec

\* The object, its lock and the process stay well formed.
THEOREM TypesAreCorrect == Spec => []TypeOK
<1>1. IInv => TypeOK
  BY DEF IInv, Types, Ownership, TypeOK, Alive, Children, Owners, Places, Operations, Results
<1> QED
  BY <1>1, EngineInvariant, PTL

\* However many threads close an engine, whoever is told that it is closed finds its process exited.
THEOREM ClosedEnginesHaveExited == Spec => []ClosedMeansExited
BY EngineInvariant, PTL DEF IInv

\* No two threads analyse with one process.
THEOREM AnalysesExclude == Spec => []OneAnalysis
<1>1. IInv => OneAnalysis
  BY DEF IInv, Locked, OneAnalysis
<1> QED
  BY <1>1, EngineInvariant, PTL

\* A closed engine refuses every later analysis.
THEOREM ClosedEnginesRefuse == Spec => []NoAnalysisAfterClose
BY EngineInvariant, PTL DEF IInv

\* Closed engines are gone with any number of threads.
THEOREM ClosedEnginesStayGone == Spec => []ClosedEnginesAreGone
BY TypesAreCorrect, ClosedEnginesHaveExited, AnalysesExclude, ClosedEnginesRefuse, PTL
   DEF ClosedEnginesAreGone

-----------------------------------------------------------------------------
(***************************************************************************)
(* The engine of the database commands (StockfishEngine).  What makes the  *)
(* invariant inductive: the lines on their way from the child to the call  *)
(* are one stream, of the queue, what the reader holds and the pipe; the   *)
(* answer that the call awaits comes last in it, and nothing is left in it *)
(* when a call that keeps the process has ended.                           *)
(***************************************************************************)

\* The values of the variables.

SomeRequest == Requests \cup {NoRequest}
Words == {"nothing", "end", "error", "id name", "uciok", "readyok", "info", "bestmove"}
Looks == {"plain", "stockfish18", "other"} \cup Engine!Forms
Sent == [from : Nat, kind : Words, request : SomeRequest, rank : Nat, form : Looks]
Commands == [kind : {"uci", "setoption", "isready", "go"}, request : SomeRequest]
Systems ==
  [up : BOOLEAN, open : BOOLEAN, commands : Seq(Commands), pipe : Seq(Sent),
   setup : SomeRequest, search : SomeRequest, sent : Nat]
Waiting == {"handshake", "options", "search"}

\* Every variable has its type.
EngineTypes ==
  /\ process \in 0..MaxProcesses /\ verified \in BOOLEAN
  /\ output \in Seq(Sent)
  /\ reader \in [Engine!Processes -> {"none", "reading", "ended"}]
  /\ hand \in [Engine!Processes -> Sent]
  /\ system \in [Engine!Processes -> Systems]
  /\ order = [pc |-> order.pc, request |-> order.request, name |-> order.name, infos |-> order.infos]
  /\ order.pc \in {"idle", "stopped", "started"} \cup Waiting /\ order.request \in SomeRequest
  /\ spawned \in 0..MaxProcesses /\ orders \in 0..MaxOrders

\* Of the processes spawned, only the pipes of the one that is held are open, and only
\* it has commands to follow; a pipe and its reader carry lines of their own process;
\* and the call under way holds a process that it has verified.
Held ==
  /\ process <= spawned
  /\ \A p \in Engine!Processes :
       /\ system[p].open <=> p = process
       /\ p # process => system[p].commands = << >> /\ system[p].search = NoRequest
       /\ spawned < p => reader[p] = "none"
       /\ reader[p] # "reading" => hand[p] = Engine!Nothing
       /\ hand[p] # Engine!Nothing => hand[p].from = p
       /\ \A k \in DOMAIN system[p].pipe : system[p].pipe[k].from = p
  /\ \A k \in DOMAIN output : output[k].from \in Engine!Processes
  /\ order.pc \in {"started", "options", "search"} => verified
  /\ order.pc = "handshake" => process # 0
  /\ order.pc = "idle" /\ process # 0 => verified
  /\ verified => process # 0

\* The lines on their way from the child that is held, the next one first.
InHand(p) == IF hand[p] = Engine!Nothing THEN << >> ELSE <<hand[p]>>
Stream == output \o InHand(process) \o system[process].pipe

\* What a reader puts of its own, and what a call awaits.
Ends == {"end", "error"}
Closings == {"uciok", "readyok", "bestmove"}

\* All lines are of these kinds; nothing but the end follows an answer; and what was
\* found was found for r.
Only(s, kinds) == \A k \in DOMAIN s : s[k].kind \in kinds
Closed(s) == \A j, k \in DOMAIN s : j < k /\ s[j].kind \in Closings => s[k].kind \in Ends
Own(s, r) == \A k \in DOMAIN s : s[k].kind = "info" => s[k].request = r

\* What holds of two sequences holds of them in a row ...
LEMMA Concatenated ==
  ASSUME NEW s \in Seq(Sent), NEW t \in Seq(Sent)
  PROVE  /\ s \o t \in Seq(Sent)
         /\ \A K : Only(s \o t, K) <=> Only(s, K) /\ Only(t, K)
         /\ \A r : Own(s \o t, r) <=> Own(s, r) /\ Own(t, r)
         /\ Closed(s) /\ Only(t, Ends) => Closed(s \o t)
         /\ \A K : Only(s, K) /\ K \cap Closings = {} /\ Closed(t) => Closed(s \o t)
<1>1. /\ s \o t \in Seq(Sent)
      /\ Len(s \o t) = Len(s) + Len(t)
      /\ DOMAIN (s \o t) = 1..(Len(s) + Len(t)) /\ DOMAIN s = 1..Len(s) /\ DOMAIN t = 1..Len(t)
      /\ Len(s) \in Nat /\ Len(t) \in Nat
      /\ \A i \in 1..(Len(s) + Len(t)) : (s \o t)[i] = IF i <= Len(s) THEN s[i] ELSE t[i - Len(s)]
  OBVIOUS
<1>2. \A i \in DOMAIN s : i \in DOMAIN (s \o t) /\ (s \o t)[i] = s[i]
  BY <1>1
<1>3. \A i \in DOMAIN t : i + Len(s) \in DOMAIN (s \o t) /\ (s \o t)[i + Len(s)] = t[i]
  BY <1>1
<1>4. \A i \in DOMAIN (s \o t) :
        \/ i \in DOMAIN s
        \/ i - Len(s) \in DOMAIN t /\ (s \o t)[i] = t[i - Len(s)] /\ \A j \in DOMAIN s : j < i
  BY <1>1
<1>5. \A K : Only(s \o t, K) <=> Only(s, K) /\ Only(t, K)
  BY <1>2, <1>3, <1>4 DEF Only
<1>6. \A r : Own(s \o t, r) <=> Own(s, r) /\ Own(t, r)
  <2> TAKE r
  <2>1. Own(s \o t, r) => Own(s, r) /\ Own(t, r)
    BY <1>2, <1>3 DEF Own
  <2>2. Own(s, r) /\ Own(t, r) => Own(s \o t, r)
    <3> SUFFICES ASSUME Own(s, r), Own(t, r), NEW k \in DOMAIN (s \o t), (s \o t)[k].kind = "info"
                 PROVE  (s \o t)[k].request = r
      BY DEF Own
    <3>1. CASE k \in DOMAIN s
      BY <1>2, <3>1 DEF Own
    <3>2. CASE k \notin DOMAIN s
      BY <1>4, <3>2 DEF Own
    <3> QED
      BY <3>1, <3>2
  <2> QED
    BY <2>1, <2>2
<1>7. ASSUME Closed(s), Only(t, Ends) PROVE Closed(s \o t)
  <2> SUFFICES ASSUME NEW j \in DOMAIN (s \o t), NEW k \in DOMAIN (s \o t), j < k,
                      (s \o t)[j].kind \in Closings
               PROVE  (s \o t)[k].kind \in Ends
    BY DEF Closed
  <2>1. CASE k \in DOMAIN s
    <3>1. j \in DOMAIN s
      BY <1>1, <2>1
    <3> QED
      BY <1>2, <1>7, <2>1, <3>1 DEF Closed
  <2>2. CASE k \notin DOMAIN s
    BY <1>4, <1>7, <2>2 DEF Only
  <2> QED
    BY <2>1, <2>2
<1>8. ASSUME NEW K, Only(s, K), K \cap Closings = {}, Closed(t) PROVE Closed(s \o t)
  <2> SUFFICES ASSUME NEW j \in DOMAIN (s \o t), NEW k \in DOMAIN (s \o t), j < k,
                      (s \o t)[j].kind \in Closings
               PROVE  (s \o t)[k].kind \in Ends
    BY DEF Closed
  <2>1. j \notin DOMAIN s
    BY <1>2, <1>8 DEF Only
  <2>2. j - Len(s) \in DOMAIN t /\ (s \o t)[j] = t[j - Len(s)]
    BY <1>4, <2>1
  <2>3. k \notin DOMAIN s
    BY <1>1, <2>1
  <2>4. k - Len(s) \in DOMAIN t /\ (s \o t)[k] = t[k - Len(s)]
    BY <1>4, <2>3
  <2>5. j - Len(s) < k - Len(s)
    BY <1>1
  <2> QED
    BY <1>8, <2>2, <2>4, <2>5 DEF Closed
<1> QED
  BY <1>1, <1>5, <1>6, <1>7, <1>8

\* ... and of what follows the head.
LEMMA Taken ==
  ASSUME NEW s \in Seq(Sent), s # << >>
  PROVE  /\ Tail(s) \in Seq(Sent) /\ Head(s) \in Sent
         /\ \A K : Only(s, K) => Only(Tail(s), K) /\ Head(s).kind \in K
         /\ \A r : Own(s, r) => Own(Tail(s), r) /\ (Head(s).kind = "info" => Head(s).request = r)
         /\ Closed(s) => Closed(Tail(s)) /\ (Head(s).kind \in Closings => Only(Tail(s), Ends))
<1>1. /\ Tail(s) \in Seq(Sent) /\ Len(s) \in Nat \ {0}
      /\ DOMAIN s = 1..Len(s) /\ DOMAIN Tail(s) = 1..(Len(s) - 1)
      /\ \A i \in 1..(Len(s) - 1) : Tail(s)[i] = s[i + 1]
      /\ Head(s) = s[1] /\ Head(s) \in Sent
  OBVIOUS
<1>2. 1 \in DOMAIN s /\ \A i \in DOMAIN Tail(s) : i + 1 \in DOMAIN s /\ 1 < i + 1 /\ Tail(s)[i] = s[i + 1]
  BY <1>1
<1>3. \A K : Only(s, K) => Only(Tail(s), K) /\ Head(s).kind \in K
  BY <1>1, <1>2 DEF Only
<1>4. \A r : Own(s, r) => Own(Tail(s), r) /\ (Head(s).kind = "info" => Head(s).request = r)
  BY <1>1, <1>2 DEF Own
<1>5. ASSUME Closed(s) PROVE Closed(Tail(s)) /\ (Head(s).kind \in Closings => Only(Tail(s), Ends))
  <2>1. \A i, j \in DOMAIN Tail(s) : i < j => i + 1 < j + 1
    BY <1>1
  <2>2. Closed(Tail(s))
    BY <1>2, <1>5, <2>1 DEF Closed
  <2>3. Head(s).kind \in Closings => Only(Tail(s), Ends)
    BY <1>1, <1>2, <1>5 DEF Closed, Only
  <2> QED
    BY <2>2, <2>3
<1> QED
  BY <1>1, <1>3, <1>4, <1>5

\* One line, and two.
LEMMA Said ==
  ASSUME NEW l \in Sent
  PROVE  /\ <<l>> \in Seq(Sent)
         /\ \A K : Only(<<l>>, K) <=> l.kind \in K
         /\ \A r : Own(<<l>>, r) <=> (l.kind = "info" => l.request = r)
         /\ Closed(<<l>>)
         /\ \A s \in Seq(Sent) : Append(s, l) = s \o <<l>>
<1>1. <<l>> \in Seq(Sent) /\ DOMAIN <<l>> = {1} /\ <<l>>[1] = l
  OBVIOUS
<1>2. \A s \in Seq(Sent) : Append(s, l) = s \o <<l>>
  OBVIOUS
<1> QED
  BY <1>1, <1>2 DEF Only, Own, Closed

-----------------------------------------------------------------------------
(* The constants. *)

\* What the assumption says.
LEMMA Bounds ==
  /\ MaxProcesses \in Nat /\ MaxOrders \in Nat /\ MaxInfos \in Nat
  /\ NoRequest \notin Requests
  /\ Engine!Processes = 1..MaxProcesses /\ Engine!Ranks = 1..MaxInfos
BY EngineHolds DEF Engine!EngineAssumption, Engine!Processes, Engine!Ranks

\* The lines of the model are of their type.
LEMMA LinesAreSent ==
  /\ Engine!Nothing \in Sent /\ Engine!Nothing.from = 0
  /\ \A p \in Engine!Processes, r \in SomeRequest, rank \in Nat, kind \in Words, form \in Looks :
       Engine!Line(p, kind, r, rank, form) \in Sent
  /\ \A p \in Engine!Processes, kind \in Words : Engine!Plain(p, kind) \in Sent
<1>1. \A p \in Nat, r \in SomeRequest, rank \in Nat, kind \in Words, form \in Looks :
        Engine!Line(p, kind, r, rank, form) \in Sent
  BY DEF Sent, Engine!Line
<1>2. \A p \in Nat, kind \in Words : Engine!Plain(p, kind) \in Sent
  <2> NoRequest \in SomeRequest /\ "plain" \in Looks
    BY DEF SomeRequest, Looks
  <2> QED
    BY <1>1 DEF Engine!Plain
<1>3. Engine!Processes \subseteq Nat
  BY Bounds
<1>4. Engine!Nothing \in Sent
  BY <1>2 DEF Engine!Nothing, Words
<1>5. Engine!Nothing.from = 0
  BY DEF Engine!Nothing, Engine!Plain, Engine!Line
<1> QED
  BY <1>1, <1>2, <1>3, <1>4, <1>5

\* So are a child that is new and one that is gone.
LEMMA NewChildren ==
  /\ Engine!NewChild \in Systems /\ Engine!NoChild \in Systems
  /\ Engine!NewChild.up /\ Engine!NewChild.open /\ ~Engine!NoChild.open
  /\ Engine!NewChild.pipe = << >> /\ Engine!NoChild.pipe = << >>
  /\ Engine!NewChild.commands = << >> /\ Engine!NewChild.search = NoRequest
  /\ Engine!NoChild.commands = << >> /\ Engine!NoChild.search = NoRequest
<1>1. << >> \in Seq(Commands) /\ << >> \in Seq(Sent)
  OBVIOUS
<1> QED
  BY <1>1 DEF Engine!NewChild, Engine!NoChild, Systems, SomeRequest

-----------------------------------------------------------------------------
(* The types. *)

\* The types hold at first ...
LEMMA TypesAtFirst == Engine!Init => EngineTypes /\ Held
<1> SUFFICES ASSUME Engine!Init PROVE EngineTypes /\ Held
  OBVIOUS
<1>1. EngineTypes
  <2>1. /\ order = [pc |-> order.pc, request |-> order.request, name |-> order.name, infos |-> order.infos]
        /\ order.pc = "idle" /\ order.request = NoRequest
    BY DEF Engine!Init, Engine!Idle
  <2>2. /\ reader \in [Engine!Processes -> {"none", "reading", "ended"}]
        /\ hand \in [Engine!Processes -> Sent] /\ system \in [Engine!Processes -> Systems]
    BY LinesAreSent, NewChildren DEF Engine!Init
  <2>3. output \in Seq(Sent)
    BY DEF Engine!Init
  <2>5. verified \in BOOLEAN
    BY DEF Engine!Init
  <2>4. process \in 0..MaxProcesses /\ spawned \in 0..MaxProcesses /\ orders \in 0..MaxOrders
    BY Bounds DEF Engine!Init
  <2> QED
    BY <2>1, <2>2, <2>3, <2>4, <2>5 DEF EngineTypes, SomeRequest
<1>2. Held
  BY Bounds, LinesAreSent, NewChildren DEF Engine!Init, Held, Engine!Idle
<1> QED
  BY <1>1, <1>2

\* What ending the process leaves.
LEMMA TerminateTypes ==
  ASSUME EngineTypes, Held, Engine!Terminate
  PROVE  /\ process' = 0 /\ ~verified' /\ verified' \in BOOLEAN
         /\ reader' \in [Engine!Processes -> {"none", "reading", "ended"}]
         /\ hand' \in [Engine!Processes -> Sent]
         /\ system' \in [Engine!Processes -> Systems]
         /\ \A p \in Engine!Processes :
              /\ ~system'[p].open
              /\ system'[p].commands = << >> /\ system'[p].search = NoRequest
              /\ spawned < p => reader'[p] = "none"
              /\ reader'[p] # "reading" => hand'[p] = Engine!Nothing
              /\ hand'[p] # Engine!Nothing => hand'[p].from = p
              /\ \A k \in DOMAIN system'[p].pipe : system'[p].pipe[k].from = p
<1>1. process' = 0 /\ ~verified' /\ verified' \in BOOLEAN
  BY DEF Engine!Terminate
<1>2. CASE process = 0
  BY <1>1, <1>2, Bounds, 0 \notin Engine!Processes DEF Engine!Terminate, EngineTypes, Held
<1>3. CASE process # 0
  <2>1. process \in Engine!Processes /\ process <= spawned
    BY <1>3, Bounds DEF EngineTypes, Held
  <2> DEFINE Cut(left) == [Engine!NoChild EXCEPT !.up = left /\ system[process].up]
  <2>2. PICK behind \in BOOLEAN, left \in BOOLEAN : Engine!Gone(process, behind, left)
    BY <1>3 DEF Engine!Terminate
  <2>3. /\ system' = [system EXCEPT ![process] = Cut(left)]
        /\ reader' = [reader EXCEPT ![process] = IF behind THEN @ ELSE "ended"]
        /\ hand' = [hand EXCEPT ![process] = IF behind THEN @ ELSE Engine!Nothing]
    BY <2>2 DEF Engine!Gone
  <2>7. /\ Cut(left) \in Systems /\ ~Cut(left).open /\ Cut(left).pipe = << >>
        /\ Cut(left).commands = << >> /\ Cut(left).search = NoRequest
    BY <2>1, NewChildren DEF Systems, EngineTypes
  <2> HIDE DEF Cut
  <2>4. /\ reader' \in [Engine!Processes -> {"none", "reading", "ended"}]
        /\ hand' \in [Engine!Processes -> Sent]
        /\ system' \in [Engine!Processes -> Systems]
    BY <2>1, <2>3, <2>7, LinesAreSent DEF EngineTypes
  <2>5. \A p \in Engine!Processes :
          /\ ~system'[p].open
          /\ system'[p].commands = << >> /\ system'[p].search = NoRequest
          /\ \A k \in DOMAIN system'[p].pipe : system'[p].pipe[k].from = p
    BY <2>1, <2>3, <2>7 DEF EngineTypes, Held
  <2>6. \A p \in Engine!Processes :
          /\ spawned < p => reader'[p] = "none"
          /\ reader'[p] # "reading" => hand'[p] = Engine!Nothing
          /\ hand'[p] # Engine!Nothing => hand'[p].from = p
    BY <2>1, <2>3, Bounds DEF EngineTypes, Held
  <2> QED
    BY <1>1, <2>4, <2>5, <2>6
<1> QED
  BY <1>2, <1>3

\* A call that fails.
LEMMA FailHeld ==
  ASSUME EngineTypes, Held, NEW error, Engine!Fail(error)
  PROVE  EngineTypes' /\ Held'
<1>1. /\ Engine!Terminate /\ order' = Engine!Idle
      /\ output' = output /\ spawned' = spawned /\ orders' = orders
  BY DEF Engine!Fail, Engine!Return
<1>2. /\ order' = [pc |-> order'.pc, request |-> order'.request, name |-> order'.name, infos |-> order'.infos]
      /\ order'.pc = "idle" /\ order'.request = NoRequest
  BY <1>1 DEF Engine!Idle
<1>3. EngineTypes'
  BY <1>1, <1>2, TerminateTypes, Bounds DEF EngineTypes, SomeRequest
<1>4. Held'
  BY <1>1, <1>2, TerminateTypes, Bounds DEF Held, EngineTypes
<1> QED
  BY <1>3, <1>4

\* The head of the queue is taken.
LEMMA TookTypes ==
  ASSUME EngineTypes, Held, output # << >>, output' = Tail(output)
  PROVE  /\ output' \in Seq(Sent) /\ Head(output) \in Sent
         /\ \A k \in DOMAIN output' : output'[k].from \in Engine!Processes
<1>1. /\ output \in Seq(Sent) /\ Len(output) \in Nat \ {0} /\ DOMAIN output = 1..Len(output)
      /\ DOMAIN Tail(output) = 1..(Len(output) - 1)
      /\ \A k \in 1..(Len(output) - 1) : Tail(output)[k] = output[k + 1]
  BY DEF EngineTypes
<1>2. \A k \in DOMAIN Tail(output) : k + 1 \in DOMAIN output /\ Tail(output)[k] = output[k + 1]
  BY <1>1
<1> QED
  BY <1>1, <1>2, Taken DEF Held, EngineTypes

\* Commands are sent to the child that runs.
LEMMA SendTypes ==
  ASSUME EngineTypes, Held, Engine!Running, NEW cs \in Seq(Commands), Engine!Send(process, cs)
  PROVE  /\ process \in Engine!Processes /\ system' \in [Engine!Processes -> Systems]
         /\ \A p \in Engine!Processes :
              /\ (system'[p].open <=> system[p].open) /\ system'[p].pipe = system[p].pipe
              /\ p # process => system'[p] = system[p]
<1>1. process \in Engine!Processes
  BY Bounds DEF Engine!Running, EngineTypes
<1>2. /\ system' = [system EXCEPT ![process].commands = @ \o cs]
      /\ system[process] \in Systems
  BY <1>1 DEF Engine!Send, EngineTypes
<1>3. system[process].commands \o cs \in Seq(Commands)
  BY <1>2 DEF Systems
<1> QED
  BY <1>1, <1>2, <1>3 DEF EngineTypes, Systems

\* Whoever only changes the call under way, to one that has what it needs.
LEMMA OrderHeld ==
  ASSUME EngineTypes, Held,
         order' = [pc |-> order'.pc, request |-> order'.request, name |-> order'.name, infos |-> order'.infos],
         order'.pc \in {"idle", "stopped", "started"} \cup Waiting, order'.request \in SomeRequest,
         order'.pc \in {"started", "options", "search"} => verified',
         order'.pc = "handshake" => process # 0,
         order'.pc = "idle" /\ process # 0 => verified',
         verified' \in BOOLEAN, verified' => process # 0,
         output' \in Seq(Sent), \A k \in DOMAIN output' : output'[k].from \in Engine!Processes,
         system' \in [Engine!Processes -> Systems],
         \A p \in Engine!Processes :
           /\ (system'[p].open <=> system[p].open) /\ system'[p].pipe = system[p].pipe
           /\ p # process => system'[p] = system[p],
         orders' \in 0..MaxOrders,
         UNCHANGED <<process, reader, hand, spawned>>
  PROVE  EngineTypes' /\ Held'
<1>1. EngineTypes'
  BY DEF EngineTypes
<1>2. Held'
  BY DEF Held
<1> QED
  BY <1>1, <1>2

\* A child: fields that change, one after the other.
LEMMA Saying ==
  ASSUME NEW c \in Systems, c.commands # << >>, NEW lines \in Seq(Sent)
  PROVE  LET d == [c EXCEPT !.commands = Tail(@), !.pipe = @ \o lines]
         IN  /\ d \in Systems /\ d.commands = Tail(c.commands) /\ d.pipe = c.pipe \o lines
             /\ d.search = c.search /\ (d.up <=> c.up) /\ (d.open <=> c.open)
             /\ Head(c.commands) \in Commands
<1>1. /\ Tail(c.commands) \in Seq(Commands) /\ c.pipe \o lines \in Seq(Sent) /\ Head(c.commands) \in Commands
  BY DEF Systems
<1> QED
  BY <1>1 DEF Systems

\* What a child that runs answers to its next command.
Answered(p, d, lines) ==
  /\ system' = [system EXCEPT ![p] = d]
  /\ (d.open <=> system[p].open)
  /\ system[p].up /\ d.up /\ system[p].commands # << >> /\ system[p].search = NoRequest
  /\ d.commands = Tail(system[p].commands) /\ d.pipe = system[p].pipe \o lines
  /\ \A k \in DOMAIN lines : lines[k].from = p
  /\ \/ /\ Head(system[p].commands).kind = "uci" /\ d.search = NoRequest
        /\ Only(lines, {"id name", "uciok"}) /\ Closed(lines)
     \/ /\ Head(system[p].commands).kind = "setoption" /\ d.search = NoRequest /\ lines = << >>
     \/ /\ Head(system[p].commands).kind = "isready" /\ d.search = NoRequest
        /\ Only(lines, {"readyok"}) /\ Closed(lines)
     \/ /\ Head(system[p].commands).kind = "go" /\ d.search = Head(system[p].commands).request
        /\ lines = << >>
  /\ UNCHANGED <<process, verified, output, reader, hand, order, spawned, orders>>

LEMMA Answering ==
  ASSUME EngineTypes, NEW p \in Engine!Processes, Engine!Answers(p)
  PROVE  \E d \in Systems, lines \in Seq(Sent) : Answered(p, d, lines)
<1> DEFINE c == system[p]
           command == Head(c.commands)
           Say(lines) == [c EXCEPT !.commands = Tail(@), !.pipe = @ \o lines]
<1>1. /\ c.up /\ c.commands # << >> /\ c.search = NoRequest
      /\ UNCHANGED <<process, verified, output, reader, hand, order, spawned, orders>>
  BY DEF Engine!Answers
<1>2. c \in Systems
  BY DEF EngineTypes
<1>3. \A lines \in Seq(Sent) :
        LET d == Say(lines)
        IN  /\ d \in Systems /\ d.commands = Tail(c.commands) /\ d.pipe = c.pipe \o lines
            /\ d.search = NoRequest /\ d.up /\ (d.open <=> c.open)
  BY <1>1, <1>2, Saying
<1>4. command \in Commands
  BY <1>1, <1>2 DEF Systems
<1>5. << >> \in Seq(Sent) /\ DOMAIN << >> = {}
  OBVIOUS
<1>6. CASE command.kind = "uci" /\ \E name \in {"stockfish18", "other"} :
             system' = [system EXCEPT ![p] =
               Say(<<Engine!Line(p, "id name", NoRequest, 0, name), Engine!Plain(p, "uciok")>>)]
  <2>1. PICK name \in {"stockfish18", "other"} :
             system' = [system EXCEPT ![p] =
               Say(<<Engine!Line(p, "id name", NoRequest, 0, name), Engine!Plain(p, "uciok")>>)]
    BY <1>6
  <2> DEFINE a == Engine!Line(p, "id name", NoRequest, 0, name)
             b == Engine!Plain(p, "uciok")
  <2>2. a \in Sent /\ b \in Sent
    <3>1. name \in Looks /\ NoRequest \in SomeRequest /\ "id name" \in Words /\ "uciok" \in Words /\ 0 \in Nat
      BY DEF SomeRequest, Words, Looks
    <3>2. a \in Sent
      BY <3>1, LinesAreSent
    <3>3. b \in Sent
      BY <3>1, LinesAreSent
    <3> QED
      BY <3>2, <3>3
  <2>3. a.kind = "id name" /\ b.kind = "uciok" /\ a.from = p /\ b.from = p
    BY DEF Engine!Line, Engine!Plain
  <2> HIDE DEF a, b
  <2> DEFINE lines == <<a, b>>
  <2>4. lines \in Seq(Sent) /\ DOMAIN lines = {1, 2} /\ lines[1] = a /\ lines[2] = b
    BY <2>2
  <2> HIDE DEF lines
  <2>5. Only(lines, {"id name", "uciok"}) /\ Closed(lines) /\ \A k \in DOMAIN lines : lines[k].from = p
    <3>1. Only(lines, {"id name", "uciok"}) /\ \A k \in DOMAIN lines : lines[k].from = p
      BY <2>3, <2>4 DEF Only
    <3>2. \A j, k \in DOMAIN lines : j < k => j = 1
      BY <2>4
    <3>3. Closed(lines)
      BY <2>3, <2>4, <3>2 DEF Closed, Closings
    <3> QED
      BY <3>1, <3>3
  <2>6. system' = [system EXCEPT ![p] = Say(lines)]
    BY <2>1 DEF lines, a, b
  <2> HIDE DEF Say
  <2> QED
    BY <1>1, <1>3, <1>6, <2>4, <2>5, <2>6 DEF Answered
<1>7. CASE command.kind = "setoption"
           /\ system' = [system EXCEPT ![p] = [Say(<< >>) EXCEPT !.setup = command.request]]
  <2> DEFINE e == Say(<< >>)
             d == [e EXCEPT !.setup = command.request]
  <2>1. /\ e \in Systems /\ e.commands = Tail(c.commands) /\ e.pipe = c.pipe \o << >>
        /\ e.search = NoRequest /\ e.up /\ (e.open <=> c.open)
    BY <1>3, <1>5
  <2> HIDE DEF e
  <2>2. /\ d \in Systems /\ d.commands = Tail(c.commands) /\ d.pipe = c.pipe \o << >>
        /\ d.search = NoRequest /\ d.up /\ (d.open <=> c.open)
    BY <1>4, <2>1 DEF Systems, Commands
  <2>3. system' = [system EXCEPT ![p] = d]
    BY <1>7 DEF e
  <2> HIDE DEF d
  <2> QED
    BY <1>1, <1>5, <1>7, <2>2, <2>3 DEF Answered
<1>8. CASE command.kind = "isready" /\ system' = [system EXCEPT ![p] = Say(<<Engine!Plain(p, "readyok")>>)]
  <2> DEFINE b == Engine!Plain(p, "readyok")
  <2>1. b \in Sent
    BY LinesAreSent DEF Words
  <2>2. b.kind = "readyok" /\ b.from = p
    BY DEF Engine!Line, Engine!Plain
  <2> HIDE DEF b
  <2>3. <<b>> \in Seq(Sent) /\ Only(<<b>>, {"readyok"}) /\ Closed(<<b>>) /\ \A k \in DOMAIN <<b>> : <<b>>[k].from = p
    BY <2>1, <2>2, Said
  <2>4. system' = [system EXCEPT ![p] = Say(<<b>>)]
    BY <1>8 DEF b
  <2> HIDE DEF Say
  <2> QED
    BY <1>1, <1>3, <1>8, <2>3, <2>4 DEF Answered
<1>9. CASE command.kind = "go"
           /\ system' = [system EXCEPT ![p] =
                [Say(<< >>) EXCEPT !.search = command.request, !.setup = NoRequest, !.sent = 0]]
  <2> DEFINE e == Say(<< >>)
             d == [e EXCEPT !.search = command.request, !.setup = NoRequest, !.sent = 0]
  <2>1. /\ e \in Systems /\ e.commands = Tail(c.commands) /\ e.pipe = c.pipe \o << >> /\ e.up /\ (e.open <=> c.open)
    BY <1>3, <1>5
  <2> HIDE DEF e
  <2>2. /\ d \in Systems /\ d.commands = Tail(c.commands) /\ d.pipe = c.pipe \o << >>
        /\ d.search = command.request /\ d.up /\ (d.open <=> c.open)
    BY <1>4, <2>1 DEF Systems, Commands, SomeRequest
  <2>3. system' = [system EXCEPT ![p] = d]
    BY <1>9 DEF e
  <2> HIDE DEF d
  <2> QED
    BY <1>1, <1>5, <1>9, <2>2, <2>3 DEF Answered
<1> HIDE DEF Say
<1> QED
  BY <1>6, <1>7, <1>8, <1>9 DEF Engine!Answers, Say

\* What a child that searches sends.
Searched(p, d, l) ==
  /\ system' = [system EXCEPT ![p] = d]
  /\ (d.open <=> system[p].open)
  /\ system[p].up /\ d.up /\ system[p].search # NoRequest
  /\ d.commands = system[p].commands /\ d.pipe = system[p].pipe \o <<l>> /\ l.from = p
  /\ \/ l.kind = "info" /\ l.request = system[p].search /\ d.search = system[p].search
     \/ l.kind = "bestmove" /\ d.search = NoRequest
  /\ UNCHANGED <<process, verified, output, reader, hand, order, spawned, orders>>

LEMMA Searching ==
  ASSUME EngineTypes, NEW p \in Engine!Processes, Engine!Searches(p)
  PROVE  \E d \in Systems, l \in Sent : Searched(p, d, l)
<1> DEFINE c == system[p]
<1>1. c \in Systems
  BY DEF EngineTypes
<1>2. /\ c.up /\ c.search # NoRequest
      /\ UNCHANGED <<process, verified, output, reader, hand, order, spawned, orders>>
  BY DEF Engine!Searches
<1>3. CASE \E rank \in Engine!Ranks, form \in Engine!Forms :
             system' = [system EXCEPT
               ![p].pipe = Append(@, Engine!Line(p, "info", system[p].search, rank, form)),
               ![p].sent = @ + 1]
  <2>1. PICK rank \in Engine!Ranks, form \in Engine!Forms :
             system' = [system EXCEPT
               ![p].pipe = Append(@, Engine!Line(p, "info", system[p].search, rank, form)),
               ![p].sent = @ + 1]
    BY <1>3
  <2> DEFINE l == Engine!Line(p, "info", system[p].search, rank, form)
             d == [c EXCEPT !.pipe = Append(@, l), !.sent = @ + 1]
  <2>2. l \in Sent
    <3>1. rank \in Nat /\ form \in Looks /\ "info" \in Words /\ system[p].search \in SomeRequest
      BY <1>1, Bounds DEF Looks, Words, Systems
    <3> QED
      BY <3>1, LinesAreSent
  <2>3. l.kind = "info" /\ l.request = c.search /\ l.from = p
    BY DEF Engine!Line
  <2> HIDE DEF l
  <2>4. c.sent + 1 \in Nat /\ Append(c.pipe, l) \in Seq(Sent) /\ Append(c.pipe, l) = c.pipe \o <<l>>
    <3>1. c.sent \in Nat /\ c.pipe \in Seq(Sent)
      BY <1>1 DEF Systems
    <3> QED
      BY <2>2, <3>1, Said
  <2>5. /\ d \in Systems /\ d.commands = c.commands /\ d.pipe = c.pipe \o <<l>>
        /\ d.search = c.search /\ d.up /\ (d.open <=> c.open)
    BY <1>1, <1>2, <2>4 DEF Systems
  <2>6. system' = [system EXCEPT ![p] = d]
    BY <2>1 DEF l, EngineTypes
  <2> HIDE DEF d
  <2> QED
    BY <1>2, <2>2, <2>3, <2>5, <2>6 DEF Searched
<1>4. CASE system' = [system EXCEPT ![p].pipe = Append(@, Engine!Plain(p, "bestmove")), ![p].search = NoRequest]
  <2> DEFINE l == Engine!Plain(p, "bestmove")
             d == [c EXCEPT !.pipe = Append(@, l), !.search = NoRequest]
  <2>1. l \in Sent
    BY LinesAreSent DEF Words
  <2>2. l.kind = "bestmove" /\ l.from = p
    BY DEF Engine!Line, Engine!Plain
  <2> HIDE DEF l
  <2>3. Append(c.pipe, l) \in Seq(Sent) /\ Append(c.pipe, l) = c.pipe \o <<l>>
    BY <1>1, <2>1 DEF Systems
  <2>4. /\ d \in Systems /\ d.commands = c.commands /\ d.pipe = c.pipe \o <<l>>
        /\ d.search = NoRequest /\ d.up /\ (d.open <=> c.open)
    BY <1>1, <1>2, <2>3 DEF Systems, SomeRequest
  <2>5. system' = [system EXCEPT ![p] = d]
    BY <1>4 DEF l, EngineTypes
  <2> HIDE DEF d
  <2> QED
    BY <1>2, <2>1, <2>2, <2>4, <2>5 DEF Searched
<1> QED
  BY <1>3, <1>4 DEF Engine!Searches

\* What a reader takes from its pipe.
HasRead(p, l, d) ==
  /\ hand' = [hand EXCEPT ![p] = l] /\ system' = [system EXCEPT ![p] = d]
  /\ (d.open <=> system[p].open)
  /\ l.from = p /\ (d.up <=> system[p].up) /\ hand[p] = Engine!Nothing
  /\ d.commands = system[p].commands /\ d.search = system[p].search
  /\ \A k \in DOMAIN d.pipe : d.pipe[k].from = p
  /\ \/ system[p].pipe # << >> /\ l = Head(system[p].pipe) /\ d.pipe = Tail(system[p].pipe)
     \/ l.kind = "end" /\ system[p].pipe = << >> /\ d.pipe = << >>
     \/ l.kind = "error" /\ ~system[p].open /\ d.pipe = system[p].pipe

LEMMA Reading ==
  ASSUME EngineTypes, Held, NEW p \in Engine!Processes, Engine!Reads(p)
  PROVE  \E l \in Sent, d \in Systems : HasRead(p, l, d)
<1> DEFINE c == system[p]
<1>1. c \in Systems
  BY DEF EngineTypes
<1>2. hand[p] = Engine!Nothing
  BY DEF Engine!Reads
<1>3. \A k \in DOMAIN c.pipe : c.pipe[k].from = p
  BY DEF Held
<1>4. CASE c.pipe # << >> /\ hand' = [hand EXCEPT ![p] = Head(c.pipe)]
           /\ system' = [system EXCEPT ![p].pipe = Tail(@)]
  <2> DEFINE d == [c EXCEPT !.pipe = Tail(@)]
             s == c.pipe
  <2>1. s \in Seq(Sent) /\ s # << >>
    BY <1>1, <1>4 DEF Systems
  <2> HIDE DEF s
  <2>2. /\ Head(s) \in Sent /\ Tail(s) \in Seq(Sent) /\ Len(s) \in Nat \ {0} /\ DOMAIN s = 1..Len(s)
        /\ Head(s) = s[1] /\ DOMAIN Tail(s) = 1..(Len(s) - 1)
        /\ \A k \in 1..(Len(s) - 1) : Tail(s)[k] = s[k + 1]
    BY <2>1
  <2>3. 1 \in DOMAIN s /\ \A k \in DOMAIN Tail(s) : k + 1 \in DOMAIN s /\ Tail(s)[k] = s[k + 1]
    BY <2>2
  <2>4. Head(s).from = p /\ \A k \in DOMAIN Tail(s) : Tail(s)[k].from = p
    BY <1>3, <2>2, <2>3 DEF s
  <2>5. /\ d \in Systems /\ d.pipe = Tail(s) /\ (d.up <=> c.up) /\ (d.open <=> c.open) /\ d.commands = c.commands /\ d.search = c.search
    BY <1>1, <2>2 DEF Systems, s
  <2>6. system' = [system EXCEPT ![p] = d]
    BY <1>4 DEF EngineTypes
  <2>7. hand' = [hand EXCEPT ![p] = Head(s)] /\ c.pipe = s
    BY <1>4 DEF s
  <2> HIDE DEF d
  <2> QED
    <3>1. HasRead(p, Head(s), d)
      BY <1>2, <2>1, <2>2, <2>4, <2>5, <2>6, <2>7 DEF HasRead
    <3> QED
      BY <2>2, <2>5, <3>1
<1>5. ASSUME NEW kind \in Words, hand' = [hand EXCEPT ![p] = Engine!Plain(p, kind)], UNCHANGED system
      PROVE  /\ Engine!Plain(p, kind) \in Sent /\ Engine!Plain(p, kind).from = p /\ Engine!Plain(p, kind).kind = kind
             /\ system' = [system EXCEPT ![p] = c]
  BY <1>5, LinesAreSent DEF Engine!Plain, Engine!Line, EngineTypes
<1>6. CASE ~c.open /\ hand' = [hand EXCEPT ![p] = Engine!Plain(p, "error")] /\ UNCHANGED system
  <2>1. "error" \in Words
    BY DEF Words
  <2> QED
    BY <1>1, <1>2, <1>3, <1>5, <1>6, <2>1 DEF HasRead
<1>7. CASE c.pipe = << >> /\ hand' = [hand EXCEPT ![p] = Engine!Plain(p, "end")] /\ UNCHANGED system
  <2>1. "end" \in Words
    BY DEF Words
  <2> QED
    BY <1>1, <1>2, <1>3, <1>5, <1>7, <2>1 DEF HasRead
<1> QED
  BY <1>4, <1>6, <1>7 DEF Engine!Reads

\* ... and after every step, however late the readers.
LEMMA EngineStep == EngineTypes /\ Held /\ Engine!Next => EngineTypes' /\ Held'
<1> SUFFICES ASSUME EngineTypes, Held, Engine!Next PROVE EngineTypes' /\ Held'
  OBVIOUS
<1>1. ASSUME NEW r \in SomeRequest, Engine!Call(r) PROVE EngineTypes' /\ Held'
  <2>1. /\ order' = [Engine!Idle EXCEPT !.pc = IF verified /\ Engine!Running THEN "started" ELSE "stopped",
                                        !.request = r]
        /\ orders < MaxOrders /\ orders' = orders + 1
        /\ UNCHANGED <<process, verified, output, reader, hand, system, spawned>>
    BY <1>1 DEF Engine!Call
  <2>2. orders' \in 0..MaxOrders
    BY <2>1, Bounds DEF EngineTypes
  <2>3. /\ order' = [pc |-> order'.pc, request |-> order'.request, name |-> order'.name, infos |-> order'.infos]
        /\ order'.pc \in {"stopped", "started"} /\ order'.request = r
        /\ order'.pc = "started" => verified
    BY <2>1 DEF Engine!Idle
  <2> QED
    BY <2>1, <2>2, <2>3, OrderHeld DEF EngineTypes, Held, Waiting
<1>2. CASE Engine!EndsOld
  <2>1. /\ Engine!Terminate /\ order.pc = "stopped"
        /\ UNCHANGED <<output, order, spawned, orders>>
    BY <1>2 DEF Engine!EndsOld
  <2>2. EngineTypes'
    BY <2>1, TerminateTypes, Bounds DEF EngineTypes
  <2>3. Held'
    BY <2>1, TerminateTypes, Bounds DEF Held, EngineTypes
  <2> QED
    BY <2>2, <2>3
<1>3. CASE Engine!Spawn
  <2>1. CASE Engine!Fail("StockfishStartupError")
    BY <2>1, FailHeld
  <2>2. CASE ~Engine!Fail("StockfishStartupError")
    <3> DEFINE p == spawned + 1
               c == [Engine!NewChild EXCEPT !.commands = <<[kind |-> "uci", request |-> NoRequest]>>]
    <3>1. /\ order.pc = "stopped" /\ process = 0 /\ spawned < MaxProcesses
          /\ spawned' = p /\ process' = p /\ output' = << >>
          /\ reader' = [reader EXCEPT ![p] = "reading"]
          /\ system' = [system EXCEPT ![p] = c]
          /\ order' = [order EXCEPT !.pc = "handshake"]
          /\ UNCHANGED <<verified, hand, orders>>
      BY <1>3, <2>2 DEF Engine!Spawn
    <3>2. p \in Engine!Processes /\ p \in 0..MaxProcesses /\ p # 0 /\ spawned < p /\ p \in Nat
      BY <3>1, Bounds DEF EngineTypes
    <3>3. c \in Systems /\ c.open /\ c.pipe = << >>
      <4>1. <<[kind |-> "uci", request |-> NoRequest]>> \in Seq(Commands)
        BY DEF Commands, SomeRequest
      <4> QED
        BY <4>1, NewChildren DEF Systems
    <3>4. /\ order' = [pc |-> order'.pc, request |-> order'.request, name |-> order'.name, infos |-> order'.infos]
          /\ order'.pc = "handshake" /\ order'.request = order.request
      BY <3>1 DEF EngineTypes
    <3>5. << >> \in Seq(Sent) /\ DOMAIN << >> = {}
      OBVIOUS
    <3> HIDE DEF p, c
    <3>6. EngineTypes'
      BY <3>1, <3>2, <3>3, <3>4, <3>5 DEF EngineTypes, Waiting
    <3>7. \A q \in Engine!Processes :
            /\ system'[q].open <=> q = process'
            /\ q # process' => system'[q].commands = << >> /\ system'[q].search = NoRequest
            /\ \A k \in DOMAIN system'[q].pipe : system'[q].pipe[k].from = q
      <4> TAKE q \in Engine!Processes
      <4>1. system'[q] = IF q = p THEN c ELSE system[q]
        BY <3>1, <3>2 DEF EngineTypes
      <4>2. ~system[q].open /\ system[q].commands = << >> /\ system[q].search = NoRequest
        BY <3>1, <3>2, Bounds DEF Held
      <4>3. CASE q = p
        BY <3>1, <3>3, <3>5, <4>1, <4>3
      <4>4. CASE q # p
        BY <3>1, <4>1, <4>2, <4>4 DEF Held
      <4> QED
        BY <4>3, <4>4
    <3>8. \A q \in Engine!Processes :
            /\ spawned' < q => reader'[q] = "none"
            /\ reader'[q] # "reading" => hand'[q] = Engine!Nothing
            /\ hand'[q] # Engine!Nothing => hand'[q].from = q
      BY <3>1, <3>2, Bounds DEF EngineTypes, Held
    <3>9. Held'
      BY <3>1, <3>2, <3>4, <3>5, <3>7, <3>8 DEF EngineTypes, Held
    <3> QED
      BY <3>6, <3>9
  <2> QED
    BY <2>1, <2>2
<1>4. CASE Engine!Configure
  <2> DEFINE cs == <<[kind |-> "setoption", request |-> order.request], [kind |-> "isready", request |-> NoRequest]>>
  <2>1. /\ order.pc = "started" /\ Engine!Running /\ Engine!Send(process, cs)
        /\ order' = [order EXCEPT !.pc = "options"]
        /\ UNCHANGED <<process, verified, output, reader, hand, spawned, orders>>
    BY <1>4 DEF Engine!Configure
  <2>2. cs \in Seq(Commands)
    BY DEF Commands, SomeRequest, EngineTypes
  <2>3. /\ order' = [pc |-> order'.pc, request |-> order'.request, name |-> order'.name, infos |-> order'.infos]
        /\ order'.pc = "options" /\ order'.request = order.request
    BY <2>1 DEF EngineTypes
  <2> HIDE DEF cs
  <2> QED
    BY <2>1, <2>2, <2>3, SendTypes, OrderHeld DEF EngineTypes, Held, Waiting
<1>5. CASE Engine!NoSearch
  <2>1. /\ order.pc = "started" /\ order' = Engine!Idle
        /\ UNCHANGED <<process, verified, output, reader, hand, system, spawned, orders>>
    BY <1>5 DEF Engine!NoSearch, Engine!Return
  <2> QED
    BY <2>1, OrderHeld DEF EngineTypes, Held, Engine!Idle, SomeRequest
<1>6. CASE Engine!Rejected
  BY <1>6, FailHeld DEF Engine!Rejected
<1>7. CASE Engine!Handshake
  <2>1. CASE Engine!Fail("StockfishIdentityError")
    BY <2>1, FailHeld
  <2>2. CASE ~Engine!Fail("StockfishIdentityError")
    <3>1. /\ order.pc = "handshake" /\ output # << >> /\ output' = Tail(output)
          /\ UNCHANGED <<process, reader, hand, system, spawned, orders>>
      BY <1>7, <2>2 DEF Engine!Handshake, Engine!Takes, Engine!Took
    <3>2. process # 0
      BY <3>1 DEF Held
    <3>3. CASE (order' = [order EXCEPT !.name = Head(output).form] \/ order' = order) /\ verified' = verified
      <4>1. /\ order' = [pc |-> order'.pc, request |-> order'.request, name |-> order'.name, infos |-> order'.infos]
            /\ order'.pc = "handshake" /\ order'.request = order.request
        BY <3>1, <3>3 DEF EngineTypes
      <4> QED
        BY <3>1, <3>2, <3>3, <4>1, TookTypes, OrderHeld DEF EngineTypes, Waiting
    <3>4. CASE order' = [order EXCEPT !.pc = "started"] /\ verified' = TRUE
      <4>1. /\ order' = [pc |-> order'.pc, request |-> order'.request, name |-> order'.name, infos |-> order'.infos]
            /\ order'.pc = "started" /\ order'.request = order.request
        BY <3>1, <3>4 DEF EngineTypes
      <4> QED
        BY <3>1, <3>2, <3>4, <4>1, TookTypes, OrderHeld DEF EngineTypes
    <3> QED
      BY <1>7, <2>2, <3>3, <3>4 DEF Engine!Handshake, Engine!Took
  <2> QED
    BY <2>1, <2>2
<1>8. CASE Engine!Ready
  <2>1. CASE Engine!Fail("StockfishProcessError")
    BY <2>1, FailHeld
  <2>2. CASE ~Engine!Fail("StockfishProcessError")
    <3> DEFINE cs == <<[kind |-> "go", request |-> order.request]>>
    <3>1. /\ order.pc = "options" /\ output # << >> /\ output' = Tail(output)
          /\ \/ order' = order /\ system' = system
             \/ /\ Engine!Running /\ Engine!Send(process, cs)
                /\ order' = [order EXCEPT !.pc = "search"]
          /\ UNCHANGED <<process, verified, reader, hand, spawned, orders>>
      BY <1>8, <2>2 DEF Engine!Ready, Engine!Takes, Engine!Took
    <3>2. cs \in Seq(Commands)
      BY DEF Commands, EngineTypes
    <3> HIDE DEF cs
    <3>3. /\ system' \in [Engine!Processes -> Systems]
          /\ \A p \in Engine!Processes :
               /\ (system'[p].open <=> system[p].open) /\ system'[p].pipe = system[p].pipe
               /\ p # process => system'[p] = system[p]
      <4>1. CASE system' = system
        BY <4>1 DEF EngineTypes
      <4>2. CASE Engine!Running /\ Engine!Send(process, cs)
        BY <3>2, <4>2, SendTypes
      <4> QED
        BY <3>1, <4>1, <4>2
    <3>4. /\ order' = [pc |-> order'.pc, request |-> order'.request, name |-> order'.name, infos |-> order'.infos]
          /\ order'.pc \in {"options", "search"} /\ order'.request = order.request
      BY <3>1 DEF EngineTypes
    <3> QED
      BY <3>1, <3>3, <3>4, TookTypes, OrderHeld DEF EngineTypes, Held, Waiting
  <2> QED
    BY <2>1, <2>2
<1>9. CASE Engine!Info
  <2>1. CASE Engine!Fail("NameError")
    BY <2>1, FailHeld
  <2>2. CASE ~Engine!Fail("NameError")
    <3>1. /\ order.pc = "search" /\ output # << >> /\ output' = Tail(output)
          /\ \/ order' = order
             \/ order' = [order EXCEPT !.infos = [k \in DOMAIN @ \cup {Head(output).rank} |->
                                       IF k = Head(output).rank THEN Head(output) ELSE @[k]]]
          /\ UNCHANGED <<process, verified, reader, hand, system, spawned, orders>>
      BY <1>9, <2>2 DEF Engine!Info, Engine!Takes, Engine!Took
    <3>2. /\ order' = [pc |-> order'.pc, request |-> order'.request, name |-> order'.name, infos |-> order'.infos]
          /\ order'.pc = "search" /\ order'.request = order.request
      BY <3>1 DEF EngineTypes
    <3> QED
      BY <3>1, <3>2, TookTypes, OrderHeld DEF EngineTypes, Held, Waiting
  <2> QED
    BY <2>1, <2>2
<1>10. CASE Engine!Bestmove
  <2>1. CASE Engine!Fail("StockfishProtocolError")
    BY <2>1, FailHeld
  <2>2. CASE ~Engine!Fail("StockfishProtocolError")
    <3>1. /\ order.pc = "search" /\ output # << >> /\ output' = Tail(output) /\ order' = Engine!Idle
          /\ UNCHANGED <<process, verified, reader, hand, system, spawned, orders>>
      BY <1>10, <2>2 DEF Engine!Bestmove, Engine!Takes, Engine!Return
    <3>2. /\ order' = [pc |-> order'.pc, request |-> order'.request, name |-> order'.name, infos |-> order'.infos]
          /\ order'.pc = "idle" /\ order'.request = NoRequest
      BY <3>1 DEF Engine!Idle
    <3> QED
      BY <3>1, <3>2, TookTypes, OrderHeld DEF EngineTypes, Held, SomeRequest
  <2> QED
    BY <2>1, <2>2
<1>11. CASE Engine!StreamEnds \/ Engine!Expire
  BY <1>11, FailHeld DEF Engine!StreamEnds, Engine!Expire
<1>12. CASE Engine!Interrupt
  BY <1>12, FailHeld DEF Engine!Interrupt
<1>13. CASE Engine!Close
  <2>1. /\ Engine!Terminate /\ order.pc = "idle"
        /\ UNCHANGED <<output, order, spawned, orders>>
    BY <1>13 DEF Engine!Close
  <2>2. EngineTypes'
    BY <2>1, TerminateTypes, Bounds DEF EngineTypes
  <2>3. Held'
    BY <2>1, TerminateTypes, Bounds DEF Held, EngineTypes
  <2> QED
    BY <2>2, <2>3
<1>14. ASSUME NEW p \in Engine!Processes, NEW lines \in Seq(Sent), p = process,
              system'[p].open <=> system[p].open,
              system' \in [Engine!Processes -> Systems],
              \A q \in Engine!Processes : q # p => system'[q] = system[q],
              system'[p].pipe = system[p].pipe \o lines,
              \A k \in DOMAIN lines : lines[k].from = p,
              UNCHANGED <<process, verified, output, reader, hand, order, spawned, orders>>
       PROVE  EngineTypes' /\ Held'
  <2>1. EngineTypes'
    BY <1>14 DEF EngineTypes
  <2>2. \A k \in DOMAIN system'[p].pipe : system'[p].pipe[k].from = p
    <3> DEFINE pipe == system[p].pipe
    <3>1. pipe \in Seq(Sent) /\ \A k \in DOMAIN pipe : pipe[k].from = p
      BY DEF EngineTypes, Systems, Held
    <3> HIDE DEF pipe
    <3>2. \A k \in DOMAIN (pipe \o lines) : (pipe \o lines)[k].from = p
      BY <1>14, <3>1
    <3> QED
      BY <1>14, <3>2 DEF pipe
  <2>4. \A q \in Engine!Processes :
          /\ system'[q].open <=> q = process'
          /\ q # process' => system'[q].commands = << >> /\ system'[q].search = NoRequest
          /\ \A k \in DOMAIN system'[q].pipe : system'[q].pipe[k].from = q
    <3> TAKE q \in Engine!Processes
    <3>1. CASE q = p
      BY <1>14, <2>2, <3>1 DEF Held
    <3>2. CASE q # p
      BY <1>14, <3>2 DEF Held
    <3> QED
      BY <3>1, <3>2
  <2>5. Held'
    BY <1>14, <2>4 DEF Held
  <2> QED
    BY <2>1, <2>5
<1>15. ASSUME NEW p \in Engine!Processes, Engine!Answers(p) \/ Engine!Searches(p) PROVE EngineTypes' /\ Held'
  <2>1. CASE Engine!Answers(p)
    <3>1. PICK d \in Systems, lines \in Seq(Sent) : Answered(p, d, lines)
      BY <2>1, Answering
    <3>2. p = process
      BY <3>1 DEF Held, Answered
    <3> QED
      BY <1>14, <3>1, <3>2 DEF EngineTypes, Answered
  <2>2. CASE Engine!Searches(p)
    <3>1. PICK d \in Systems, l \in Sent : Searched(p, d, l)
      BY <2>2, Searching
    <3>2. <<l>> \in Seq(Sent) /\ \A k \in DOMAIN <<l>> : <<l>>[k].from = p
      BY <3>1 DEF Searched
    <3>3. p = process
      BY <3>1 DEF Held, Searched
    <3> QED
      BY <1>14, <3>1, <3>2, <3>3 DEF EngineTypes, Searched
  <2> QED
    BY <1>15, <2>1, <2>2
<1>16. ASSUME NEW p \in Engine!Processes, Engine!Exits(p) PROVE EngineTypes' /\ Held'
  <2>1. /\ system' = [system EXCEPT ![p].up = FALSE]
        /\ UNCHANGED <<process, verified, output, reader, hand, order, spawned, orders>>
    BY <1>16 DEF Engine!Exits
  <2>2. /\ system' \in [Engine!Processes -> Systems]
        /\ \A q \in Engine!Processes :
             /\ system'[q].pipe = system[q].pipe /\ (system'[q].open <=> system[q].open)
             /\ system'[q].commands = system[q].commands /\ system'[q].search = system[q].search
    BY <2>1 DEF EngineTypes, Systems
  <2>3. EngineTypes'
    BY <2>1, <2>2 DEF EngineTypes
  <2>4. Held'
    BY <2>1, <2>2 DEF Held
  <2> QED
    BY <2>3, <2>4
<1>17. ASSUME NEW p \in Engine!Processes, Engine!Reads(p) PROVE EngineTypes' /\ Held'
  <2>1. /\ reader[p] = "reading"
        /\ UNCHANGED <<process, verified, output, reader, order, spawned, orders>>
    BY <1>17 DEF Engine!Reads
  <2>2. PICK l \in Sent, d \in Systems : HasRead(p, l, d)
    BY <1>17, Reading
  <2>3. EngineTypes'
    BY <2>1, <2>2 DEF EngineTypes, HasRead
  <2>4. \A q \in Engine!Processes :
          /\ system'[q].open <=> q = process'
          /\ q # process' => system'[q].commands = << >> /\ system'[q].search = NoRequest
          /\ \A k \in DOMAIN system'[q].pipe : system'[q].pipe[k].from = q
    BY <2>1, <2>2 DEF Held, EngineTypes, HasRead
  <2>5. \A q \in Engine!Processes :
          /\ spawned' < q => reader'[q] = "none"
          /\ reader'[q] # "reading" => hand'[q] = Engine!Nothing
          /\ hand'[q] # Engine!Nothing => hand'[q].from = q
    BY <2>1, <2>2 DEF Held, EngineTypes, HasRead
  <2>6. Held'
    BY <2>1, <2>4, <2>5 DEF Held
  <2> QED
    BY <2>3, <2>6
<1>18. ASSUME NEW p \in Engine!Processes, Engine!Puts(p) PROVE EngineTypes' /\ Held'
  <2>1. /\ reader[p] = "reading" /\ hand[p] # Engine!Nothing
        /\ output' = Append(output, hand[p])
        /\ hand' = [hand EXCEPT ![p] = Engine!Nothing]
        /\ reader' = [reader EXCEPT ![p] = IF hand[p].kind \in {"end", "error"} THEN "ended" ELSE @]
        /\ UNCHANGED <<process, verified, system, order, spawned, orders>>
    BY <1>18 DEF Engine!Puts
  <2>2. hand[p] \in Sent /\ hand[p].from = p
    BY <2>1 DEF EngineTypes, Held
  <2>3. /\ output' \in Seq(Sent)
        /\ \A k \in DOMAIN output' : output'[k].from \in Engine!Processes
    <3>1. /\ DOMAIN output' = 1..(Len(output) + 1) /\ DOMAIN output = 1..Len(output) /\ Len(output) \in Nat
          /\ output' \in Seq(Sent)
          /\ output'[Len(output) + 1] = hand[p]
          /\ \A k \in 1..Len(output) : output'[k] = output[k]
      BY <2>1, <2>2 DEF EngineTypes
    <3>2. \A k \in DOMAIN output' : k \in DOMAIN output \/ k = Len(output) + 1
      BY <3>1
    <3> QED
      BY <2>2, <3>1, <3>2 DEF Held
  <2>4. EngineTypes'
    BY <2>1, <2>3, LinesAreSent DEF EngineTypes
  <2>5. \A q \in Engine!Processes :
          /\ spawned' < q => reader'[q] = "none"
          /\ reader'[q] # "reading" => hand'[q] = Engine!Nothing
          /\ hand'[q] # Engine!Nothing => hand'[q].from = q
    BY <2>1 DEF Held, EngineTypes
  <2>6. Held'
    BY <2>1, <2>3, <2>5 DEF Held
  <2> QED
    BY <2>4, <2>6
<1> QED
  BY <1>1, <1>2, <1>3, <1>4, <1>5, <1>6, <1>7, <1>8, <1>9, <1>10, <1>11, <1>12, <1>13, <1>15, <1>16, <1>17, <1>18
     DEF Engine!Next, Engine!Work, SomeRequest

-----------------------------------------------------------------------------
(* With readers as late as may be: what is heard of a replaced process. *)

\* A line of another process than the one held, not what its reader puts of its own.
Stray(line) == line.from # process /\ line.kind \notin Ends

\* A late reader finds its pipe closed, so that the line it holds is the last it puts.
Few ==
  /\ order.pc # "search" => order.infos = << >>
  /\ process # 0 =>
       /\ \A j, k \in DOMAIN output :
            Stray(output[j]) /\ Stray(output[k]) /\ output[j].from = output[k].from => j = k
       /\ \A j, k \in DOMAIN order.infos :
            Stray(order.infos[j]) /\ Stray(order.infos[k]) /\ order.infos[j].from = order.infos[k].from => j = k
       /\ \A j \in DOMAIN output, k \in DOMAIN order.infos :
            Stray(output[j]) /\ Stray(order.infos[k]) => output[j].from # order.infos[k].from
       /\ \A p \in Engine!Processes :
            hand[p] # Engine!Nothing /\ Stray(hand[p]) =>
              /\ \A j \in DOMAIN output : Stray(output[j]) => output[j].from # p
              /\ \A k \in DOMAIN order.infos : Stray(order.infos[k]) => order.infos[k].from # p

\* Nothing is heard at first.
LEMMA FewAtFirst == Engine!Init => Few
BY DEF Engine!Init, Engine!Idle, Few

\* What a queue holds once its head is taken stood in it before, one further on.
LEMMA TakenQueue ==
  ASSUME EngineTypes, output # << >>
  PROVE  /\ 1 \in DOMAIN output /\ Head(output) = output[1]
         /\ \A k \in DOMAIN Tail(output) :
              k + 1 \in DOMAIN output /\ Tail(output)[k] = output[k + 1] /\ k + 1 # 1
         /\ \A j, k \in DOMAIN Tail(output) : j + 1 = k + 1 => j = k
<1>1. /\ output \in Seq(Sent) /\ Len(output) \in Nat \ {0} /\ DOMAIN output = 1..Len(output)
      /\ DOMAIN Tail(output) = 1..(Len(output) - 1) /\ Head(output) = output[1]
      /\ \A k \in 1..(Len(output) - 1) : Tail(output)[k] = output[k + 1]
  BY DEF EngineTypes
<1> QED
  BY <1>1

\* The head is passed over, or the call ends with it.
LEMMA TookFew ==
  ASSUME EngineTypes, Few, output # << >>, output' = Tail(output), UNCHANGED <<process, hand>>,
         order'.infos = order.infos \/ order'.infos = << >>,
         order'.pc # "search" => order'.infos = << >>
  PROVE  Few'
<1>1. \A k \in DOMAIN output' : k + 1 \in DOMAIN output /\ output'[k] = output[k + 1]
  BY TakenQueue
<1>2. \A j, k \in DOMAIN output' : j + 1 = k + 1 => j = k
  BY TakenQueue
<1>3. DOMAIN << >> = {}
  OBVIOUS
<1>4. \A k \in DOMAIN order'.infos : k \in DOMAIN order.infos /\ order'.infos[k] = order.infos[k]
  BY <1>3
<1>5. \A line : Stray(line)' <=> line.from # process /\ line.kind \notin Ends
  BY DEF Stray
<1> QED
  BY <1>1, <1>2, <1>4 DEF Few, Stray

\* The head becomes what was found for its rank.
LEMMA FoundFew ==
  ASSUME EngineTypes, Few, output # << >>, output' = Tail(output), UNCHANGED <<process, hand>>,
         order'.pc = "search",
         order'.infos = [k \in DOMAIN order.infos \cup {Head(output).rank} |->
                           IF k = Head(output).rank THEN Head(output) ELSE order.infos[k]]
  PROVE  Few'
<1> DEFINE h == Head(output)
<1>1. \A k \in DOMAIN output' : k + 1 \in DOMAIN output /\ output'[k] = output[k + 1] /\ k + 1 # 1
  BY TakenQueue
<1>2. \A j, k \in DOMAIN output' : j + 1 = k + 1 => j = k
  BY TakenQueue
<1>3. 1 \in DOMAIN output /\ h = output[1]
  BY TakenQueue
<1> HIDE DEF h
<1>4. \A k \in DOMAIN order'.infos :
        IF k = h.rank THEN order'.infos[k] = h ELSE k \in DOMAIN order.infos /\ order'.infos[k] = order.infos[k]
  BY DEF h
<1>5. ASSUME process # 0, NEW j \in DOMAIN order'.infos, NEW k \in DOMAIN order'.infos,
             Stray(order'.infos[j]), Stray(order'.infos[k]), order'.infos[j].from = order'.infos[k].from
      PROVE  j = k
  BY <1>3, <1>4, <1>5 DEF Few
<1>6. ASSUME process # 0, NEW j \in DOMAIN output', NEW k \in DOMAIN order'.infos,
             Stray(output'[j]), Stray(order'.infos[k])
      PROVE  output'[j].from # order'.infos[k].from
  <2>1. CASE k = h.rank
    BY <1>1, <1>3, <1>4, <1>6, <2>1 DEF Few
  <2>2. CASE k # h.rank
    <3>1. k \in DOMAIN order.infos /\ order'.infos[k] = order.infos[k] /\ Stray(order.infos[k])
      BY <1>4, <1>6, <2>2
    <3>2. j + 1 \in DOMAIN output /\ output'[j] = output[j + 1] /\ Stray(output[j + 1])
      BY <1>1, <1>6
    <3> QED
      BY <1>6, <3>1, <3>2 DEF Few
  <2> QED
    BY <2>1, <2>2
<1>7. ASSUME process # 0, NEW j \in DOMAIN output', NEW k \in DOMAIN output',
             Stray(output'[j]), Stray(output'[k]), output'[j].from = output'[k].from
      PROVE  j = k
  BY <1>1, <1>2, <1>7 DEF Few
<1>8. ASSUME process # 0, NEW p \in Engine!Processes, hand[p] # Engine!Nothing, Stray(hand[p])
      PROVE  /\ \A j \in DOMAIN output' : Stray(output'[j]) => output'[j].from # p
             /\ \A k \in DOMAIN order'.infos : Stray(order'.infos[k]) => order'.infos[k].from # p
  BY <1>1, <1>3, <1>4, <1>8 DEF Few
<1> QED
  BY <1>5, <1>6, <1>7, <1>8 DEF Few, Stray

\* Whoever leaves the queue and what was found alone, and whose reader holds no more.
LEMMA QuietFew ==
  ASSUME Few, UNCHANGED <<process, output>>,
         order'.infos = order.infos \/ order'.infos = << >>,
         order'.pc # "search" => order'.infos = << >>,
         \A p \in Engine!Processes : hand'[p] = hand[p] \/ p = process \/ hand'[p].kind \in Ends,
         \A p \in Engine!Processes : p = process => hand'[p] = Engine!Nothing \/ hand'[p].from = process
  PROVE  Few'
<1>1. DOMAIN << >> = {}
  OBVIOUS
<1>2. \A k \in DOMAIN order'.infos : k \in DOMAIN order.infos /\ order'.infos[k] = order.infos[k]
  BY <1>1
<1>3. \A p \in Engine!Processes :
        hand'[p] # Engine!Nothing /\ hand'[p].from # process /\ hand'[p].kind \notin Ends => hand'[p] = hand[p]
  OBVIOUS
<1> QED
  BY <1>2, <1>3 DEF Few, Stray

\* A call that fails leaves no process.
LEMMA FailFew ==
  ASSUME NEW error, Engine!Fail(error)
  PROVE  Few'
BY DEF Engine!Fail, Engine!Return, Engine!Terminate, Engine!Idle, Few

\* ... and after every step.
LEMMA FewStep == EngineTypes /\ Held /\ Few /\ Engine!Next => Few'
<1> SUFFICES ASSUME EngineTypes, Held, Few, Engine!Next PROVE Few'
  OBVIOUS
<1>0. \A p \in Engine!Processes : p = process => hand[p] = Engine!Nothing \/ hand[p].from = process
  BY DEF Held
<1>1. ASSUME NEW r \in SomeRequest, Engine!Call(r) PROVE Few'
  <2>1. order'.infos = << >> /\ UNCHANGED <<process, output, hand>>
    BY <1>1 DEF Engine!Call, Engine!Idle
  <2> QED
    BY <1>0, <2>1, QuietFew
<1>2. CASE Engine!EndsOld \/ Engine!Close
  BY <1>2 DEF Engine!EndsOld, Engine!Close, Engine!Terminate, Few
<1>3. CASE Engine!Spawn
  <2>1. CASE Engine!Fail("StockfishStartupError")
    BY <2>1, FailFew
  <2>2. CASE ~Engine!Fail("StockfishStartupError")
    <3>1. order.pc = "stopped" /\ order' = [order EXCEPT !.pc = "handshake"] /\ output' = << >>
      BY <1>3, <2>2 DEF Engine!Spawn
    <3>2. order'.infos = << >> /\ order'.pc = "handshake"
      BY <3>1 DEF EngineTypes, Few
    <3>3. DOMAIN << >> = {}
      OBVIOUS
    <3> QED
      BY <3>1, <3>2, <3>3 DEF Few
  <2> QED
    BY <2>1, <2>2
<1>4. CASE Engine!Configure
  <2>1. /\ order.pc = "started" /\ order' = [order EXCEPT !.pc = "options"]
        /\ UNCHANGED <<process, output, hand>>
    BY <1>4 DEF Engine!Configure
  <2>2. order'.infos = order.infos /\ order.infos = << >>
    BY <2>1 DEF EngineTypes, Few
  <2> QED
    BY <1>0, <2>1, <2>2, QuietFew
<1>5. CASE Engine!NoSearch
  <2>1. order'.infos = << >> /\ UNCHANGED <<process, output, hand>>
    BY <1>5 DEF Engine!NoSearch, Engine!Return, Engine!Idle
  <2> QED
    BY <1>0, <2>1, QuietFew
<1>6. CASE Engine!Rejected \/ Engine!StreamEnds \/ Engine!Expire \/ Engine!Interrupt
  BY <1>6, FailFew DEF Engine!Rejected, Engine!StreamEnds, Engine!Expire, Engine!Interrupt
<1>7. CASE Engine!Handshake
  <2>1. CASE Engine!Fail("StockfishIdentityError")
    BY <2>1, FailFew
  <2>2. CASE ~Engine!Fail("StockfishIdentityError")
    <3>1. /\ order.pc = "handshake" /\ output # << >> /\ output' = Tail(output)
          /\ \/ order' = [order EXCEPT !.name = Head(output).form]
             \/ order' = order
             \/ order' = [order EXCEPT !.pc = "started"]
          /\ UNCHANGED <<process, hand>>
      BY <1>7, <2>2 DEF Engine!Handshake, Engine!Takes, Engine!Took
    <3>2. order'.infos = order.infos /\ order.infos = << >>
      BY <3>1 DEF EngineTypes, Few
    <3> QED
      BY <3>1, <3>2, TookFew
  <2> QED
    BY <2>1, <2>2
<1>8. CASE Engine!Ready
  <2>1. CASE Engine!Fail("StockfishProcessError")
    BY <2>1, FailFew
  <2>2. CASE ~Engine!Fail("StockfishProcessError")
    <3>1. /\ order.pc = "options" /\ output # << >> /\ output' = Tail(output)
          /\ order' = order \/ order' = [order EXCEPT !.pc = "search"]
          /\ UNCHANGED <<process, hand>>
      BY <1>8, <2>2 DEF Engine!Ready, Engine!Takes, Engine!Took
    <3>2. order'.infos = order.infos /\ order.infos = << >>
      BY <3>1 DEF EngineTypes, Few
    <3> QED
      BY <3>1, <3>2, TookFew
  <2> QED
    BY <2>1, <2>2
<1>9. CASE Engine!Info
  <2>1. CASE Engine!Fail("NameError")
    BY <2>1, FailFew
  <2>2. CASE ~Engine!Fail("NameError")
    <3>1. /\ order.pc = "search" /\ output # << >> /\ output' = Tail(output)
          /\ \/ order' = order
             \/ order' = [order EXCEPT !.infos = [k \in DOMAIN @ \cup {Head(output).rank} |->
                                       IF k = Head(output).rank THEN Head(output) ELSE @[k]]]
          /\ UNCHANGED <<process, hand>>
      BY <1>9, <2>2 DEF Engine!Info, Engine!Takes, Engine!Took
    <3>2. CASE order' = order
      BY <3>1, <3>2, TookFew
    <3>3. CASE order' = [order EXCEPT !.infos = [k \in DOMAIN @ \cup {Head(output).rank} |->
                                       IF k = Head(output).rank THEN Head(output) ELSE @[k]]]
      <4>1. /\ order'.infos = [k \in DOMAIN order.infos \cup {Head(output).rank} |->
                                 IF k = Head(output).rank THEN Head(output) ELSE order.infos[k]]
            /\ order'.pc = "search"
        BY <3>1, <3>3 DEF EngineTypes
      <4> QED
        BY <3>1, <4>1, FoundFew
    <3> QED
      BY <3>1, <3>2, <3>3
  <2> QED
    BY <2>1, <2>2
<1>10. CASE Engine!Bestmove
  <2>1. CASE Engine!Fail("StockfishProtocolError")
    BY <2>1, FailFew
  <2>2. CASE ~Engine!Fail("StockfishProtocolError")
    <3>1. /\ output # << >> /\ output' = Tail(output) /\ order'.infos = << >>
          /\ UNCHANGED <<process, hand>>
      BY <1>10, <2>2 DEF Engine!Bestmove, Engine!Takes, Engine!Return, Engine!Idle
    <3> QED
      BY <3>1, TookFew
  <2> QED
    BY <2>1, <2>2
<1>11. ASSUME NEW p \in Engine!Processes, Engine!Answers(p) \/ Engine!Searches(p) \/ Engine!Exits(p) PROVE Few'
  BY <1>11 DEF Engine!Answers, Engine!Searches, Engine!Exits, Few, Stray
<1>12. ASSUME NEW p \in Engine!Processes, Engine!Reads(p) PROVE Few'
  <2>1. UNCHANGED <<process, output, order>>
    BY <1>12 DEF Engine!Reads
  <2>2. PICK l \in Sent, d \in Systems : HasRead(p, l, d)
    BY <1>12, Reading
  <2>3. hand' = [hand EXCEPT ![p] = l] /\ l.from = p
    BY <2>2 DEF HasRead
  <2>4. p # process => l.kind = "error"
    <3>1. p # process => hand' = [hand EXCEPT ![p] = Engine!Plain(p, "error")]
      BY <1>12 DEF Engine!Reads, Held
    <3> QED
      BY <2>3, <3>1 DEF Engine!Plain, Engine!Line, EngineTypes
  <2>5. \A q \in Engine!Processes : hand'[q] = hand[q] \/ q = process \/ hand'[q].kind \in Ends
    BY <2>3, <2>4 DEF EngineTypes, Ends
  <2>6. \A q \in Engine!Processes : q = process => hand'[q] = Engine!Nothing \/ hand'[q].from = process
    BY <1>0, <2>3 DEF EngineTypes
  <2>7. order'.pc # "search" => order'.infos = << >>
    BY <2>1 DEF Few
  <2> QED
    BY <2>1, <2>5, <2>6, <2>7, QuietFew
<1>13. ASSUME NEW p \in Engine!Processes, Engine!Puts(p) PROVE Few'
  <2> DEFINE l == hand[p]
             n == Len(output) + 1
  <2>1. /\ l # Engine!Nothing /\ output' = Append(output, l)
        /\ hand' = [hand EXCEPT ![p] = Engine!Nothing]
        /\ UNCHANGED <<process, order>>
    BY <1>13 DEF Engine!Puts
  <2>2. l.from = p
    BY <2>1 DEF Held
  <2>3. \A k \in DOMAIN output' : (k \in DOMAIN output /\ output'[k] = output[k]) \/ (k = n /\ output'[k] = l)
    <3>1. output \in Seq(Sent) /\ l \in Sent
      BY DEF EngineTypes
    <3> HIDE DEF l
    <3> QED
      BY <2>1, <3>1
  <2> HIDE DEF l, n
  <2>4. ASSUME process # 0, Stray(l)
        PROVE  /\ \A j \in DOMAIN output : Stray(output[j]) => output[j].from # p
               /\ \A k \in DOMAIN order.infos : Stray(order.infos[k]) => order.infos[k].from # p
    BY <2>1, <2>4 DEF Few, l
  <2>5. \A q \in Engine!Processes : hand'[q] # Engine!Nothing => q # p /\ hand'[q] = hand[q] /\ hand[q].from = q
    BY <2>1 DEF Held, EngineTypes
  <2>6. ASSUME process # 0, NEW j \in DOMAIN output', NEW k \in DOMAIN output',
               Stray(output'[j]), Stray(output'[k]), output'[j].from = output'[k].from
        PROVE  j = k
    <3>1. CASE j \in DOMAIN output /\ output'[j] = output[j] /\ k \in DOMAIN output /\ output'[k] = output[k]
      BY <2>6, <3>1 DEF Few
    <3>2. CASE j = n /\ output'[j] = l
      BY <2>2, <2>3, <2>4, <2>6, <3>2
    <3>3. CASE k = n /\ output'[k] = l
      BY <2>2, <2>3, <2>4, <2>6, <3>3
    <3> QED
      BY <2>3, <3>1, <3>2, <3>3
  <2>7. ASSUME process # 0, NEW j \in DOMAIN output', NEW k \in DOMAIN order.infos,
               Stray(output'[j]), Stray(order.infos[k])
        PROVE  output'[j].from # order.infos[k].from
    BY <2>2, <2>3, <2>4, <2>7 DEF Few
  <2>8. ASSUME process # 0, NEW q \in Engine!Processes, hand'[q] # Engine!Nothing, Stray(hand'[q])
        PROVE  /\ \A j \in DOMAIN output' : Stray(output'[j]) => output'[j].from # q
               /\ \A k \in DOMAIN order.infos : Stray(order.infos[k]) => order.infos[k].from # q
    BY <2>2, <2>3, <2>5, <2>8 DEF Few
  <2> QED
    BY <2>1, <2>6, <2>7, <2>8 DEF Few, Stray
<1> QED
  BY <1>1, <1>2, <1>3, <1>4, <1>5, <1>6, <1>7, <1>8, <1>9, <1>10, <1>11, <1>12, <1>13
     DEF Engine!Next, Engine!Work, SomeRequest

-----------------------------------------------------------------------------
(* With readers that end in time. *)

\* The only reader is that of the child held, whose pipe is open, and the queue is
\* that child's.
Fresh ==
  /\ \A p \in Engine!Processes : reader[p] = "reading" => p = process
  /\ process # 0 => system[process].open /\ \A k \in DOMAIN output : output[k].from = process

\* A command as the child finds it.
Command(kind, r) == [kind |-> kind, request |-> r]

\* What is on its way to and from a child, by the state of the call: the answer that
\* is awaited comes last, and between calls nothing is left.
Flowing(stage, r, commands, search, s) ==
  /\ stage \in {"options", "search"} => r \in Requests
  /\ stage \in {"idle", "started"} => commands = << >> /\ search = NoRequest /\ Only(s, Ends)
  /\ stage = "handshake" =>
       /\ search = NoRequest
       /\ \/ commands = <<Command("uci", NoRequest)>> /\ Only(s, Ends)
          \/ commands = << >> /\ Only(s, {"id name", "uciok"} \cup Ends) /\ Closed(s)
  /\ stage = "options" =>
       /\ search = NoRequest
       /\ \/ commands = <<Command("setoption", r), Command("isready", NoRequest)>> /\ Only(s, Ends)
          \/ commands = <<Command("isready", NoRequest)>> /\ Only(s, Ends)
          \/ commands = << >> /\ Only(s, {"readyok"} \cup Ends) /\ Closed(s)
  /\ stage = "search" =>
       /\ Own(s, r)
       /\ \/ commands = <<Command("go", r)>> /\ search = NoRequest /\ Only(s, Ends)
          \/ commands = << >> /\ search = r /\ Only(s, {"info"} \cup Ends)
          \/ commands = << >> /\ search = NoRequest /\ Only(s, {"info", "bestmove"} \cup Ends) /\ Closed(s)

\* It holds of the child held.
Flow ==
  process # 0 =>
    Flowing(order.pc, order.request, system[process].commands, system[process].search, Stream)

\* What has been gathered so far is of the request under way.
Gathered ==
  /\ order.pc # "search" => order.infos = << >>
  /\ \A k \in DOMAIN order.infos : order.infos[k].request = order.request /\ order.infos[k].rank = k

\* The invariant of an engine whose readers end in time.
ResultInv == EngineTypes /\ Held /\ Fresh /\ Flow /\ Gathered /\ Engine!ResultIsOwn

\* Sequences in a row.
LEMMA Rows ==
  ASSUME NEW a \in Seq(Sent), NEW b \in Seq(Sent)
  PROVE  /\ a # << >> => a \o b # << >> /\ Head(a \o b) = Head(a) /\ Tail(a \o b) = Tail(a) \o b
         /\ a \o << >> = a /\ << >> \o a = a
         /\ \A c \in Seq(Sent) : (a \o b) \o c = a \o (b \o c)
<1>1. a # << >> => a \o b # << >> /\ Head(a \o b) = Head(a) /\ Tail(a \o b) = Tail(a) \o b
  OBVIOUS
<1>2. a \o << >> = a /\ << >> \o a = a
  OBVIOUS
<1>3. \A c \in Seq(Sent) : (a \o b) \o c = a \o (b \o c)
  OBVIOUS
<1> QED
  BY <1>1, <1>2, <1>3

\* A sequence is its head and the rest.
LEMMA HeadRow ==
  ASSUME NEW a \in Seq(Sent), a # << >> PROVE a = <<Head(a)>> \o Tail(a)
OBVIOUS

\* The parts of the stream are sequences of lines.
LEMMA StreamTypes ==
  ASSUME EngineTypes, process # 0
  PROVE  /\ process \in Engine!Processes /\ system[process] \in Systems /\ hand[process] \in Sent
         /\ output \in Seq(Sent) /\ InHand(process) \in Seq(Sent) /\ system[process].pipe \in Seq(Sent)
         /\ Stream \in Seq(Sent)
<1>1. process \in Engine!Processes
  BY Bounds DEF EngineTypes
<1>2. /\ output \in Seq(Sent) /\ hand[process] \in Sent /\ system[process] \in Systems
      /\ system[process].pipe \in Seq(Sent)
  BY <1>1 DEF EngineTypes, Systems
<1>3. InHand(process) \in Seq(Sent)
  BY <1>2 DEF InHand
<1>4. Stream \in Seq(Sent)
  BY <1>2, <1>3 DEF Stream
<1> QED
  BY <1>1, <1>2, <1>3, <1>4

\* The end of the stream changes nothing.
LEMMA EndFlows ==
  ASSUME NEW stage, NEW r, NEW commands, NEW search, NEW s \in Seq(Sent), NEW l \in Sent, l.kind \in Ends,
         Flowing(stage, r, commands, search, s)
  PROVE  Flowing(stage, r, commands, search, s \o <<l>>)
<1>1. /\ <<l>> \in Seq(Sent) /\ Only(<<l>>, Ends) /\ \A K : Only(<<l>>, K \cup Ends)
      /\ \A q : Own(<<l>>, q)
  BY Said DEF Ends
<1>2. /\ \A K : Only(s, K \cup Ends) => Only(s \o <<l>>, K \cup Ends)
      /\ Only(s, Ends) => Only(s \o <<l>>, Ends)
      /\ \A q : Own(s, q) => Own(s \o <<l>>, q)
      /\ Closed(s) => Closed(s \o <<l>>)
  BY <1>1, Concatenated
<1> QED
  BY <1>2 DEF Flowing

\* A line is read that the call passes over.
LEMMA PassingFlows ==
  ASSUME NEW stage \in Waiting, NEW r, NEW commands, NEW search, NEW s \in Seq(Sent), s # << >>,
         Flowing(stage, r, commands, search, s)
  PROVE  Flowing(stage, r, commands, search, Tail(s))
<1>1. /\ \A K : Only(s, K) => Only(Tail(s), K)
      /\ \A q : Own(s, q) => Own(Tail(s), q)
      /\ Closed(s) => Closed(Tail(s))
  BY Taken
<1> QED
  BY <1>1 DEF Flowing

\* The answer that was awaited is read: nothing is left behind it.
LEMMA AnswerFlows ==
  ASSUME NEW stage \in Waiting, NEW r, NEW commands, NEW search, NEW s \in Seq(Sent), s # << >>,
         Flowing(stage, r, commands, search, s), NoRequest \notin Requests,
         stage = "handshake" => Head(s).kind = "uciok",
         stage = "options" => Head(s).kind = "readyok",
         stage = "search" => Head(s).kind = "bestmove"
  PROVE  commands = << >> /\ search = NoRequest /\ Only(Tail(s), Ends)
<1>1. Head(s).kind \in Closings /\ ~(Head(s).kind \in Ends)
  BY DEF Waiting, Closings, Ends
<1>2. ~Only(s, Ends) /\ (Closed(s) => Only(Tail(s), Ends))
  BY <1>1, Taken
<1>3. stage = "search" => ~Only(s, {"info"} \cup Ends)
  BY Taken DEF Ends
<1> QED
  BY <1>2, <1>3 DEF Flowing, Waiting

\* The child answers.
LEMMA RepliesFlow ==
  ASSUME NEW stage \in {"idle", "stopped", "started"} \cup Waiting, stage # "stopped",
         NEW r \in SomeRequest, NEW p \in Engine!Processes, EngineTypes,
         NEW s \in Seq(Sent), NEW d \in Systems, NEW lines \in Seq(Sent), Answered(p, d, lines),
         Flowing(stage, r, system[p].commands, system[p].search, s)
  PROVE  Flowing(stage, r, d.commands, d.search, s \o lines)
<1> DEFINE cs == system[p].commands
<1>1. /\ cs # << >> /\ d.commands = Tail(cs)
      /\ Flowing(stage, r, cs, NoRequest, s)
  BY DEF Answered
<1>2. /\ Head(cs).kind = "uci" => d.search = NoRequest /\ Only(lines, {"id name", "uciok"}) /\ Closed(lines)
      /\ Head(cs).kind = "setoption" => d.search = NoRequest /\ lines = << >>
      /\ Head(cs).kind = "isready" => d.search = NoRequest /\ Only(lines, {"readyok"}) /\ Closed(lines)
      /\ Head(cs).kind = "go" => d.search = Head(cs).request /\ lines = << >>
  BY DEF Answered
<1>3. s \o << >> = s
  BY Rows
<1> HIDE DEF cs
<1>4. CASE stage = "handshake"
  <2>1. cs = <<Command("uci", NoRequest)>> /\ Only(s, Ends)
    BY <1>1, <1>4 DEF Flowing
  <2>2. Head(cs).kind = "uci" /\ Tail(cs) = << >>
    BY <2>1 DEF Command
  <2>3. Only(lines, {"id name", "uciok"}) /\ Closed(lines) /\ d.search = NoRequest
    BY <1>2, <2>2
  <2>4. Only(lines, {"id name", "uciok"} \cup Ends) /\ Only(s, {"id name", "uciok"} \cup Ends)
    BY <2>1, <2>3 DEF Only
  <2>5. Only(s \o lines, {"id name", "uciok"} \cup Ends) /\ Closed(s \o lines)
    <3>1. Only(s \o lines, {"id name", "uciok"} \cup Ends)
      BY <2>4, Concatenated
    <3>2. Ends \cap Closings = {}
      BY DEF Ends, Closings
    <3>3. Closed(s \o lines)
      BY <2>1, <2>3, <3>2, Concatenated
    <3> QED
      BY <3>1, <3>3
  <2> QED
    BY <1>1, <1>4, <2>2, <2>3, <2>5 DEF Flowing
<1>5. CASE stage = "options" /\ cs = <<Command("setoption", r), Command("isready", NoRequest)>>
  <2>1. Only(s, Ends) /\ r \in Requests
    BY <1>1, <1>5 DEF Flowing
  <2>2. Head(cs).kind = "setoption" /\ Tail(cs) = <<Command("isready", NoRequest)>>
    BY <1>5 DEF Command
  <2>3. d.search = NoRequest /\ s \o lines = s
    BY <1>2, <1>3, <2>2
  <2> QED
    BY <1>1, <1>5, <2>1, <2>2, <2>3 DEF Flowing
<1>6. CASE stage = "options" /\ cs = <<Command("isready", NoRequest)>>
  <2>1. Only(s, Ends) /\ r \in Requests
    BY <1>1, <1>6 DEF Flowing, Command
  <2>2. Head(cs).kind = "isready" /\ Tail(cs) = << >>
    BY <1>6 DEF Command
  <2>3. Only(lines, {"readyok"}) /\ Closed(lines) /\ d.search = NoRequest
    BY <1>2, <2>2
  <2>4. Only(lines, {"readyok"} \cup Ends) /\ Only(s, {"readyok"} \cup Ends)
    BY <2>1, <2>3 DEF Only
  <2>5. Only(s \o lines, {"readyok"} \cup Ends) /\ Closed(s \o lines)
    BY <2>1, <2>3, <2>4, Concatenated DEF Ends, Closings
  <2> QED
    BY <1>1, <1>6, <2>1, <2>2, <2>3, <2>5 DEF Flowing
<1>7. CASE stage = "search"
  <2>1. cs = <<Command("go", r)>> /\ Only(s, Ends) /\ Own(s, r) /\ r \in Requests
    BY <1>1, <1>7, Bounds DEF Flowing
  <2>2. Head(cs).kind = "go" /\ Head(cs).request = r /\ Tail(cs) = << >>
    BY <2>1 DEF Command
  <2>3. d.search = r /\ s \o lines = s
    BY <1>2, <1>3, <2>2
  <2>4. Only(s, {"info"} \cup Ends)
    BY <2>1 DEF Only
  <2> QED
    BY <1>1, <1>7, <2>1, <2>2, <2>3, <2>4 DEF Flowing
<1> QED
  BY <1>1, <1>4, <1>5, <1>6, <1>7 DEF Flowing, Waiting

\* The child sends what it has found.
LEMMA FindingsFlow ==
  ASSUME NEW stage \in {"idle", "stopped", "started"} \cup Waiting, stage # "stopped",
         NEW r \in SomeRequest, NEW p \in Engine!Processes, EngineTypes,
         NEW s \in Seq(Sent), NEW d \in Systems, NEW l \in Sent, Searched(p, d, l),
         Flowing(stage, r, system[p].commands, system[p].search, s)
  PROVE  Flowing(stage, r, d.commands, d.search, s \o <<l>>)
<1>1. system[p].search # NoRequest /\ d.commands = system[p].commands
  BY DEF Searched
<1>2. /\ stage = "search" /\ r \in Requests /\ system[p].search = r /\ d.commands = << >>
      /\ Own(s, r) /\ Only(s, {"info"} \cup Ends)
  BY <1>1 DEF Flowing, Waiting
<1>3. <<l>> \in Seq(Sent) /\ Closed(<<l>>)
  BY Said
<1>4. CASE l.kind = "info" /\ l.request = r /\ d.search = r
  <2>1. Only(<<l>>, {"info"} \cup Ends) /\ Own(<<l>>, r)
    BY <1>4, Said
  <2>2. Only(s \o <<l>>, {"info"} \cup Ends) /\ Own(s \o <<l>>, r)
    BY <1>2, <1>3, <2>1, Concatenated
  <2> QED
    BY <1>2, <1>4, <2>2 DEF Flowing
<1>5. CASE l.kind = "bestmove" /\ d.search = NoRequest
  <2>1. Only(<<l>>, {"info", "bestmove"} \cup Ends) /\ Own(<<l>>, r)
    BY <1>5, Said
  <2>2. Only(s, {"info", "bestmove"} \cup Ends)
    BY <1>2 DEF Only
  <2>3. Only(s \o <<l>>, {"info", "bestmove"} \cup Ends) /\ Own(s \o <<l>>, r)
    <3>1. Only(s \o <<l>>, {"info", "bestmove"} \cup Ends)
      BY <1>3, <2>1, <2>2, Concatenated
    <3>2. Own(s \o <<l>>, r)
      BY <1>2, <1>3, <2>1, Concatenated
    <3> QED
      BY <3>1, <3>2
  <2>4. Closed(s \o <<l>>)
    <3>1. ({"info"} \cup Ends) \cap Closings = {}
      BY DEF Ends, Closings
    <3> QED
      BY <1>2, <1>3, <3>1, Concatenated
  <2> QED
    BY <1>2, <1>5, <2>3, <2>4 DEF Flowing
<1> QED
  BY <1>2, <1>4, <1>5 DEF Searched

\* What stands in the way of the child held: a step of the child's adds to its end ...
LEMMA StreamGrows ==
  ASSUME EngineTypes, process # 0, UNCHANGED <<process, output, hand>>,
         NEW lines \in Seq(Sent), system'[process].pipe = system[process].pipe \o lines
  PROVE  Stream' = Stream \o lines
<1> DEFINE a == output
           b == InHand(process)
           c == system[process].pipe
<1>1. a \in Seq(Sent) /\ b \in Seq(Sent) /\ c \in Seq(Sent) /\ a \o b \in Seq(Sent)
  BY StreamTypes
<1>2. Stream = (a \o b) \o c /\ Stream' = (a \o b) \o (c \o lines)
  BY DEF Stream, InHand
<1> HIDE DEF a, b, c
<1>3. ((a \o b) \o c) \o lines = (a \o b) \o (c \o lines)
  BY <1>1, Rows
<1> QED
  BY <1>2, <1>3

\* ... and the call takes its head.
LEMMA StreamTaken ==
  ASSUME EngineTypes, process # 0, output # << >>, output' = Tail(output),
         UNCHANGED <<process, hand>>, system'[process].pipe = system[process].pipe
  PROVE  Stream # << >> /\ Head(Stream) = Head(output) /\ Stream' = Tail(Stream)
<1> DEFINE a == output
           b == InHand(process)
           c == system[process].pipe
<1>1. a \in Seq(Sent) /\ b \in Seq(Sent) /\ c \in Seq(Sent) /\ a \o b \in Seq(Sent) /\ a # << >>
  BY StreamTypes
<1>2. Stream = (a \o b) \o c /\ Stream' = (Tail(a) \o b) \o c
  BY DEF Stream, InHand
<1>3. Head(output) = Head(a)
  OBVIOUS
<1> HIDE DEF a, b, c
<1>4. a \o b # << >> /\ Head(a \o b) = Head(a) /\ Tail(a \o b) = Tail(a) \o b
  BY <1>1, Rows
<1>5. /\ (a \o b) \o c # << >> /\ Head((a \o b) \o c) = Head(a \o b)
      /\ Tail((a \o b) \o c) = Tail(a \o b) \o c
  BY <1>1, <1>4, Rows
<1> QED
  BY <1>2, <1>3, <1>4, <1>5

\* The reader moves lines along, and reports the end of the pipe.
LEMMA StreamRead ==
  ASSUME EngineTypes, process # 0, UNCHANGED <<process, output>>,
         NEW l \in Sent, NEW d \in Systems, HasRead(process, l, d), reader[process] = "reading",
         system[process].open
  PROVE  Stream' = Stream \/ (l.kind \in Ends /\ Stream' = Stream \o <<l>>)
<1> DEFINE a == output
           c == system[process].pipe
<1>1. a \in Seq(Sent) /\ c \in Seq(Sent) /\ process \in Engine!Processes
  BY StreamTypes
<1>2. /\ hand[process] = Engine!Nothing /\ hand'[process] = l /\ system'[process] = d
      /\ l # Engine!Nothing
  BY <1>1, LinesAreSent, Bounds DEF HasRead, EngineTypes
<1>3. Stream = (a \o << >>) \o c /\ Stream' = (a \o <<l>>) \o d.pipe
  BY <1>2 DEF Stream, InHand
<1>4. \/ c # << >> /\ l = Head(c) /\ d.pipe = Tail(c)
      \/ l.kind = "end" /\ c = << >> /\ d.pipe = << >>
  BY DEF HasRead
<1> HIDE DEF a, c
<1>5. a \o << >> = a
  BY <1>1, Rows
<1>6. CASE c # << >> /\ l = Head(c) /\ d.pipe = Tail(c)
  <2>1. Tail(c) \in Seq(Sent) /\ <<Head(c)>> \in Seq(Sent) /\ c = <<Head(c)>> \o Tail(c)
    BY <1>1, <1>6, Taken, HeadRow
  <2>2. (a \o <<Head(c)>>) \o Tail(c) = a \o (<<Head(c)>> \o Tail(c))
    BY <1>1, <2>1, Rows
  <2> QED
    BY <1>3, <1>5, <1>6, <2>1, <2>2
<1>7. CASE l.kind = "end" /\ c = << >> /\ d.pipe = << >>
  <2>1. a \o <<l>> \in Seq(Sent)
    BY <1>1
  <2>2. (a \o <<l>>) \o << >> = a \o <<l>>
    BY <2>1, Rows
  <2> QED
    BY <1>3, <1>5, <1>7, <2>2 DEF Ends
<1> QED
  BY <1>4, <1>6, <1>7

\* What the reader puts was in the stream already.
LEMMA StreamPut ==
  ASSUME EngineTypes, process # 0, UNCHANGED <<process, system>>, hand[process] # Engine!Nothing,
         output' = Append(output, hand[process]), hand' = [hand EXCEPT ![process] = Engine!Nothing]
  PROVE  Stream' = Stream
<1> DEFINE a == output
           l == hand[process]
           c == system[process].pipe
<1>1. a \in Seq(Sent) /\ c \in Seq(Sent) /\ l \in Sent /\ process \in Engine!Processes
  BY StreamTypes
<1>2. hand'[process] = Engine!Nothing
  BY <1>1 DEF EngineTypes
<1>3. Stream = (a \o <<l>>) \o c /\ Stream' = (Append(a, l) \o << >>) \o c
  BY <1>2 DEF Stream, InHand
<1> HIDE DEF a, l, c
<1>4. Append(a, l) = a \o <<l>> /\ Append(a, l) \in Seq(Sent)
  BY <1>1, Said
<1>5. Append(a, l) \o << >> = Append(a, l)
  BY <1>4, Rows
<1> QED
  BY <1>3, <1>4, <1>5

\* Nothing flows at first.
LEMMA ResultsAtFirst == Engine!Init => ResultInv
<1> SUFFICES ASSUME Engine!Init PROVE ResultInv
  OBVIOUS
<1>1. Fresh /\ Flow
  BY DEF Engine!Init, Fresh, Flow
<1>2. Gathered
  BY DEF Engine!Init, Engine!Idle, Gathered
<1>3. Engine!ResultIsOwn
  BY DEF Engine!Init, Engine!ResultIsOwn
<1> QED
  BY <1>1, <1>2, <1>3, TypesAtFirst DEF ResultInv

\* A call that fails, and an engine that is closed, leave no process.
LEMMA FailResults ==
  ASSUME ResultInv, Engine!ReadersEnd, NEW error, error # "result", Engine!Fail(error)
  PROVE  Fresh' /\ Flow' /\ Gathered' /\ Engine!ResultIsOwn'
<1>1. process' = 0 /\ order' = Engine!Idle /\ answer' = Engine!Failed(error)
  BY DEF Engine!Fail, Engine!Return, Engine!Terminate
<1>2. Fresh' /\ Flow'
  BY <1>1 DEF Engine!ReadersEnd, Fresh, Flow
<1>3. Gathered'
  BY <1>1 DEF Engine!Idle, Gathered
<1>4. Engine!ResultIsOwn'
  BY <1>1 DEF Engine!Failed, Engine!ResultIsOwn
<1> QED
  BY <1>2, <1>3, <1>4

\* The queue keeps lines of one child when its head is taken.
LEMMA TakenFresh ==
  ASSUME EngineTypes, Fresh, output # << >>, output' = Tail(output), process' = process, process # 0
  PROVE  \A k \in DOMAIN output' : output'[k].from = process'
<1>1. /\ output \in Seq(Sent) /\ Len(output) \in Nat \ {0} /\ DOMAIN output = 1..Len(output)
      /\ DOMAIN Tail(output) = 1..(Len(output) - 1)
      /\ \A k \in 1..(Len(output) - 1) : Tail(output)[k] = output[k + 1]
  BY DEF EngineTypes
<1>2. \A k \in DOMAIN Tail(output) : k + 1 \in DOMAIN output /\ Tail(output)[k] = output[k + 1]
  BY <1>1
<1> QED
  BY <1>2 DEF Fresh

\* What a command to the running child adds, when it has none left.
LEMMA SentFlows ==
  ASSUME EngineTypes, NEW cs \in Seq(Commands), process # 0, Engine!Send(process, cs), Fresh,
         system[process].commands = << >>
  PROVE  /\ system'[process].commands = cs /\ system'[process].search = system[process].search
         /\ system'[process].pipe = system[process].pipe /\ system'[process].open
<1>1. process \in Engine!Processes /\ system[process] \in Systems
  BY StreamTypes
<1>2. system' = [system EXCEPT ![process].commands = @ \o cs]
  BY DEF Engine!Send
<1>3. << >> \o cs = cs
  OBVIOUS
<1> QED
  BY <1>1, <1>2, <1>3 DEF EngineTypes, Systems, Fresh

\* A step of the engine's own thread within a call: the head of the queue is taken or
\* a command is sent, and what flows then fits the call.
LEMMA TookResults ==
  ASSUME ResultInv, Engine!ReadersEnd, process # 0, output # << >>, output' = Tail(output),
         UNCHANGED <<process, hand, answer>>,
         system'[process].pipe = system[process].pipe, system'[process].open,
         Stream' = Tail(Stream) =>
           Flowing(order'.pc, order'.request, system'[process].commands, system'[process].search, Stream'),
         Gathered'
  PROVE  Fresh' /\ Flow' /\ Gathered' /\ Engine!ResultIsOwn'
<1>1. Stream' = Tail(Stream)
  BY StreamTaken DEF ResultInv
<1>2. Flow'
  BY <1>1 DEF Flow
<1>3. Fresh'
  BY TakenFresh DEF ResultInv, Fresh, Engine!ReadersEnd
<1>4. Engine!ResultIsOwn'
  BY DEF ResultInv, Engine!ResultIsOwn
<1> QED
  BY <1>2, <1>3, <1>4

\* Every step of an engine whose readers end in time.
LEMMA ResultStep == ResultInv /\ Engine!Next /\ Engine!ReadersEnd => Fresh' /\ Flow' /\ Gathered' /\ Engine!ResultIsOwn'
<1> SUFFICES ASSUME ResultInv, Engine!Next, Engine!ReadersEnd
             PROVE  Fresh' /\ Flow' /\ Gathered' /\ Engine!ResultIsOwn'
  OBVIOUS
<1> USE DEF ResultInv
<1>1. ASSUME NEW r \in SomeRequest, Engine!Call(r) PROVE Fresh' /\ Flow' /\ Gathered' /\ Engine!ResultIsOwn'
  <2>1. /\ order.pc = "idle"
        /\ order' = [Engine!Idle EXCEPT !.pc = IF verified /\ Engine!Running THEN "started" ELSE "stopped",
                                        !.request = r]
        /\ UNCHANGED <<process, verified, output, reader, hand, system, spawned, answer>>
    BY <1>1 DEF Engine!Call
  <2>2. order'.pc \in {"stopped", "started"} /\ order'.infos = << >>
    BY <2>1 DEF Engine!Idle
  <2>3. Flow'
    BY <2>1, <2>2 DEF Flow, Flowing, Stream, InHand
  <2>4. Gathered'
    BY <2>2 DEF Gathered
  <2> QED
    BY <2>1, <2>3, <2>4 DEF Fresh, Engine!ResultIsOwn
<1>2. CASE Engine!EndsOld \/ Engine!Close
  <2>1. process' = 0 /\ UNCHANGED <<order, answer>>
    BY <1>2 DEF Engine!EndsOld, Engine!Close, Engine!Terminate
  <2> QED
    BY <2>1 DEF Engine!ReadersEnd, Fresh, Flow, Gathered, Engine!ResultIsOwn
<1>3. CASE Engine!Spawn
  <2>1. CASE Engine!Fail("StockfishStartupError")
    BY <2>1, FailResults
  <2>2. CASE ~Engine!Fail("StockfishStartupError")
    <3> DEFINE p == spawned + 1
               c == [Engine!NewChild EXCEPT !.commands = <<[kind |-> "uci", request |-> NoRequest]>>]
    <3>1. /\ order.pc = "stopped" /\ spawned < MaxProcesses
          /\ process' = p /\ output' = << >>
          /\ system' = [system EXCEPT ![p] = c]
          /\ order' = [order EXCEPT !.pc = "handshake"]
          /\ UNCHANGED <<hand, answer>>
      BY <1>3, <2>2 DEF Engine!Spawn
    <3>2. p \in Engine!Processes /\ spawned < p
      BY <3>1, Bounds DEF EngineTypes
    <3>3. /\ c.commands = <<Command("uci", NoRequest)>> /\ c.search = NoRequest /\ c.pipe = << >> /\ c.open
      BY NewChildren DEF Systems, Command
    <3>4. order'.pc = "handshake" /\ order'.infos = order.infos /\ order'.request = order.request
      BY <3>1 DEF EngineTypes
    <3> HIDE DEF p, c
    <3>5. hand'[p] = Engine!Nothing /\ system'[p] = c
      BY <3>1, <3>2 DEF Held, EngineTypes
    <3>6. Stream' = (<< >> \o << >>) \o << >>
      BY <3>1, <3>3, <3>5 DEF Stream, InHand
    <3>7. Stream' = << >> /\ Only(<< >>, Ends)
      BY <3>6 DEF Only
    <3>8. Flow'
      BY <3>1, <3>3, <3>4, <3>5, <3>7 DEF Flow, Flowing
    <3>9. Fresh'
      BY <3>1, <3>3, <3>5 DEF Engine!ReadersEnd, Fresh
    <3>10. Gathered' /\ Engine!ResultIsOwn'
      BY <3>1, <3>4 DEF Gathered, Engine!ResultIsOwn
    <3> QED
      BY <3>8, <3>9, <3>10
  <2> QED
    BY <2>1, <2>2
<1>4. CASE Engine!Configure
  <2> DEFINE cs == <<[kind |-> "setoption", request |-> order.request], [kind |-> "isready", request |-> NoRequest]>>
  <2>1. /\ order.pc = "started" /\ Engine!NeedsSearch(order.request) /\ process # 0 /\ Engine!Send(process, cs)
        /\ order' = [order EXCEPT !.pc = "options"]
        /\ UNCHANGED <<process, output, reader, hand, answer>>
    BY <1>4 DEF Engine!Configure, Engine!Running
  <2>2. order.request \in Requests
    BY <2>1 DEF Engine!NeedsSearch
  <2>3. cs \in Seq(Commands) /\ cs = <<Command("setoption", order.request), Command("isready", NoRequest)>>
    BY <2>2 DEF Commands, SomeRequest, Command
  <2>4. order'.pc = "options" /\ order'.request = order.request /\ order'.infos = order.infos
    BY <2>1 DEF EngineTypes
  <2>5. system[process].commands = << >> /\ system[process].search = NoRequest /\ Only(Stream, Ends)
    BY <2>1 DEF Flow, Flowing
  <2> HIDE DEF cs
  <2>6. /\ system'[process].commands = cs /\ system'[process].search = NoRequest
        /\ system'[process].pipe = system[process].pipe /\ system'[process].open
    BY <2>1, <2>3, <2>5, SentFlows
  <2>7. Stream' = Stream
    BY <2>1, <2>6 DEF Stream, InHand
  <2>8. Flow'
    BY <2>1, <2>2, <2>3, <2>4, <2>5, <2>6, <2>7 DEF Flow, Flowing
  <2>9. Fresh'
    BY <2>1, <2>6 DEF Fresh
  <2> QED
    BY <2>1, <2>4, <2>8, <2>9 DEF Gathered, Engine!ResultIsOwn
<1>5. CASE Engine!NoSearch
  <2>1. /\ order.pc = "started" /\ order' = Engine!Idle /\ answer'.kind # "result"
        /\ UNCHANGED <<process, output, reader, hand, system>>
    BY <1>5 DEF Engine!NoSearch, Engine!Return
  <2>2. order'.pc = "idle" /\ order'.infos = << >>
    BY <2>1 DEF Engine!Idle
  <2>3. Flow'
    BY <2>1, <2>2 DEF Flow, Flowing, Stream, InHand
  <2> QED
    BY <2>1, <2>2, <2>3 DEF Fresh, Gathered, Engine!ResultIsOwn
<1>6. CASE Engine!Rejected \/ Engine!StreamEnds \/ Engine!Expire
  BY <1>6, FailResults DEF Engine!Rejected, Engine!StreamEnds, Engine!Expire
<1>7. CASE Engine!Interrupt
  BY <1>7, FailResults DEF Engine!Interrupt
<1>8. CASE Engine!Handshake
  <2>1. CASE Engine!Fail("StockfishIdentityError")
    BY <2>1, FailResults
  <2>2. CASE ~Engine!Fail("StockfishIdentityError")
    <3>1. /\ order.pc = "handshake" /\ output # << >> /\ output' = Tail(output)
          /\ \/ order' = [order EXCEPT !.name = Head(output).form]
             \/ order' = order
             \/ order' = [order EXCEPT !.pc = "started"] /\ Head(output).kind = "uciok"
          /\ UNCHANGED <<process, reader, hand, system, answer>>
      BY <1>8, <2>2 DEF Engine!Handshake, Engine!Takes, Engine!Took
    <3>2. process # 0 /\ system'[process].open
      BY <3>1 DEF Held, Fresh
    <3>3. /\ Stream # << >> /\ Head(Stream) = Head(output) /\ Stream' = Tail(Stream)
          /\ Stream \in Seq(Sent)
      BY <3>1, <3>2, StreamTaken, StreamTypes
    <3>4. Flowing("handshake", order.request, system[process].commands, system[process].search, Stream)
      BY <3>1, <3>2 DEF Flow
    <3>5. /\ order'.request = order.request /\ order'.infos = order.infos
          /\ order'.pc = "handshake" \/ (order'.pc = "started" /\ Head(output).kind = "uciok")
      BY <3>1 DEF EngineTypes
    <3>6. Flowing(order'.pc, order'.request, system[process].commands, system[process].search, Tail(Stream))
      <4>1. CASE order'.pc = "handshake"
        BY <3>3, <3>4, <3>5, <4>1, PassingFlows DEF Waiting
      <4>2. CASE order'.pc = "started" /\ Head(output).kind = "uciok"
        <5>1. system[process].commands = << >> /\ system[process].search = NoRequest /\ Only(Tail(Stream), Ends)
          BY <3>3, <3>4, <4>2, AnswerFlows, Bounds DEF Waiting
        <5> QED
          BY <4>2, <5>1 DEF Flowing
      <4> QED
        BY <3>5, <4>1, <4>2
    <3>7. Gathered'
      BY <3>1, <3>5 DEF Gathered
    <3> QED
      BY <3>1, <3>2, <3>3, <3>6, <3>7, TookResults
  <2> QED
    BY <2>1, <2>2
<1>9. CASE Engine!Ready
  <2>1. CASE Engine!Fail("StockfishProcessError")
    BY <2>1, FailResults
  <2>2. CASE ~Engine!Fail("StockfishProcessError")
    <3> DEFINE cs == <<[kind |-> "go", request |-> order.request]>>
    <3>1. /\ order.pc = "options" /\ output # << >> /\ output' = Tail(output)
          /\ \/ order' = order /\ system' = system
             \/ /\ Engine!Send(process, cs) /\ Head(output).kind = "readyok"
                /\ order' = [order EXCEPT !.pc = "search"]
          /\ UNCHANGED <<process, reader, hand, answer>>
      BY <1>9, <2>2 DEF Engine!Ready, Engine!Takes, Engine!Took
    <3>2. process # 0
      BY <3>1 DEF Held
    <3>3. Flowing("options", order.request, system[process].commands, system[process].search, Stream)
      BY <3>1, <3>2 DEF Flow
    <3>4. Stream \in Seq(Sent) /\ order.request \in Requests
      BY <3>2, <3>3, StreamTypes DEF Flowing
    <3>5. CASE order' = order /\ system' = system
      <4>1. Stream # << >> /\ Stream' = Tail(Stream)
        BY <3>1, <3>2, <3>5, StreamTaken
      <4>2. Flowing("options", order.request, system[process].commands, system[process].search, Tail(Stream))
        BY <3>3, <3>4, <4>1, PassingFlows DEF Waiting
      <4>3. Gathered' /\ system'[process].open
        BY <3>2, <3>5 DEF Gathered, Fresh
      <4> QED
        BY <3>1, <3>2, <3>5, <4>1, <4>2, <4>3, TookResults
    <3>6. CASE Engine!Send(process, cs) /\ Head(output).kind = "readyok" /\ order' = [order EXCEPT !.pc = "search"]
      <4>1. cs \in Seq(Commands) /\ cs = <<Command("go", order.request)>>
        BY <3>4 DEF Commands, SomeRequest, Command
      <4>2. Stream # << >> /\ Head(Stream) = Head(output)
        <5> DEFINE a == output
                   b == InHand(process)
                   c == system[process].pipe
        <5>1. a \in Seq(Sent) /\ b \in Seq(Sent) /\ c \in Seq(Sent) /\ a \o b \in Seq(Sent) /\ a # << >>
          BY <3>1, <3>2, StreamTypes
        <5>2. Stream = (a \o b) \o c /\ Head(output) = Head(a)
          BY DEF Stream
        <5> HIDE DEF a, b, c
        <5>3. a \o b # << >> /\ Head(a \o b) = Head(a)
          BY <5>1, Rows
        <5>4. (a \o b) \o c # << >> /\ Head((a \o b) \o c) = Head(a \o b)
          BY <5>1, <5>3, Rows
        <5> QED
          BY <5>2, <5>3, <5>4
      <4>3. system[process].commands = << >> /\ system[process].search = NoRequest /\ Only(Tail(Stream), Ends)
        BY <3>3, <3>4, <3>6, <4>2, AnswerFlows, Bounds DEF Waiting
      <4> HIDE DEF cs
      <4>4. /\ system'[process].commands = cs /\ system'[process].search = NoRequest
            /\ system'[process].pipe = system[process].pipe /\ system'[process].open
        BY <3>2, <3>6, <4>1, <4>3, SentFlows
      <4>5. order'.pc = "search" /\ order'.request = order.request /\ order'.infos = order.infos
        BY <3>6 DEF EngineTypes
      <4>6. Own(Tail(Stream), order.request)
        BY <4>3 DEF Own, Only, Ends
      <4>7. Stream' = Tail(Stream)
        BY <3>1, <3>2, <4>4, StreamTaken
      <4>8. Flowing(order'.pc, order'.request, system'[process].commands, system'[process].search, Tail(Stream))
        BY <3>4, <4>1, <4>3, <4>4, <4>5, <4>6 DEF Flowing
      <4>9. Gathered'
        BY <3>1, <4>5 DEF Gathered
      <4> QED
        BY <3>1, <3>2, <4>4, <4>7, <4>8, <4>9, TookResults
    <3> QED
      BY <3>1, <3>5, <3>6
  <2> QED
    BY <2>1, <2>2
<1>10. CASE Engine!Info
  <2>1. CASE Engine!Fail("NameError")
    BY <2>1, FailResults
  <2>2. CASE ~Engine!Fail("NameError")
    <3> DEFINE h == Head(output)
    <3>1. /\ order.pc = "search" /\ output # << >> /\ output' = Tail(output)
          /\ \/ order' = order
             \/ /\ h.kind = "info"
                /\ order' = [order EXCEPT !.infos = [k \in DOMAIN @ \cup {h.rank} |-> IF k = h.rank THEN h ELSE @[k]]]
          /\ UNCHANGED <<process, reader, hand, system, answer>>
      BY <1>10, <2>2 DEF Engine!Info, Engine!Takes, Engine!Took
    <3>2. process # 0 /\ system'[process].open
      BY <3>1 DEF Held, Fresh
    <3>3. Flowing("search", order.request, system[process].commands, system[process].search, Stream)
      BY <3>1, <3>2 DEF Flow
    <3>4. Stream # << >> /\ Head(Stream) = h /\ Stream' = Tail(Stream) /\ Stream \in Seq(Sent)
      BY <3>1, <3>2, StreamTaken, StreamTypes
    <3>5. h.kind = "info" => h.request = order.request
      <4>1. Own(Stream, order.request)
        BY <3>3 DEF Flowing
      <4> QED
        BY <3>4, <4>1, Taken
    <3>6. order'.pc = "search" /\ order'.request = order.request
      BY <3>1 DEF EngineTypes
    <3>7. Flowing("search", order.request, system[process].commands, system[process].search, Tail(Stream))
      BY <3>3, <3>4, PassingFlows DEF Waiting
    <3>8. Gathered'
      <4>1. CASE order' = order
        BY <4>1 DEF Gathered
      <4>2. CASE h.kind = "info" /\ order' = [order EXCEPT !.infos = [k \in DOMAIN @ \cup {h.rank} |->
                                                                       IF k = h.rank THEN h ELSE @[k]]]
        <5> HIDE DEF h
        <5>1. order'.infos = [k \in DOMAIN order.infos \cup {h.rank} |-> IF k = h.rank THEN h ELSE order.infos[k]]
          BY <4>2 DEF EngineTypes
        <5> QED
          BY <3>5, <3>6, <4>2, <5>1 DEF Gathered
      <4> QED
        BY <3>1, <4>1, <4>2
    <3> QED
      BY <3>1, <3>2, <3>4, <3>6, <3>7, <3>8, TookResults
  <2> QED
    BY <2>1, <2>2
<1>11. CASE Engine!Bestmove
  <2>1. CASE Engine!Fail("StockfishProtocolError")
    BY <2>1, FailResults
  <2>2. CASE ~Engine!Fail("StockfishProtocolError")
    <3>1. /\ order.pc = "search" /\ output # << >> /\ Head(output).kind = "bestmove" /\ output' = Tail(output)
          /\ order' = Engine!Idle
          /\ DOMAIN order.infos = Engine!Expected(order.request)
          /\ answer' = [kind |-> "result", request |-> order.request, lines |-> order.infos]
          /\ UNCHANGED <<process, reader, hand, system>>
      BY <1>11, <2>2 DEF Engine!Bestmove, Engine!Takes, Engine!Return
    <3>2. process # 0 /\ system'[process].open
      BY <3>1 DEF Held, Fresh
    <3>3. Flowing("search", order.request, system[process].commands, system[process].search, Stream)
      BY <3>1, <3>2 DEF Flow
    <3>4. Stream # << >> /\ Head(Stream) = Head(output) /\ Stream' = Tail(Stream) /\ Stream \in Seq(Sent)
      BY <3>1, <3>2, StreamTaken, StreamTypes
    <3>5. system[process].commands = << >> /\ system[process].search = NoRequest /\ Only(Tail(Stream), Ends)
      BY <3>1, <3>3, <3>4, AnswerFlows, Bounds DEF Waiting
    <3>6. order'.pc = "idle" /\ order'.infos = << >>
      BY <3>1 DEF Engine!Idle
    <3>7. Flow'
      BY <3>1, <3>4, <3>5, <3>6 DEF Flow, Flowing
    <3>8. Fresh'
      BY <3>1, <3>2, TakenFresh DEF Fresh
    <3>9. Gathered'
      BY <3>6 DEF Gathered
    <3>10. Engine!ResultIsOwn'
      BY <3>1 DEF Gathered, Engine!ResultIsOwn
    <3> QED
      BY <3>7, <3>8, <3>9, <3>10
  <2> QED
    BY <2>1, <2>2
<1>12. ASSUME NEW p \in Engine!Processes, Engine!Answers(p) \/ Engine!Searches(p) \/ Engine!Exits(p)
       PROVE  Fresh' /\ Flow' /\ Gathered' /\ Engine!ResultIsOwn'
  <2>1. /\ system[p].commands # << >> \/ system[p].search # NoRequest \/ system[p].open
        /\ UNCHANGED <<process, output, reader, hand, order, answer>>
    BY <1>12 DEF Engine!Answers, Engine!Searches, Engine!Exits
  <2>2. p = process /\ process # 0
    BY <2>1, Bounds DEF Held
  <2>3. /\ Flowing(order.pc, order.request, system[p].commands, system[p].search, Stream)
        /\ Stream \in Seq(Sent) /\ system[p].open /\ system[p] \in Systems
    BY <2>2, StreamTypes DEF Flow, Fresh
  <2>4. CASE order.pc = "stopped"
    <3>1. Flow'
      BY <2>1, <2>4 DEF Flow, Flowing
    <3>2. system'[process].open
      <4>1. CASE Engine!Answers(p)
        <5>1. PICK d \in Systems, lines \in Seq(Sent) : Answered(p, d, lines)
          BY <4>1, Answering
        <5> QED
          BY <2>2, <2>3, <5>1 DEF Answered, EngineTypes
      <4>2. CASE Engine!Searches(p)
        <5>1. PICK d \in Systems, l \in Sent : Searched(p, d, l)
          BY <4>2, Searching
        <5> QED
          BY <2>2, <2>3, <5>1 DEF Searched, EngineTypes
      <4>3. CASE Engine!Exits(p)
        BY <2>2, <2>3, <4>3 DEF Engine!Exits, EngineTypes, Systems
      <4> QED
        BY <1>12, <4>1, <4>2, <4>3
    <3> QED
      BY <2>1, <3>1, <3>2 DEF Fresh, Gathered, Engine!ResultIsOwn
  <2>5. CASE order.pc # "stopped"
    <3>1. CASE Engine!Answers(p)
      <4>1. PICK d \in Systems, lines \in Seq(Sent) : Answered(p, d, lines)
        BY <3>1, Answering
      <4>2. system'[p] = d /\ d.pipe = system[p].pipe \o lines /\ d.open
        BY <2>3, <4>1 DEF Answered, EngineTypes
      <4>3. Stream' = Stream \o lines
        BY <2>1, <2>2, <4>2, StreamGrows
      <4>4. Flowing(order.pc, order.request, d.commands, d.search, Stream \o lines)
        BY <2>3, <2>5, <4>1, RepliesFlow DEF EngineTypes
      <4> QED
        BY <2>1, <2>2, <4>2, <4>3, <4>4 DEF Fresh, Flow, Gathered, Engine!ResultIsOwn
    <3>2. CASE Engine!Searches(p)
      <4>1. PICK d \in Systems, l \in Sent : Searched(p, d, l)
        BY <3>2, Searching
      <4>2. system'[p] = d /\ d.pipe = system[p].pipe \o <<l>> /\ d.open /\ <<l>> \in Seq(Sent)
        BY <2>3, <4>1 DEF Searched, EngineTypes
      <4>3. Stream' = Stream \o <<l>>
        BY <2>1, <2>2, <4>2, StreamGrows
      <4>4. Flowing(order.pc, order.request, d.commands, d.search, Stream \o <<l>>)
        BY <2>3, <2>5, <4>1, FindingsFlow DEF EngineTypes
      <4> QED
        BY <2>1, <2>2, <4>2, <4>3, <4>4 DEF Fresh, Flow, Gathered, Engine!ResultIsOwn
    <3>3. CASE Engine!Exits(p)
      <4>1. /\ system'[p].pipe = system[p].pipe /\ system'[p].commands = system[p].commands
            /\ system'[p].search = system[p].search /\ system'[p].open
        BY <2>3, <3>3 DEF Engine!Exits, EngineTypes, Systems
      <4>2. Stream' = Stream
        BY <2>1, <2>2, <4>1 DEF Stream, InHand
      <4> QED
        BY <2>1, <2>2, <2>3, <4>1, <4>2 DEF Fresh, Flow, Gathered, Engine!ResultIsOwn
    <3> QED
      BY <1>12, <3>1, <3>2, <3>3
  <2> QED
    BY <2>4, <2>5
<1>13. ASSUME NEW p \in Engine!Processes, Engine!Reads(p)
       PROVE  Fresh' /\ Flow' /\ Gathered' /\ Engine!ResultIsOwn'
  <2>1. reader[p] = "reading" /\ UNCHANGED <<process, output, reader, order, answer>>
    BY <1>13 DEF Engine!Reads
  <2>2. p = process /\ process # 0 /\ system[process].open
    BY <2>1, Bounds DEF Fresh
  <2>3. PICK l \in Sent, d \in Systems : HasRead(p, l, d)
    BY <1>13, Reading
  <2>4. system'[p] = d /\ d.commands = system[p].commands /\ d.search = system[p].search /\ d.open
    BY <2>2, <2>3 DEF HasRead, EngineTypes
  <2>5. Stream' = Stream \/ (l.kind \in Ends /\ Stream' = Stream \o <<l>>)
    BY <2>1, <2>2, <2>3, StreamRead
  <2>6. /\ Flowing(order.pc, order.request, system[p].commands, system[p].search, Stream)
        /\ Stream \in Seq(Sent)
    BY <2>2, StreamTypes DEF Flow
  <2>7. Flowing(order.pc, order.request, system[p].commands, system[p].search, Stream')
    BY <2>5, <2>6, EndFlows
  <2>8. Flow'
    BY <2>1, <2>2, <2>4, <2>7 DEF Flow
  <2> QED
    BY <2>1, <2>2, <2>4, <2>8 DEF Fresh, Gathered, Engine!ResultIsOwn
<1>14. ASSUME NEW p \in Engine!Processes, Engine!Puts(p)
       PROVE  Fresh' /\ Flow' /\ Gathered' /\ Engine!ResultIsOwn'
  <2>1. /\ reader[p] = "reading" /\ hand[p] # Engine!Nothing
        /\ output' = Append(output, hand[p])
        /\ hand' = [hand EXCEPT ![p] = Engine!Nothing]
        /\ UNCHANGED <<process, system, order, answer>>
    BY <1>14 DEF Engine!Puts
  <2>2. p = process /\ process # 0
    BY <2>1, Bounds DEF Fresh
  <2>3. hand[p].from = process /\ hand[p] \in Sent
    BY <2>1, <2>2 DEF Held, EngineTypes
  <2>4. \A k \in DOMAIN output' : output'[k].from = process'
    <3>1. /\ DOMAIN output' = 1..(Len(output) + 1) /\ DOMAIN output = 1..Len(output) /\ Len(output) \in Nat
          /\ output'[Len(output) + 1] = hand[p]
          /\ \A k \in 1..Len(output) : output'[k] = output[k]
      BY <2>1, <2>3 DEF EngineTypes
    <3>2. \A k \in DOMAIN output' : k \in DOMAIN output \/ k = Len(output) + 1
      BY <3>1
    <3> QED
      BY <2>1, <2>2, <2>3, <3>1, <3>2 DEF Fresh
  <2>5. Stream' = Stream
    BY <2>1, <2>2, StreamPut
  <2>6. Flow'
    BY <2>1, <2>5 DEF Flow
  <2>7. Fresh'
    BY <2>1, <2>2, <2>4 DEF Fresh, Engine!ReadersEnd
  <2> QED
    BY <2>1, <2>6, <2>7 DEF Gathered, Engine!ResultIsOwn
<1> QED
  BY <1>1, <1>2, <1>3, <1>4, <1>5, <1>6, <1>7, <1>8, <1>9, <1>10, <1>11, <1>12, <1>13, <1>14
     DEF Engine!Next, Engine!Work, SomeRequest

-----------------------------------------------------------------------------
(* The composition. *)

\* What holds of the engine's part, whichever behaviour it is.
EnginesInv == EngineTypes /\ Held /\ Few /\ (part = "exact" => ResultInv)

\* The invariant of the composition.
LEMMA EnginesInvariance == EnginesSpec => []EnginesInv
<1>1. EnginesInit => EnginesInv
  BY TypesAtFirst, FewAtFirst, ResultsAtFirst DEF EnginesInit, EnginesInv
<1>2. EnginesInv /\ [EnginesNext]_engines => EnginesInv'
  <2> SUFFICES ASSUME EnginesInv, [EnginesNext]_engines PROVE EnginesInv'
    OBVIOUS
  <2>1. CASE InTime(Engine!Next)
    <3>1. part = "exact" /\ part' = part /\ Engine!Next /\ Engine!ReadersEnd
      BY <2>1 DEF InTime, OfEngine
    <3>2. EngineTypes' /\ Held' /\ Few'
      BY <3>1, EngineStep, FewStep DEF EnginesInv
    <3>3. Fresh' /\ Flow' /\ Gathered' /\ Engine!ResultIsOwn'
      BY <3>1, ResultStep DEF EnginesInv
    <3> QED
      BY <3>2, <3>3 DEF EnginesInv, ResultInv
  <2>2. CASE Straying(Engine!Next)
    <3>1. part = "straying" /\ part' = part /\ Engine!Next
      BY <2>2 DEF Straying, OfEngine
    <3> QED
      BY <3>1, EngineStep, FewStep DEF EnginesInv
  <2>3. CASE UNCHANGED <<part, engine>>
    <3>1. EngineTypes' /\ Held' /\ Few'
      BY <2>3 DEF EnginesInv, engine, EngineTypes, Held, Few, Stray
    <3>2. ResultInv => Fresh' /\ Flow' /\ Gathered' /\ Engine!ResultIsOwn'
      BY <2>3 DEF engine, ResultInv, Fresh, Flow, Stream, InHand, Gathered, Engine!ResultIsOwn
    <3> QED
      BY <2>3, <3>1, <3>2 DEF EnginesInv, ResultInv
  <2> QED
    BY <2>1, <2>2, <2>3 DEF EnginesNext, Managed, OfBenchmark, engines
<1> QED
  BY <1>1, <1>2, PTL DEF EnginesSpec

\* No process is worked with but the one held, of a replaced one at most one line is
\* taken for the replacement's, and where no reader outlives its join a result holds
\* exactly the lines asked for, each sent for this very request (engine_runner.py:149,
\* 184, 232, 296).
THEOREM ResultsStayOwn == EnginesSpec => []ResultsAreOwn
<1>1. EnginesInv => ResultsAreOwn
  <2> SUFFICES ASSUME EnginesInv PROVE ResultsAreOwn
    OBVIOUS
  <2>1. Engine!TypeOK
    BY DEF EnginesInv, EngineTypes, Held, Engine!TypeOK, Waiting
  <2>2. Engine!OneVerifiedChild
    BY Bounds DEF EnginesInv, Held, Engine!OneVerifiedChild
  <2>5. Engine!StraysAreFew
    BY DEF EnginesInv, Few, Stray, Ends, Engine!StraysAreFew
  <2>3. part = "exact" => Engine!ResultIsOwn
    BY DEF EnginesInv, ResultInv
  <2>4. part = "exact" => Engine!ReplacementIsFresh
    BY DEF EnginesInv, ResultInv, Held, Fresh, Engine!ReplacementIsFresh
  <2> QED
    BY <2>1, <2>2, <2>3, <2>4, <2>5 DEF ResultsAreOwn
<1> QED
  BY <1>1, EnginesInvariance, PTL

-----------------------------------------------------------------------------
(* The benchmark.  The attempts that are stored are what every run starts    *)
(* from and what the memory of the current one differs from by one attempt   *)
(* at most; which writes are still to come follows from where the run is.    *)

Att == Benchmark!Attempts
Succ(rs) == Benchmark!JobSets(rs, "success")
Fail(rs) == Benchmark!JobSets(rs, "failure")

LEMMA Attempted ==
  ASSUME NEW r \in Att
  PROVE  r.status \in {"success", "failure"} /\ r.attempt \in Nat /\ r.job \in UNION {Benchmark!JobIds(s) : s \in Specs}
BY DEF Att, Benchmark!Attempts

\* The attempts whose job is attempted for the last time.
LEMMA JobsOf ==
  ASSUME NEW rs, NEW status, NEW j
  PROVE  j \in Benchmark!JobSets(rs, status) <=>
           \E k \in DOMAIN rs : /\ rs[k].job = j /\ rs[k].status = status
                                /\ \A l \in k + 1 .. Len(rs) : rs[l].job # rs[k].job
BY DEF Benchmark!JobSets

LEMMA JobsAppend ==
  ASSUME NEW rs \in Seq(Att), NEW r \in Att, NEW status
  PROVE  Benchmark!JobSets(Append(rs, r), status) =
           IF r.status = status THEN Benchmark!JobSets(rs, status) \cup {r.job}
                                ELSE Benchmark!JobSets(rs, status) \ {r.job}
<1> DEFINE new == Append(rs, r)
<1>1. /\ new \in Seq(Att) /\ Len(new) = Len(rs) + 1 /\ new[Len(rs) + 1] = r
      /\ \A k \in 1 .. Len(rs) : new[k] = rs[k]
      /\ DOMAIN rs = 1 .. Len(rs) /\ DOMAIN new = 1 .. Len(rs) + 1 /\ Len(rs) \in Nat
  OBVIOUS
<1> HIDE DEF new
<1>2. ASSUME NEW j
      PROVE  j \in Benchmark!JobSets(new, status) <=>
               \/ r.status = status /\ j = r.job
               \/ j # r.job /\ j \in Benchmark!JobSets(rs, status)
  <2>1. ASSUME j \in Benchmark!JobSets(new, status)
        PROVE  \/ r.status = status /\ j = r.job
               \/ j # r.job /\ j \in Benchmark!JobSets(rs, status)
    <3>1. PICK k \in DOMAIN new : /\ new[k].job = j /\ new[k].status = status
                                  /\ \A l \in k + 1 .. Len(new) : new[l].job # new[k].job
      BY <2>1, JobsOf
    <3>2. CASE k = Len(rs) + 1
      BY <3>1, <3>2, <1>1
    <3>3. CASE k # Len(rs) + 1
      <4>1. k \in DOMAIN rs /\ rs[k].job = j /\ rs[k].status = status
        BY <3>1, <3>3, <1>1
      <4>2. \A l \in k + 1 .. Len(rs) : rs[l].job # rs[k].job
        BY <3>1, <4>1, <1>1
      <4>3. new[Len(rs) + 1].job # new[k].job
        BY <3>1, <4>1, <1>1
      <4>4. j # r.job
        BY <4>3, <4>1, <3>1, <1>1
      <4> QED BY <4>1, <4>2, <4>4, JobsOf
    <3> QED BY <3>2, <3>3
  <2>2. ASSUME r.status = status, j = r.job
        PROVE  j \in Benchmark!JobSets(new, status)
    <3>1. /\ Len(rs) + 1 \in DOMAIN new /\ new[Len(rs) + 1].job = j /\ new[Len(rs) + 1].status = status
          /\ \A l \in (Len(rs) + 1) + 1 .. Len(new) : new[l].job # new[Len(rs) + 1].job
      BY <2>2, <1>1
    <3> QED BY <3>1, JobsOf
  <2>3. ASSUME j # r.job, j \in Benchmark!JobSets(rs, status)
        PROVE  j \in Benchmark!JobSets(new, status)
    <3>1. PICK k \in DOMAIN rs : /\ rs[k].job = j /\ rs[k].status = status
                                 /\ \A l \in k + 1 .. Len(rs) : rs[l].job # rs[k].job
      BY <2>3, JobsOf
    <3>2. k \in DOMAIN new /\ new[k].job = j /\ new[k].status = status
      BY <3>1, <1>1
    <3>3. \A l \in k + 1 .. Len(new) : new[l].job # new[k].job
      BY <3>1, <2>3, <1>1
    <3> QED BY <3>2, <3>3, JobsOf
  <2> QED BY <2>1, <2>2, <2>3
<1> QED BY <1>2 DEF new

\* MeasuredOnce of any attempts.
Once(rs) ==
  \A i \in DOMAIN rs :
    /\ \A k \in 1 .. i - 1 : rs[k].job = rs[i].job => rs[k].status = "failure"
    /\ rs[i].attempt = Benchmark!Cardinality({k \in 1 .. i : rs[k].job = rs[i].job})

LEMMA Counted == \A s : Benchmark!Cardinality(s) = Cardinality(s)
BY Zenon DEF Benchmark!Cardinality, Cardinality

LEMMA NeverSucceeded ==
  ASSUME NEW rs \in Seq(Att), Once(rs), NEW j, j \notin Succ(rs)
  PROVE  \A k \in DOMAIN rs : rs[k].job = j => rs[k].status = "failure"
<1> SUFFICES ASSUME NEW k \in DOMAIN rs, rs[k].job = j, rs[k].status # "failure" PROVE FALSE
  OBVIOUS
<1>1. DOMAIN rs = 1 .. Len(rs) /\ Len(rs) \in Nat /\ rs[k] \in Att
  OBVIOUS
<1>2. rs[k].status = "success"
  BY <1>1, Attempted
<1>3. ASSUME NEW l \in k + 1 .. Len(rs) PROVE rs[l].job # rs[k].job
  <2>1. l \in DOMAIN rs /\ k \in 1 .. l - 1
    BY <1>1
  <2> QED BY <1>2, <2>1 DEF Once
<1> QED BY <1>1, <1>2, <1>3, JobsOf DEF Succ

LEMMA OnceAppend ==
  ASSUME NEW rs \in Seq(Att), NEW r \in Att, Once(rs), r.job \notin Succ(rs),
         r.attempt = Benchmark!Cardinality({k \in DOMAIN rs : rs[k].job = r.job}) + 1
  PROVE  Once(Append(rs, r))
<1> DEFINE new == Append(rs, r)
<1>1. /\ new \in Seq(Att) /\ Len(new) = Len(rs) + 1 /\ new[Len(rs) + 1] = r
      /\ \A k \in 1 .. Len(rs) : new[k] = rs[k]
      /\ DOMAIN rs = 1 .. Len(rs) /\ DOMAIN new = 1 .. Len(rs) + 1 /\ Len(rs) \in Nat
  OBVIOUS
<1> HIDE DEF new
<1> SUFFICES ASSUME NEW i \in DOMAIN new
             PROVE  /\ \A k \in 1 .. i - 1 : new[k].job = new[i].job => new[k].status = "failure"
                    /\ new[i].attempt = Benchmark!Cardinality({k \in 1 .. i : new[k].job = new[i].job})
  BY DEF Once, new
<1>2. CASE i # Len(rs) + 1
  <2>1. i \in 1 .. Len(rs)
    BY <1>1, <1>2
  <2>2. {k \in 1 .. i : new[k].job = new[i].job} = {k \in 1 .. i : rs[k].job = rs[i].job}
    BY <1>1, <2>1
  <2>3. \A k \in 1 .. i - 1 : new[k] = rs[k]
    BY <1>1, <2>1
  <2> QED BY <1>1, <2>1, <2>2, <2>3 DEF Once
<1>3. CASE i = Len(rs) + 1
  <2> DEFINE same == {k \in DOMAIN rs : rs[k].job = r.job}
  <2>1. {k \in 1 .. i : new[k].job = new[i].job} = same \cup {Len(rs) + 1}
    BY <1>1, <1>3
  <2>2. IsFiniteSet(same) /\ Len(rs) + 1 \notin same
    <3>1. IsFiniteSet(1 .. Len(rs))
      BY <1>1, FS_Interval
    <3>2. same \subseteq 1 .. Len(rs)
      BY <1>1
    <3> QED BY <3>1, <3>2, FS_Subset, <1>1
  <2>3. Cardinality(same \cup {Len(rs) + 1}) = Cardinality(same) + 1
    BY <2>2, FS_AddElement
  <2>4. new[i].attempt = Benchmark!Cardinality({k \in 1 .. i : new[k].job = new[i].job})
    BY <2>1, <2>3, <1>1, <1>3, Counted
  <2>5. \A k \in 1 .. i - 1 : new[k].job = new[i].job => new[k].status = "failure"
    BY <1>1, <1>3, NeverSucceeded
  <2> QED BY <2>4, <2>5
<1> QED BY <1>2, <1>3

\* What an interrupted run left out of the checkpoint is no success, when the two agree.
LEMMA AgreedUnseen ==
  ASSUME NEW rs \in Seq(Att), Once(rs), NEW n \in Nat, n <= Len(rs), Succ(rs) = Succ(SubSeq(rs, 1, n))
  PROVE  \A i \in n + 1 .. Len(rs) : rs[i].status = "failure"
<1> SUFFICES ASSUME NEW i \in n + 1 .. Len(rs), rs[i].status # "failure" PROVE FALSE
  OBVIOUS
<1> DEFINE seen == SubSeq(rs, 1, n)
<1>1. DOMAIN rs = 1 .. Len(rs) /\ Len(rs) \in Nat /\ i \in DOMAIN rs /\ rs[i] \in Att
  OBVIOUS
<1>2. DOMAIN seen = 1 .. n /\ \A k \in 1 .. n : seen[k] = rs[k]
  OBVIOUS
<1> HIDE DEF seen
<1>3. rs[i].status = "success"
  BY <1>1, Attempted
<1>4. ASSUME NEW l \in i + 1 .. Len(rs) PROVE rs[l].job # rs[i].job
  <2>1. l \in DOMAIN rs /\ i \in 1 .. l - 1
    BY <1>1
  <2> QED BY <1>3, <2>1 DEF Once
<1>5. rs[i].job \in Succ(rs)
  BY <1>1, <1>3, <1>4, JobsOf DEF Succ
<1>6. rs[i].job \in Succ(seen)
  BY <1>5 DEF seen
<1>7. PICK k \in DOMAIN seen : seen[k].job = rs[i].job /\ seen[k].status = "success"
  BY <1>6, JobsOf DEF Succ
<1>8. k \in 1 .. i - 1 /\ rs[k].job = rs[i].job /\ rs[k].status = "success"
  BY <1>1, <1>2, <1>7
<1> QED BY <1>1, <1>8 DEF Once

LEMMA JobsAreSome ==
  ASSUME NEW rs \in Seq(Att), NEW status
  PROVE  Benchmark!JobSets(rs, status) \subseteq {rs[k].job : k \in DOMAIN rs}
BY JobsOf

\* The jobs of a specification are as many as TotalJobs says.
LEMMA JobsCounted ==
  ASSUME NEW s \in Specs
  PROVE  IsFiniteSet(Benchmark!JobIds(s)) /\ Cardinality(Benchmark!JobIds(s)) = Benchmark!TotalJobs(s)
<1> DEFINE P == s.positions
           B == s.budgets
           K == 1 .. Len(s.profiles)
           R == 1 .. s.repetitions
           D == (P \X B) \X (K \X R)
           J == Benchmark!JobIds(s)
           job(t) == [profile |-> s.profiles[t[2][1]], round |-> t[2][2], nodes |-> t[1][2], position |-> t[1][1]]
           f == [t \in D |-> job(t)]
<1>1. /\ IsFiniteSet(P) /\ IsFiniteSet(B) /\ s.repetitions \in Nat
      /\ s.profiles \in Seq(Benchmark!ToSet(s.profiles))
      /\ \A a, b \in DOMAIN s.profiles : s.profiles[a] = s.profiles[b] => a = b
  <2>1. Benchmark!IsFiniteSet(P) /\ Benchmark!IsFiniteSet(B)
    BY BenchmarkHolds DEF Benchmark!BenchmarkAssumption
  <2>2. \A S : Benchmark!IsFiniteSet(S) <=> IsFiniteSet(S)
    BY DEF Benchmark!IsFiniteSet, IsFiniteSet
  <2> QED BY <2>1, <2>2, BenchmarkHolds DEF Benchmark!BenchmarkAssumption, Benchmark!IsInjective
<1>2. Len(s.profiles) \in Nat /\ DOMAIN s.profiles = K
  BY <1>1
<1>3. J = {job(t) : t \in D}
  <2>1. J = UNION {{[profile |-> s.profiles[b], round |-> r, nodes |-> n, position |-> p] :
                      r \in R, n \in B, p \in P} : b \in K}
    BY <1>2 DEF Benchmark!JobIds, Benchmark!BlockJobs
  <2>2. ASSUME NEW j \in J PROVE j \in {job(t) : t \in D}
    <3>1. PICK b \in K, r \in R, n \in B, p \in P :
            j = [profile |-> s.profiles[b], round |-> r, nodes |-> n, position |-> p]
      BY <2>1, <2>2
    <3>2. <<<<p, n>>, <<b, r>>>> \in D /\ job(<<<<p, n>>, <<b, r>>>>) = j
      BY <3>1
    <3> QED BY <3>2
  <2>3. ASSUME NEW t \in D PROVE job(t) \in J
    <3>1. t[1][1] \in P /\ t[1][2] \in B /\ t[2][1] \in K /\ t[2][2] \in R
      OBVIOUS
    <3> QED BY <3>1, <2>1
  <2> QED BY <2>2, <2>3
<1>4. f \in Bijection(D, J)
  <2>1. f \in [D -> J] /\ \A j \in J : \E t \in D : f[t] = j
    BY <1>3
  <2>2. ASSUME NEW t \in D, NEW u \in D, f[t] = f[u] PROVE t = u
    <3>1. /\ s.profiles[t[2][1]] = s.profiles[u[2][1]] /\ t[2][2] = u[2][2]
          /\ t[1][2] = u[1][2] /\ t[1][1] = u[1][1]
      BY <2>2
    <3>2. t[2][1] \in DOMAIN s.profiles /\ u[2][1] \in DOMAIN s.profiles
      BY <1>2
    <3>3. t[2][1] = u[2][1]
      BY <3>1, <3>2, <1>1
    <3> QED BY <3>1, <3>3
  <2> HIDE DEF f
  <2>3. \A t, u \in DOMAIN f : f[t] = f[u] => t = u
    BY <2>1, <2>2
  <2> QED BY <2>1, <2>3 DEF Bijection, Injection, Surjection, IsInjective
<1>5. /\ IsFiniteSet(P \X B) /\ Cardinality(P \X B) = Cardinality(P) * Cardinality(B)
      /\ IsFiniteSet(K \X R) /\ Cardinality(K \X R) = Len(s.profiles) * s.repetitions
  <2>1. \A n \in Nat : IsFiniteSet(1 .. n) /\ Cardinality(1 .. n) = n
    <3> SUFFICES ASSUME NEW n \in Nat PROVE IsFiniteSet(1 .. n) /\ Cardinality(1 .. n) = n
      OBVIOUS
    <3>1. IsFiniteSet(1 .. n) /\ Cardinality(1 .. n) = IF 1 > n THEN 0 ELSE n - 1 + 1
      BY FS_Interval
    <3> QED BY <3>1
  <2>2. IsFiniteSet(K) /\ Cardinality(K) = Len(s.profiles) /\ IsFiniteSet(R) /\ Cardinality(R) = s.repetitions
    BY <2>1, <1>1, <1>2
  <2> HIDE DEF P, B, K, R
  <2> QED BY <2>2, <1>1, FS_Product
<1>6. IsFiniteSet(D) /\ Cardinality(D) = (Cardinality(P) * Cardinality(B)) * (Len(s.profiles) * s.repetitions)
  <2> HIDE DEF P, B, K, R
  <2>1. IsFiniteSet(D) /\ Cardinality(D) = Cardinality(P \X B) * Cardinality(K \X R)
    BY <1>5, FS_Product
  <2> QED BY <2>1, <1>5
<1>7. IsFiniteSet(J) /\ Cardinality(J) = Cardinality(D)
  BY <1>4, <1>6, FS_Bijection DEF ExistsBijection
<1>8. Cardinality(P) \in Nat /\ Cardinality(B) \in Nat
  BY <1>1, FS_CardinalityType
<1>9. Benchmark!TotalJobs(s) = Cardinality(P) * Cardinality(B) * Len(s.profiles) * s.repetitions
  BY Counted DEF Benchmark!TotalJobs
<1> HIDE DEF P, B, K, R, D, J
<1>10. Cardinality(P) * Cardinality(B) * Len(s.profiles) * s.repetitions
        = (Cardinality(P) * Cardinality(B)) * (Len(s.profiles) * s.repetitions)
  BY <1>8, <1>1, <1>2
<1> QED BY <1>6, <1>7, <1>9, <1>10 DEF J

LEMMA CompleteMeansAll ==
  ASSUME NEW s \in Specs, NEW jobs, jobs \subseteq Benchmark!JobIds(s)
  PROVE  Benchmark!Cardinality(jobs) = Benchmark!TotalJobs(s) <=> jobs = Benchmark!JobIds(s)
BY JobsCounted, Counted, FS_Subset

-----------------------------------------------------------------------------

Lines == Benchmark!Lines
Store == Benchmark!Stored
Whole(lines) == IF lines # <<>> /\ lines[Len(lines)] = Torn THEN SubSeq(lines, 1, Len(lines) - 1) ELSE lines

DiskTypes ==
  /\ disk = [f \in Benchmark!Files |-> disk[f]]
  /\ disk["manifest"] \in Specs \cup {Missing}
  /\ disk["attempts"] \in {Missing} \cup Seq(Att \cup {Torn})
  /\ disk["status"] \in {Missing, "complete", "interrupted", "incomplete"}

\* The attempts that were stored: whole but for a part of a last one; each job of
\* the manifest, none after a success, numbered.
StoreInv ==
  /\ Store \in Seq(Att) /\ Lines \in {Store, Append(Store, Torn)}
  /\ Once(Store)
  /\ \A i \in DOMAIN Store : disk["manifest"] # Missing /\ Store[i].job \in Benchmark!JobIds(disk["manifest"])

\* c is a checkpoint of a beginning of the stored attempts.
Sees(c) ==
  /\ c.count \in 0 .. Len(Store)
  /\ c.successful = Succ(SubSeq(Store, 1, c.count)) /\ c.failed = Fail(SubSeq(Store, 1, c.count))
  /\ \A i \in c.count + 1 .. Len(Store) - 1 : Store[i].status = "failure"

Begins(rs) == rs \in Seq(Att) /\ Len(rs) <= Len(Store) /\ rs = SubSeq(Store, 1, Len(rs))

ArtifactsInv ==
  /\ disk["checkpoint"] # Missing => Sees(disk["checkpoint"])
  /\ disk["summary"] # Missing => Begins(disk["summary"].records)
  /\ disk["csv"] # Missing => Begins(disk["csv"])

StatusInv ==
  disk["status"] = "complete" =>
    /\ Lines = Store /\ Succ(Store) = Benchmark!JobIds(disk["manifest"])
    /\ disk["checkpoint"].complete
    /\ disk["summary"] = [complete |-> TRUE, records |-> Store]

DiskInv == DiskTypes /\ StoreInv /\ ArtifactsInv /\ StatusInv

LEMMA MissingIsNothing ==
  /\ Torn \notin Att /\ Missing # "complete" /\ Missing \notin Specs /\ Missing \notin Seq(Att \cup {Torn})
  /\ Retries \in Nat
BY BenchmarkHolds DEF Benchmark!BenchmarkAssumption, Att

LEMMA WholeLines ==
  /\ \A rs \in Seq(Att) : Whole(rs) = rs /\ Whole(Append(rs, Torn)) = rs
  /\ Store = Whole(Lines) /\ Store' = Whole(Lines')
<1>1. ASSUME NEW rs \in Seq(Att) PROVE Whole(rs) = rs
  <2>1. CASE rs = <<>>
    BY <2>1 DEF Whole
  <2>2. CASE rs # <<>>
    <3>1. rs[Len(rs)] \in Att
      BY <2>2
    <3> QED BY <3>1, MissingIsNothing DEF Whole
  <2> QED BY <2>1, <2>2
<1>2. ASSUME NEW rs \in Seq(Att) PROVE Whole(Append(rs, Torn)) = rs
  <2> DEFINE new == Append(rs, Torn)
  <2>0. rs \in Seq(Att \cup {Torn})
    OBVIOUS
  <2>1. Len(new) = Len(rs) + 1 /\ new[Len(rs) + 1] = Torn /\ Len(rs) \in Nat /\ new \in Seq(Att \cup {Torn})
    BY <2>0
  <2>2. SubSeq(new, 1, Len(new) - 1) = rs
    BY <2>0, <2>1
  <2>3. new # <<>> /\ new[Len(new)] = Torn
    BY <2>1
  <2> HIDE DEF new
  <2>4. Whole(new) = rs
    BY <2>2, <2>3 DEF Whole
  <2> QED BY <2>4 DEF new
<1>3. Store = Whole(Lines) /\ Store' = Whole(Lines')
  BY DEF Store, Lines, Whole, Benchmark!Stored, Benchmark!Last, Benchmark!Front
<1> QED BY <1>1, <1>2, <1>3

\* A file other than that of the attempts is replaced.
LEMMA Replaced ==
  ASSUME DiskInv, NEW f \in Benchmark!Files \ {"attempts"}, NEW v, disk' = [disk EXCEPT ![f] = v]
  PROVE  /\ Lines' = Lines /\ Store' = Store /\ disk'[f] = v
         /\ \A g \in Benchmark!Files \ {f} : disk'[g] = disk[g]
         /\ disk' = [g \in Benchmark!Files |-> disk'[g]]
<1>1. disk = [g \in Benchmark!Files |-> disk[g]]
  BY DEF DiskInv, DiskTypes
<1>2. /\ disk'[f] = v
      /\ \A g \in Benchmark!Files \ {f} : disk'[g] = disk[g]
      /\ disk' = [g \in Benchmark!Files |-> disk'[g]]
  BY <1>1
<1>3. disk'["attempts"] = disk["attempts"]
  BY <1>2 DEF Benchmark!Files
<1>4. Lines' = Lines
  BY <1>3 DEF Lines, Benchmark!Lines
<1>5. Store' = Store
  BY <1>4, WholeLines
<1> QED BY <1>2, <1>4, <1>5

LEMMA SameDisk ==
  ASSUME DiskInv, UNCHANGED disk
  PROVE  DiskInv' /\ Lines' = Lines /\ Store' = Store
BY DEF DiskInv, DiskTypes, StoreInv, ArtifactsInv, StatusInv, Sees, Begins, Lines, Store, Benchmark!Lines,
       Benchmark!Stored, Benchmark!Last, Benchmark!Front

\* An attempt is appended, or a part of it.
LEMMA Appended ==
  ASSUME DiskInv, NEW r \in Att \cup {Torn}, disk' = [disk EXCEPT !["attempts"] = Append(Lines, r)], Lines = Store
  PROVE  /\ Lines' = Append(Store, r)
         /\ Store' = (IF r = Torn THEN Store ELSE Append(Store, r))
         /\ \A g \in Benchmark!Files \ {"attempts"} : disk'[g] = disk[g]
         /\ disk' = [g \in Benchmark!Files |-> disk'[g]]
         /\ disk'["attempts"] \in Seq(Att \cup {Torn})
<1>1. disk = [g \in Benchmark!Files |-> disk[g]] /\ "attempts" \in Benchmark!Files
  BY DEF DiskInv, DiskTypes, Benchmark!Files
<1>2. /\ disk'["attempts"] = Append(Store, r)
      /\ \A g \in Benchmark!Files \ {"attempts"} : disk'[g] = disk[g]
      /\ disk' = [g \in Benchmark!Files |-> disk'[g]]
  BY <1>1
<1>3. Store \in Seq(Att) /\ Store \in Seq(Att \cup {Torn})
  BY DEF DiskInv, StoreInv
<1>4. Append(Store, r) \in Seq(Att \cup {Torn})
  BY <1>3
<1>5. Lines' = Append(Store, r)
  BY <1>2, <1>4, MissingIsNothing DEF Lines, Benchmark!Lines
<1>6. CASE r = Torn
  BY <1>2, <1>3, <1>4, <1>5, <1>6, WholeLines
<1>7. CASE r # Torn
  <2>1. Append(Store, r) \in Seq(Att)
    BY <1>3, <1>7
  <2> QED BY <1>2, <1>4, <1>5, <1>7, <2>1, WholeLines
<1> QED BY <1>6, <1>7

NoArtifacts == \A f \in {"checkpoint", "summary", "csv", "status"} : disk[f] = Missing

LEMMA EmptyStore ==
  ASSUME DiskInv, Lines = <<>>
  PROVE  Store = <<>>
<1>1. <<>> \in Seq(Att)
  OBVIOUS
<1> QED BY <1>1, WholeLines

LEMMA ManifestWritten ==
  ASSUME DiskInv, NEW s \in Specs, disk' = [disk EXCEPT !["manifest"] = s], Lines = <<>>, NoArtifacts
  PROVE  DiskInv' /\ Lines' = Lines /\ Store' = Store
<1>1. /\ Lines' = Lines /\ Store' = Store /\ disk'["manifest"] = s
      /\ \A g \in Benchmark!Files \ {"manifest"} : disk'[g] = disk[g]
      /\ disk' = [g \in Benchmark!Files |-> disk'[g]]
  BY Replaced DEF Benchmark!Files
<1>2. /\ disk'["attempts"] = disk["attempts"] /\ disk'["status"] = Missing
      /\ disk'["checkpoint"] = Missing /\ disk'["summary"] = Missing /\ disk'["csv"] = Missing
  BY <1>1 DEF Benchmark!Files, NoArtifacts
<1>3. DiskTypes'
  BY <1>1, <1>2 DEF DiskInv, DiskTypes
<1>4. Store = <<>>
  BY EmptyStore
<1>5. StoreInv'
  BY <1>1, <1>4 DEF DiskInv, StoreInv, Once
<1>6. ArtifactsInv' /\ StatusInv'
  BY <1>2, MissingIsNothing DEF ArtifactsInv, StatusInv
<1> QED BY <1>1, <1>3, <1>5, <1>6 DEF DiskInv

LEMMA AttemptsBegun ==
  ASSUME DiskInv, disk' = [disk EXCEPT !["attempts"] = <<>>], Lines = <<>>, NoArtifacts
  PROVE  DiskInv' /\ Lines' = Lines /\ Store' = Store
<1>0. disk = [g \in Benchmark!Files |-> disk[g]] /\ "attempts" \in Benchmark!Files
  BY DEF DiskInv, DiskTypes, Benchmark!Files
<1>1. /\ disk'["attempts"] = <<>>
      /\ \A g \in Benchmark!Files \ {"attempts"} : disk'[g] = disk[g]
      /\ disk' = [g \in Benchmark!Files |-> disk'[g]]
  BY <1>0
<1>2. /\ disk'["manifest"] = disk["manifest"] /\ disk'["status"] = Missing
      /\ disk'["checkpoint"] = Missing /\ disk'["summary"] = Missing /\ disk'["csv"] = Missing
  BY <1>1 DEF Benchmark!Files, NoArtifacts
<1>3. <<>> \in Seq(Att \cup {Torn})
  OBVIOUS
<1>4. DiskTypes'
  BY <1>1, <1>2, <1>3 DEF DiskInv, DiskTypes
<1>5. Lines' = <<>>
  BY <1>1 DEF Lines, Benchmark!Lines
<1>6. Lines' = Lines /\ Store' = Store
  BY <1>5, WholeLines
<1>7. StoreInv'
  BY <1>2, <1>6 DEF DiskInv, StoreInv
<1>8. ArtifactsInv' /\ StatusInv'
  BY <1>2, MissingIsNothing DEF ArtifactsInv, StatusInv
<1> QED BY <1>4, <1>6, <1>7, <1>8 DEF DiskInv

LEMMA StatusWritten ==
  ASSUME DiskInv, NEW v \in {"complete", "interrupted", "incomplete"}, disk' = [disk EXCEPT !["status"] = v],
         v = "complete" =>
           /\ Lines = Store /\ Succ(Store) = Benchmark!JobIds(disk["manifest"])
           /\ disk["checkpoint"].complete
           /\ disk["summary"] = [complete |-> TRUE, records |-> Store]
  PROVE  DiskInv' /\ Lines' = Lines /\ Store' = Store
<1>1. /\ Lines' = Lines /\ Store' = Store /\ disk'["status"] = v
      /\ \A g \in Benchmark!Files \ {"status"} : disk'[g] = disk[g]
      /\ disk' = [g \in Benchmark!Files |-> disk'[g]]
  BY Replaced DEF Benchmark!Files
<1>2. /\ disk'["attempts"] = disk["attempts"] /\ disk'["manifest"] = disk["manifest"]
      /\ disk'["checkpoint"] = disk["checkpoint"] /\ disk'["summary"] = disk["summary"] /\ disk'["csv"] = disk["csv"]
  BY <1>1 DEF Benchmark!Files
<1>3. DiskTypes'
  BY <1>1, <1>2 DEF DiskInv, DiskTypes
<1>4. StoreInv' /\ ArtifactsInv'
  BY <1>1, <1>2 DEF DiskInv, StoreInv, ArtifactsInv, Sees, Begins
<1>5. StatusInv'
  BY <1>1, <1>2 DEF StatusInv
<1> QED BY <1>1, <1>3, <1>4, <1>5 DEF DiskInv

LEMMA CheckpointWritten ==
  ASSUME DiskInv, NEW c, disk' = [disk EXCEPT !["checkpoint"] = c], Sees(c),
         disk["status"] = "complete" => c.complete
  PROVE  DiskInv' /\ Lines' = Lines /\ Store' = Store
<1>1. /\ Lines' = Lines /\ Store' = Store /\ disk'["checkpoint"] = c
      /\ \A g \in Benchmark!Files \ {"checkpoint"} : disk'[g] = disk[g]
      /\ disk' = [g \in Benchmark!Files |-> disk'[g]]
  BY Replaced DEF Benchmark!Files
<1>2. /\ disk'["attempts"] = disk["attempts"] /\ disk'["manifest"] = disk["manifest"]
      /\ disk'["status"] = disk["status"] /\ disk'["summary"] = disk["summary"] /\ disk'["csv"] = disk["csv"]
  BY <1>1 DEF Benchmark!Files
<1>3. DiskTypes'
  BY <1>1, <1>2 DEF DiskInv, DiskTypes
<1>4. StoreInv'
  BY <1>1, <1>2 DEF DiskInv, StoreInv
<1>5. ArtifactsInv' /\ StatusInv'
  BY <1>1, <1>2 DEF DiskInv, ArtifactsInv, StatusInv, Sees, Begins
<1> QED BY <1>1, <1>3, <1>4, <1>5 DEF DiskInv

LEMMA SummaryWritten ==
  ASSUME DiskInv, NEW t, disk' = [disk EXCEPT !["summary"] = t], Begins(t.records),
         disk["status"] = "complete" => t = [complete |-> TRUE, records |-> Store]
  PROVE  DiskInv' /\ Lines' = Lines /\ Store' = Store
<1>1. /\ Lines' = Lines /\ Store' = Store /\ disk'["summary"] = t
      /\ \A g \in Benchmark!Files \ {"summary"} : disk'[g] = disk[g]
      /\ disk' = [g \in Benchmark!Files |-> disk'[g]]
  BY Replaced DEF Benchmark!Files
<1>2. /\ disk'["attempts"] = disk["attempts"] /\ disk'["manifest"] = disk["manifest"]
      /\ disk'["status"] = disk["status"] /\ disk'["checkpoint"] = disk["checkpoint"] /\ disk'["csv"] = disk["csv"]
  BY <1>1 DEF Benchmark!Files
<1>3. DiskTypes'
  BY <1>1, <1>2 DEF DiskInv, DiskTypes
<1>4. StoreInv'
  BY <1>1, <1>2 DEF DiskInv, StoreInv
<1>5. ArtifactsInv' /\ StatusInv'
  BY <1>1, <1>2 DEF DiskInv, ArtifactsInv, StatusInv, Sees, Begins
<1> QED BY <1>1, <1>3, <1>4, <1>5 DEF DiskInv

LEMMA TableWritten ==
  ASSUME DiskInv, NEW rs, disk' = [disk EXCEPT !["csv"] = rs], Begins(rs)
  PROVE  DiskInv' /\ Lines' = Lines /\ Store' = Store
<1>1. /\ Lines' = Lines /\ Store' = Store /\ disk'["csv"] = rs
      /\ \A g \in Benchmark!Files \ {"csv"} : disk'[g] = disk[g]
      /\ disk' = [g \in Benchmark!Files |-> disk'[g]]
  BY Replaced DEF Benchmark!Files
<1>2. /\ disk'["attempts"] = disk["attempts"] /\ disk'["manifest"] = disk["manifest"]
      /\ disk'["status"] = disk["status"] /\ disk'["checkpoint"] = disk["checkpoint"] /\ disk'["summary"] = disk["summary"]
  BY <1>1 DEF Benchmark!Files
<1>3. DiskTypes'
  BY <1>1, <1>2 DEF DiskInv, DiskTypes
<1>4. StoreInv'
  BY <1>1, <1>2 DEF DiskInv, StoreInv
<1>5. ArtifactsInv' /\ StatusInv'
  BY <1>1, <1>2 DEF DiskInv, ArtifactsInv, StatusInv, Sees, Begins
<1> QED BY <1>1, <1>3, <1>4, <1>5 DEF DiskInv

\* A part of a line may be left, if the benchmark was not complete.
LEMMA PartStored ==
  ASSUME DiskInv, disk' = [disk EXCEPT !["attempts"] = Append(Lines, Torn)], Lines = Store, disk["status"] # "complete"
  PROVE  DiskInv' /\ Lines' = Append(Store, Torn) /\ Store' = Store
<1>1. /\ Lines' = Append(Store, Torn) /\ Store' = Store
      /\ \A g \in Benchmark!Files \ {"attempts"} : disk'[g] = disk[g]
      /\ disk' = [g \in Benchmark!Files |-> disk'[g]]
      /\ disk'["attempts"] \in Seq(Att \cup {Torn})
  BY Appended
<1>2. /\ disk'["checkpoint"] = disk["checkpoint"] /\ disk'["manifest"] = disk["manifest"]
      /\ disk'["status"] = disk["status"] /\ disk'["summary"] = disk["summary"] /\ disk'["csv"] = disk["csv"]
  BY <1>1 DEF Benchmark!Files
<1>3. DiskTypes'
  BY <1>1, <1>2 DEF DiskInv, DiskTypes
<1>4. StoreInv'
  BY <1>1, <1>2 DEF DiskInv, StoreInv
<1>5. ArtifactsInv' /\ StatusInv'
  BY <1>1, <1>2 DEF DiskInv, ArtifactsInv, StatusInv, Sees, Begins
<1> QED BY <1>1, <1>3, <1>4, <1>5 DEF DiskInv

\* What the checkpoint does not tell of is no success.
Unseen ==
  disk["checkpoint"] # Missing =>
    \A i \in disk["checkpoint"].count + 1 .. Len(Store) : Store[i].status = "failure"

\* r is the next attempt of a job that has not been measured.
NextAttempt(r, rs, s) ==
  /\ r \in Att /\ r.job \in Benchmark!JobIds(s) /\ r.job \notin Succ(rs)
  /\ r.attempt = Benchmark!Cardinality({k \in DOMAIN rs : rs[k].job = r.job}) + 1

LEMMA AttemptStored ==
  ASSUME DiskInv, NEW r, disk' = [disk EXCEPT !["attempts"] = Append(Lines, r)], Lines = Store,
         disk["status"] # "complete", disk["manifest"] \in Specs, NextAttempt(r, Store, disk["manifest"]), Unseen
  PROVE  DiskInv' /\ Lines' = Append(Store, r) /\ Store' = Append(Store, r)
<1>0. r \in Att /\ r # Torn
  BY MissingIsNothing DEF NextAttempt
<1>1. /\ Lines' = Append(Store, r) /\ Store' = Append(Store, r)
      /\ \A g \in Benchmark!Files \ {"attempts"} : disk'[g] = disk[g]
      /\ disk' = [g \in Benchmark!Files |-> disk'[g]]
      /\ disk'["attempts"] \in Seq(Att \cup {Torn})
  BY <1>0, Appended
<1>2. /\ disk'["checkpoint"] = disk["checkpoint"] /\ disk'["manifest"] = disk["manifest"]
      /\ disk'["status"] = disk["status"] /\ disk'["summary"] = disk["summary"] /\ disk'["csv"] = disk["csv"]
  BY <1>1 DEF Benchmark!Files
<1>3. DiskTypes'
  BY <1>1, <1>2 DEF DiskInv, DiskTypes
<1>4. Store \in Seq(Att) /\ Once(Store)
  BY DEF DiskInv, StoreInv
<1>5. /\ Append(Store, r) \in Seq(Att) /\ Len(Append(Store, r)) = Len(Store) + 1 /\ Len(Store) \in Nat
      /\ Append(Store, r)[Len(Store) + 1] = r /\ \A i \in 1 .. Len(Store) : Append(Store, r)[i] = Store[i]
      /\ DOMAIN Append(Store, r) = 1 .. Len(Store) + 1 /\ DOMAIN Store = 1 .. Len(Store)
  BY <1>0, <1>4
<1>6. StoreInv'
  <2>1. Once(Append(Store, r))
    BY <1>4, OnceAppend DEF NextAttempt
  <2>2. Once(Store')
    BY <2>1, <1>1
  <2>3. \A i \in DOMAIN Store' : disk'["manifest"] # Missing /\ Store'[i].job \in Benchmark!JobIds(disk'["manifest"])
    <3> SUFFICES ASSUME NEW i \in 1 .. Len(Store) + 1
                 PROVE  disk["manifest"] # Missing /\ Append(Store, r)[i].job \in Benchmark!JobIds(disk["manifest"])
      BY <1>1, <1>2, <1>5
    <3>1. CASE i = Len(Store) + 1
      BY <3>1, <1>5, MissingIsNothing DEF NextAttempt
    <3>2. CASE i # Len(Store) + 1
      BY <3>2, <1>5 DEF DiskInv, StoreInv
    <3> QED BY <3>1, <3>2
  <2> QED BY <1>1, <1>5, <2>2, <2>3 DEF StoreInv, Once
<1>7. \A n \in 0 .. Len(Store) : SubSeq(Append(Store, r), 1, n) = SubSeq(Store, 1, n)
  BY <1>0, <1>4
<1>8. ASSUME disk["checkpoint"] # Missing PROVE Sees(disk["checkpoint"])'
  <2> DEFINE c == disk["checkpoint"]
  <2>1. Sees(c) /\ c' = c
    BY <1>2, <1>8 DEF DiskInv, ArtifactsInv
  <2>2. c.count \in 0 .. Len(Append(Store, r))
    BY <2>1, <1>5 DEF Sees
  <2>3. SubSeq(Append(Store, r), 1, c.count) = SubSeq(Store, 1, c.count)
    BY <2>1, <1>7 DEF Sees
  <2>4. \A i \in c.count + 1 .. Len(Append(Store, r)) - 1 : Append(Store, r)[i].status = "failure"
    BY <1>5, <1>8, <2>1 DEF Unseen, Sees
  <2> HIDE DEF c
  <2>5. /\ c.count \in 0 .. Len(Store')
        /\ c.successful = Succ(SubSeq(Store', 1, c.count)) /\ c.failed = Fail(SubSeq(Store', 1, c.count))
        /\ \A i \in c.count + 1 .. Len(Store') - 1 : Store'[i].status = "failure"
    BY <1>1, <2>1, <2>2, <2>3, <2>4 DEF Sees
  <2> QED BY <2>1, <2>5 DEF Sees, Succ, Fail, c
<1>9. \A rs : Begins(rs) => rs \in Seq(Att) /\ Len(rs) <= Len(Store') /\ rs = SubSeq(Store', 1, Len(rs))
  BY <1>1, <1>5, <1>7 DEF Begins
<1>10. ArtifactsInv'
  BY <1>2, <1>8, <1>9 DEF DiskInv, ArtifactsInv, Begins
<1>11. StatusInv'
  BY <1>2 DEF StatusInv
<1> QED BY <1>1, <1>3, <1>6, <1>10, <1>11 DEF DiskInv


-----------------------------------------------------------------------------

Jobs(s) == Benchmark!JobIds(s)
OfBlock(b) == Benchmark!BlockJobs(spec, b)
Steps == Benchmark!Points \cup {"idle"}

MemoryTypes ==
  /\ spec \in Specs /\ pc \in Steps /\ tries \in 0 .. Retries
  /\ records \in Seq(Att) /\ successful = Succ(records) /\ failed = Fail(records)
  /\ successful \cup failed \subseteq Jobs(spec)
  /\ block \in 0 .. Len(spec.profiles) + 1
  /\ leaving \in {"done", "interrupt", "error"}
  /\ outcome \in {"none", "complete", "incomplete", "interrupted", "raised", "refused", "died"}

\* The first writes in a new directory.
ToManifest == Benchmark!File("manifest", spec)
ToAttempts == Benchmark!File("attempts", <<>>)
ToStatus(s) == Benchmark!File("status", s)

BeginInv ==
  /\ pc \notin {"idle", "prepare", "load"} => disk["manifest"] = spec
  /\ pc \notin {"load", "note", "noteFailure", "finish"} => plan = <<>>
  /\ pc \in {"prepare", "load"} => leaving = "done"
  /\ pc = "load" =>
       \/ plan = <<>> /\ disk["manifest"] = spec
       \/ /\ Lines = <<>> /\ NoArtifacts
          /\ \/ plan = <<ToManifest, ToAttempts, ToStatus("incomplete")>>
             \/ plan = <<ToAttempts, ToStatus("incomplete")>> /\ disk["manifest"] = spec
             \/ plan = <<ToStatus("incomplete")>> /\ disk["manifest"] = spec

\* An attempt is stored, and then the checkpoint that tells of it.
ToCheckpoint(rs, complete, interrupted) ==
  Benchmark!File("checkpoint", Benchmark!Checkpoint(rs, Succ(rs), Fail(rs), complete, interrupted))

Noting(r) ==
  /\ NextAttempt(r, records, spec) /\ r.job \in todo
  /\ \/ plan = <<Benchmark!Line(r), ToCheckpoint(Append(records, r), FALSE, FALSE)>> /\ Lines = records /\ Unseen
     \/ plan = <<ToCheckpoint(Append(records, r), FALSE, FALSE)>> /\ Lines = Append(records, r)
     \/ plan = <<>> /\ Lines = Append(records, r) /\ Unseen

NoteInv == pc \in {"note", "noteFailure"} => \E r \in Att : Noting(r)

\* The profiles so far are done, and of the current one what is not in todo.
Progress ==
  /\ leaving = "done" /\ block >= 1
  /\ \A b \in 1 .. block - 1 : OfBlock(b) \subseteq successful \cup failed
Current ==
  /\ block <= Len(spec.profiles)
  /\ todo \subseteq OfBlock(block) \ successful
  /\ OfBlock(block) \subseteq successful \cup failed \cup todo

JobInv ==
  /\ pc = "block" => Progress /\ Lines = records /\ Unseen
  /\ pc \in {"start", "measure", "fail"} => Progress /\ Current /\ todo # {} /\ Lines = records /\ Unseen
  /\ pc \in {"note", "noteFailure"} => Progress /\ Current
  /\ pc = "close" /\ leaving = "done" => Progress /\ Current /\ todo = {} /\ Lines = records /\ Unseen

\* The attempts that are stored are those known, but for one.
Ahead(rs) == \E r \in Att : Store = Append(rs, r) /\ r.job \notin Succ(rs)
Behind(rs) == rs \in Seq(Att) /\ (Store = rs \/ Ahead(rs))

CloseInv ==
  pc = "close" /\ leaving # "done" =>
    Behind(records) /\ todo # {} /\ todo \cap successful = {} /\ todo \subseteq Jobs(spec)

ToSummary(rs, complete) == Benchmark!File("summary", [complete |-> complete, records |-> rs])
ToTable(rs) == Benchmark!File("csv", rs)

Finishing(rs, complete, interrupted) ==
  LET status == Benchmark!Status(complete, interrupted)
      told == disk["summary"] = [complete |-> complete, records |-> rs]
      checked == disk["checkpoint"] = Benchmark!Checkpoint(rs, Succ(rs), Fail(rs), complete, interrupted) IN
  /\ Behind(rs)
  /\ complete <=> (Succ(rs) = Jobs(spec))
  /\ complete => Lines = rs
  /\ disk["status"] = "complete" => complete
  /\ outcome = IF interrupted THEN "interrupted" ELSE Benchmark!Status(complete, FALSE)
  /\ ~interrupted => Store = rs /\ Succ(rs) \cup Fail(rs) = Jobs(spec)
  /\ \/ plan = <<ToSummary(rs, complete), ToTable(rs), ToCheckpoint(rs, complete, interrupted), ToStatus(status)>>
     \/ plan = <<ToTable(rs), ToCheckpoint(rs, complete, interrupted), ToStatus(status)>> /\ told
     \/ plan = <<ToCheckpoint(rs, complete, interrupted), ToStatus(status)>> /\ told
     \/ plan = <<ToStatus(status)>> /\ told /\ checked
     \/ plan = <<>> /\ told /\ checked /\ disk["status"] = status

FinishInv == pc = "finish" => \E rs \in Seq(Att), complete, interrupted \in BOOLEAN : Finishing(rs, complete, interrupted)

\* No run goes on once the status says "complete", and none that ends says it falsely.
OpenInv ==
  /\ pc \notin {"idle", "prepare", "load", "finish"} => disk["status"] # "complete"
  /\ pc = "idle" /\ outcome = "complete" => disk["status"] = "complete"
  /\ pc = "idle" /\ outcome = "incomplete" => Succ(Store) \cup Fail(Store) = Jobs(spec)

MemoryInv == MemoryTypes /\ BeginInv /\ NoteInv /\ JobInv /\ CloseInv /\ FinishInv /\ OpenInv
BenchmarkInv == DiskInv /\ MemoryInv

LEMMA BenchmarkAtFirst == Benchmark!Init => BenchmarkInv
<1> SUFFICES ASSUME Benchmark!Init PROVE BenchmarkInv
  OBVIOUS
<1> USE DEF Benchmark!Init
<1>1. disk = [f \in Benchmark!Files |-> disk[f]]
  BY DEF Benchmark!Files
<1>2. /\ disk["manifest"] = Missing /\ disk["attempts"] = Missing /\ disk["checkpoint"] = Missing
      /\ disk["summary"] = Missing /\ disk["csv"] = Missing /\ disk["status"] \in {Missing, "incomplete"}
  BY DEF Benchmark!Files
<1>3. DiskTypes
  BY <1>1, <1>2 DEF DiskTypes
<1>4. Lines = <<>> /\ <<>> \in Seq(Att)
  BY <1>2 DEF Lines, Benchmark!Lines
<1>5. Store = <<>>
  BY <1>4, WholeLines
<1>6. StoreInv
  BY <1>4, <1>5 DEF StoreInv, Once
<1>7. ArtifactsInv /\ StatusInv
  BY <1>2, MissingIsNothing DEF ArtifactsInv, StatusInv
<1>8. Succ(<<>>) = {} /\ Fail(<<>>) = {}
  BY DEF Succ, Fail, Benchmark!JobSets
<1>9. spec.profiles \in Seq(Benchmark!ToSet(spec.profiles))
  BY BenchmarkHolds DEF Benchmark!BenchmarkAssumption
<1>10. Len(spec.profiles) \in Nat
  BY <1>9
<1>11. MemoryTypes
  BY <1>4, <1>8, <1>10, MissingIsNothing DEF MemoryTypes, Steps
<1>12. BeginInv /\ NoteInv /\ JobInv /\ CloseInv /\ FinishInv /\ OpenInv
  BY DEF BeginInv, NoteInv, JobInv, CloseInv, FinishInv, OpenInv
<1> QED BY <1>3, <1>6, <1>7, <1>11, <1>12 DEF BenchmarkInv, DiskInv, MemoryInv

LEMMA FreshRun == Succ(<<>>) = {} /\ Fail(<<>>) = {} /\ <<>> \in Seq(Att)
BY DEF Succ, Fail, Benchmark!JobSets

LEMMA Profiles == ASSUME NEW s \in Specs PROVE Len(s.profiles) \in Nat \ {0} /\ DOMAIN s.profiles = 1 .. Len(s.profiles)
<1>1. s.profiles \in Seq(Benchmark!ToSet(s.profiles)) /\ s.profiles # <<>>
  BY BenchmarkHolds DEF Benchmark!BenchmarkAssumption
<1> QED BY <1>1

LEMMA InvokeStep == ASSUME BenchmarkInv, NEW s \in Specs, Benchmark!Invoke(s) PROVE BenchmarkInv'
<1> USE DEF Benchmark!Invoke
<1>1. DiskInv'
  BY SameDisk DEF BenchmarkInv
<1>2. MemoryTypes'
  BY FreshRun, Profiles DEF BenchmarkInv, MemoryInv, MemoryTypes, Steps, Benchmark!Points, Succ, Fail
<1>3. BeginInv'
  BY DEF BenchmarkInv, MemoryInv, BeginInv
<1>4. NoteInv' /\ JobInv' /\ CloseInv' /\ FinishInv' /\ OpenInv'
  BY DEF NoteInv, JobInv, CloseInv, FinishInv, OpenInv
<1> QED BY <1>1, <1>2, <1>3, <1>4 DEF BenchmarkInv, MemoryInv

\* A run that ends without another write, having changed nothing it knows.
LEMMA Ended ==
  ASSUME BenchmarkInv, DiskInv', NEW how \in {"raised", "refused", "died"}, Benchmark!End(how),
         UNCHANGED Benchmark!memory, leaving' \in {"done", "interrupt", "error"}
  PROVE  BenchmarkInv'
<1> USE DEF Benchmark!End, Benchmark!memory
<1>1. MemoryTypes'
  BY MissingIsNothing DEF BenchmarkInv, MemoryInv, MemoryTypes, Steps, Succ, Fail, Jobs
<1>2. BeginInv' /\ NoteInv' /\ JobInv' /\ CloseInv' /\ FinishInv' /\ OpenInv'
  BY DEF BeginInv, NoteInv, JobInv, CloseInv, FinishInv, OpenInv
<1> QED BY <1>1, <1>2 DEF BenchmarkInv, MemoryInv

LEMMA PrepareStep == ASSUME BenchmarkInv, Benchmark!Prepare PROVE BenchmarkInv'
<1> USE DEF Benchmark!Prepare, Benchmark!At
<1>1. DiskInv'
  BY SameDisk DEF BenchmarkInv
<1>2. leaving \in {"done", "interrupt", "error"} /\ leaving' = leaving /\ leaving = "done" /\ pc = "prepare"
  BY DEF BenchmarkInv, MemoryInv, MemoryTypes, BeginInv
<1>3. CASE Benchmark!End("refused")
  BY <1>1, <1>2, <1>3, Ended
<1>4. CASE pc' = "load"
  <2>1. MemoryTypes'
    BY <1>4 DEF BenchmarkInv, MemoryInv, MemoryTypes, Steps, Succ, Fail, Jobs, Benchmark!Points, Benchmark!memory, Benchmark!End
  <2>2. BeginInv'
    <3>1. CASE disk["manifest"] = spec /\ plan' = plan
      BY <1>2, <1>4, <3>1 DEF BeginInv, Benchmark!memory
    <3>2. CASE (\A f \in Benchmark!Files : disk[f] = Missing)
               /\ plan' = <<Benchmark!File("manifest", spec), Benchmark!File("attempts", <<>>), Benchmark!File("status", "incomplete")>>
      BY <1>2, <1>4, <3>2 DEF BeginInv, Benchmark!memory, ToManifest, ToAttempts, ToStatus, NoArtifacts, Lines, Benchmark!Lines, Benchmark!Files
    <3> QED BY <1>4, <3>1, <3>2 DEF Benchmark!End
  <2>3. NoteInv' /\ JobInv' /\ CloseInv' /\ FinishInv' /\ OpenInv'
    BY <1>4 DEF NoteInv, JobInv, CloseInv, FinishInv, OpenInv
  <2> QED BY <1>1, <2>1, <2>2, <2>3 DEF BenchmarkInv, MemoryInv
<1> QED BY <1>3, <1>4

\* A run begins to write what it knows.
LEMMA FinishBegun ==
  ASSUME BenchmarkInv, DiskInv', UNCHANGED Benchmark!memory, tries' \in 0 .. Retries,
         leaving' \in {"done", "interrupt", "error"}, disk'["manifest"] = spec,
         NEW rs \in Seq(Att), NEW interrupted \in BOOLEAN, Benchmark!FinishArtifacts(rs, interrupted),
         Store' = rs \/ (\E r \in Att : Store' = Append(rs, r) /\ r.job \notin Succ(rs)),
         Succ(rs) \subseteq Jobs(spec), Succ(rs) = Jobs(spec) => Lines' = rs,
         disk'["status"] = "complete" => Succ(rs) = Jobs(spec),
         ~interrupted => Store' = rs /\ Succ(rs) \cup Fail(rs) = Jobs(spec)
  PROVE  BenchmarkInv'
<1>0. PICK complete \in BOOLEAN : complete = (Benchmark!Cardinality(Succ(rs)) = Benchmark!TotalJobs(spec))
  OBVIOUS
<1>1. spec \in Specs /\ spec' = spec
  BY DEF BenchmarkInv, MemoryInv, MemoryTypes, Benchmark!memory
<1>2. complete <=> Succ(rs) = Jobs(spec)
  BY <1>0, <1>1, CompleteMeansAll DEF Jobs
<1>3. /\ plan' = Benchmark!FinishPlan(rs, complete, interrupted) /\ pc' = "finish"
      /\ outcome' = IF interrupted THEN "interrupted" ELSE Benchmark!Status(complete, FALSE)
  BY <1>0 DEF Benchmark!FinishArtifacts, Succ
<1>4. plan' = <<ToSummary(rs, complete), ToTable(rs), ToCheckpoint(rs, complete, interrupted),
                ToStatus(Benchmark!Status(complete, interrupted))>>
  BY <1>3 DEF Benchmark!FinishPlan, ToSummary, ToTable, ToCheckpoint, ToStatus, Succ, Fail
<1>5. MemoryTypes'
  BY <1>1, <1>3 DEF BenchmarkInv, MemoryInv, MemoryTypes, Steps, Succ, Fail, Jobs, Benchmark!Points,
       Benchmark!memory, Benchmark!Status
<1>6. BeginInv'
  BY <1>1, <1>3 DEF BeginInv
<1>7. Behind(rs)'
  BY DEF Behind, Ahead, Succ, Att
<1>8. Finishing(rs, complete, interrupted)'
  BY <1>1, <1>2, <1>3, <1>4, <1>7 DEF Finishing, Jobs, Succ, Fail, ToSummary, ToTable, ToCheckpoint, ToStatus
<1>9. FinishInv'
  BY <1>2, <1>8 DEF FinishInv, Att
<1>10. NoteInv' /\ JobInv' /\ CloseInv' /\ OpenInv'
  BY <1>3 DEF NoteInv, JobInv, CloseInv, OpenInv
<1> QED BY <1>5, <1>6, <1>9, <1>10 DEF BenchmarkInv, MemoryInv

LEMMA LoadStep == ASSUME BenchmarkInv, Benchmark!Load PROVE BenchmarkInv'
<1> USE DEF Benchmark!Load, Benchmark!At
<1>1. DiskInv' /\ Lines' = Lines /\ Store' = Store /\ disk' = disk
  BY SameDisk DEF BenchmarkInv
<1>2. /\ leaving \in {"done", "interrupt", "error"} /\ leaving' = leaving /\ leaving = "done" /\ pc = "load"
      /\ disk["manifest"] = spec /\ spec \in Specs /\ tries \in 0 .. Retries
  BY DEF BenchmarkInv, MemoryInv, MemoryTypes, BeginInv
<1>3. CASE ~Benchmark!Compatible
  BY <1>1, <1>2, <1>3, Ended
<1>4. CASE Benchmark!Compatible
  <2>1. /\ Store \in Seq(Att) /\ Lines \in {Store, Append(Store, Torn)} /\ Once(Store)
        /\ \A i \in DOMAIN Store : Store[i].job \in Jobs(spec)
    BY <1>2 DEF BenchmarkInv, DiskInv, StoreInv, Jobs
  <2>2. Lines = Store
    <3>1. \A i \in DOMAIN Lines : Lines[i] # Torn
      BY <1>4 DEF Benchmark!Compatible, Benchmark!Readable, Benchmark!ToSet, Lines
    <3>2. Store \in Seq(Att \cup {Torn})
      BY <2>1
    <3>3. LET t == Append(Store, Torn) IN t[Len(Store) + 1] = Torn /\ Len(Store) + 1 \in DOMAIN t
      BY <3>2
    <3> QED BY <2>1, <3>1, <3>3
  <2>3. Succ(Store) \subseteq Jobs(spec) /\ Fail(Store) \subseteq Jobs(spec)
    <3>1. {Store[k].job : k \in DOMAIN Store} \subseteq Jobs(spec)
      BY <2>1
    <3> QED BY <2>1, <3>1, JobsAreSome DEF Succ, Fail
  <2>4. Benchmark!JobSets(Benchmark!Lines, "success") = Succ(Store)
    BY <2>2 DEF Succ, Lines
  <2>5. disk["status"] = "complete" => Succ(Store) = Jobs(spec)
    BY <1>2 DEF BenchmarkInv, DiskInv, StatusInv, Jobs
  <2>6. CASE Succ(Store) = Jobs(spec)
    <3>1. Benchmark!FinishArtifacts(Store, FALSE) /\ UNCHANGED Benchmark!memory /\ tries' = tries
      BY <1>4, <2>2, <2>4, <2>6 DEF Lines, Jobs
    <3> QED BY <1>1, <1>2, <2>1, <2>2, <2>3, <2>5, <2>6, <3>1, FinishBegun
  <2>7. CASE Succ(Store) # Jobs(spec)
    <3>1. /\ records' = Store /\ successful' = Succ(Store) /\ failed' = Fail(Store)
          /\ pc' = "block" /\ block' = 1 /\ spec' = spec /\ plan' = <<>> /\ tries' = tries /\ outcome' = outcome
      BY <1>4, <2>2, <2>4, <2>7 DEF Lines, Jobs, Fail, Succ
    <3>2. MemoryTypes'
      BY <3>1, <2>1, <2>3, <1>2, Profiles DEF BenchmarkInv, MemoryInv, MemoryTypes, Steps, Jobs, Benchmark!Points, Succ, Fail, Att
    <3>3. Unseen'
      <4>1. CASE disk["checkpoint"] # Missing
        <5> DEFINE c == disk["checkpoint"]
        <5>1. Sees(c)
          BY <4>1 DEF BenchmarkInv, DiskInv, ArtifactsInv
        <5>2. c.successful = Succ(Store)
          BY <1>4, <4>1, <2>4 DEF Benchmark!Compatible, Benchmark!Agrees
        <5>3. c.count \in Nat /\ c.count <= Len(Store) /\ Succ(Store) = Succ(SubSeq(Store, 1, c.count))
          BY <5>1, <5>2, <2>1 DEF Sees
        <5> HIDE DEF c
        <5>4. \A i \in c.count + 1 .. Len(Store) : Store[i].status = "failure"
          BY <5>3, <2>1, AgreedUnseen
        <5> QED BY <1>1, <5>4 DEF Unseen, c
      <4> QED BY <1>1, <4>1 DEF Unseen
    <3>4. Progress'
      BY <3>1, <1>2 DEF Progress
    <3>5. BeginInv' /\ JobInv'
      BY <3>1, <3>3, <3>4, <1>1, <1>2, <2>2 DEF BeginInv, JobInv
    <3>6. NoteInv' /\ CloseInv' /\ FinishInv'
      BY <3>1 DEF NoteInv, CloseInv, FinishInv
    <3>7. OpenInv'
      BY <3>1, <1>1, <2>5, <2>7 DEF OpenInv
    <3> QED BY <1>1, <3>2, <3>5, <3>6, <3>7 DEF BenchmarkInv, MemoryInv
  <2> QED BY <2>6, <2>7
<1> QED BY <1>3, <1>4

LEMMA NextBlockStep == ASSUME BenchmarkInv, Benchmark!NextBlock PROVE BenchmarkInv'
<1> DEFINE Left == block > Len(spec.profiles)
           Skipped == /\ block <= Len(spec.profiles) /\ Benchmark!Pending = {} /\ block' = block + 1
                      /\ UNCHANGED <<spec, records, successful, failed, todo, pc, plan, tries, outcome>>
           Started == /\ block <= Len(spec.profiles) /\ Benchmark!Pending # {} /\ todo' = Benchmark!Pending /\ pc' = "start"
                      /\ UNCHANGED <<spec, records, successful, failed, block, plan, tries, outcome>>
<1>0. /\ pc = "block" /\ plan = <<>> /\ UNCHANGED <<disk, leaving, runs>>
      /\ \/ Left /\ Benchmark!FinishArtifacts(records, FALSE) /\ UNCHANGED <<Benchmark!memory, tries>>
         \/ Skipped
         \/ Started
  BY DEF Benchmark!NextBlock, Benchmark!At
<1>1. DiskInv' /\ Lines' = Lines /\ Store' = Store /\ disk' = disk
  BY <1>0, SameDisk DEF BenchmarkInv
<1>2. /\ MemoryTypes /\ Progress /\ Lines = records /\ Unseen /\ disk["manifest"] = spec
      /\ disk["status"] # "complete" /\ pc = "block"
  BY <1>0 DEF BenchmarkInv, MemoryInv, BeginInv, JobInv, OpenInv
<1>3. /\ spec \in Specs /\ Len(spec.profiles) \in Nat \ {0} /\ DOMAIN spec.profiles = 1 .. Len(spec.profiles)
      /\ block \in 1 .. Len(spec.profiles) + 1
  BY <1>2, Profiles DEF MemoryTypes, Progress
<1>4. Store = records
  BY <1>2, WholeLines DEF MemoryTypes
<1>5. CASE Left /\ Benchmark!FinishArtifacts(records, FALSE) /\ UNCHANGED <<Benchmark!memory, tries>>
  <2>1. Benchmark!FinishArtifacts(records, FALSE) /\ UNCHANGED Benchmark!memory /\ tries' = tries /\ leaving' = leaving
    BY <1>5, <1>0
  <2>2. \A b \in DOMAIN spec.profiles : OfBlock(b) \subseteq Succ(records) \cup Fail(records)
    BY <1>2, <1>3, <1>5 DEF MemoryTypes, Progress
  <2>3. Succ(records) \cup Fail(records) = Jobs(spec)
    BY <2>2, <1>2 DEF MemoryTypes, Jobs, OfBlock, Benchmark!JobIds
  <2>4. records \in Seq(Att) /\ tries \in 0 .. Retries /\ leaving \in {"done", "interrupt", "error"}
    BY <1>2 DEF MemoryTypes
  <2> QED BY <1>1, <1>2, <1>4, <2>1, <2>3, <2>4, FinishBegun
<1>6. CASE Skipped
  <2>1. /\ block' = block + 1 /\ pc' = pc
        /\ UNCHANGED <<spec, records, successful, failed, todo, plan, tries, outcome, leaving>>
    BY <1>6, <1>0
  <2>2. MemoryTypes'
    BY <2>1, <1>2, <1>3, <1>6 DEF MemoryTypes, Jobs, Succ, Fail
  <2>3. Progress'
    <3>1. OfBlock(block) \subseteq successful
      BY <1>6 DEF Benchmark!Pending, OfBlock
    <3>2. ASSUME NEW b \in 1 .. block PROVE OfBlock(b) \subseteq successful \cup failed
      BY <3>1, <1>2, <1>3 DEF Progress
    <3> QED BY <3>2, <2>1, <1>2, <1>3 DEF Progress, OfBlock
  <2>4. BeginInv' /\ JobInv' /\ OpenInv'
    BY <2>1, <2>3, <1>1, <1>2 DEF BeginInv, JobInv, OpenInv, Unseen, BenchmarkInv, MemoryInv
  <2>5. NoteInv' /\ CloseInv' /\ FinishInv'
    BY <2>1, <1>2 DEF NoteInv, CloseInv, FinishInv
  <2> QED BY <1>1, <2>2, <2>4, <2>5 DEF BenchmarkInv, MemoryInv
<1>7. CASE Started
  <2>1. /\ todo' = Benchmark!Pending /\ pc' = "start"
        /\ UNCHANGED <<spec, records, successful, failed, block, plan, tries, outcome, leaving>>
    BY <1>7, <1>0
  <2>2. MemoryTypes'
    BY <2>1, <1>2 DEF MemoryTypes, Jobs, Succ, Fail, Steps, Benchmark!Points
  <2>3. Progress'
    BY <2>1, <1>2 DEF Progress, OfBlock
  <2>4. Current' /\ todo' # {}
    BY <2>1, <1>7 DEF Current, OfBlock, Benchmark!Pending
  <2>5. BeginInv' /\ JobInv' /\ OpenInv'
    BY <2>1, <2>3, <2>4, <1>1, <1>2 DEF BeginInv, JobInv, OpenInv, Unseen, BenchmarkInv, MemoryInv
  <2>6. NoteInv' /\ CloseInv' /\ FinishInv'
    BY <2>1, <1>2 DEF NoteInv, CloseInv, FinishInv
  <2> QED BY <1>1, <2>2, <2>5, <2>6 DEF BenchmarkInv, MemoryInv
<1> QED BY <1>0, <1>5, <1>6, <1>7

LEMMA StartStep == ASSUME BenchmarkInv, Benchmark!StartEngine PROVE BenchmarkInv'
<1> USE DEF Benchmark!StartEngine, Benchmark!At, Benchmark!memory
<1>1. DiskInv' /\ Lines' = Lines /\ Store' = Store /\ disk' = disk
  BY SameDisk DEF BenchmarkInv
<1>2. MemoryTypes'
  BY DEF BenchmarkInv, MemoryInv, MemoryTypes, Steps, Succ, Fail, Jobs, Benchmark!Points
<1>3. Progress /\ Current /\ todo # {} /\ Lines = records /\ Unseen
  BY DEF BenchmarkInv, MemoryInv, JobInv
<1>4. Progress' /\ Current' /\ Unseen'
  BY <1>1, <1>3 DEF Progress, Current, Unseen, OfBlock
<1>5. BeginInv' /\ JobInv' /\ OpenInv'
  BY <1>1, <1>3, <1>4 DEF BeginInv, JobInv, OpenInv, BenchmarkInv, MemoryInv
<1>6. NoteInv' /\ CloseInv' /\ FinishInv'
  BY DEF NoteInv, CloseInv, FinishInv
<1> QED BY <1>1, <1>2, <1>5, <1>6 DEF BenchmarkInv, MemoryInv

\* The sets of the jobs after one more attempt.
LEMMA AfterAttempt ==
  ASSUME NEW rs \in Seq(Att), NEW r \in Att
  PROVE  /\ Append(rs, r) \in Seq(Att)
         /\ Succ(Append(rs, r)) = IF r.status = "success" THEN Succ(rs) \cup {r.job} ELSE Succ(rs) \ {r.job}
         /\ Fail(Append(rs, r)) = IF r.status = "success" THEN Fail(rs) \ {r.job} ELSE Fail(rs) \cup {r.job}
<1>1. r.status \in {"success", "failure"}
  BY Attempted
<1> QED BY <1>1, JobsAppend DEF Succ, Fail

LEMMA NextRecord ==
  ASSUME MemoryTypes, Progress, Current, NEW j \in todo, NEW status \in {"success", "failure"}
  PROVE  NextAttempt(Benchmark!Record(j, status, records), records, spec)
<1> DEFINE S == {k \in DOMAIN records : records[k].job = j}
<1>1. IsFiniteSet(S)
  <2>1. DOMAIN records = 1 .. Len(records) /\ Len(records) \in Nat
    BY DEF MemoryTypes
  <2>2. IsFiniteSet(1 .. Len(records)) /\ S \subseteq 1 .. Len(records)
    BY <2>1, FS_Interval
  <2> QED BY <2>2, FS_Subset
<1>2. Benchmark!Cardinality(S) \in Nat
  BY <1>1, Counted, FS_CardinalityType
<1>3. Benchmark!Record(j, status, records) = [job |-> j, status |-> status, attempt |-> Benchmark!Cardinality(S) + 1]
  BY DEF Benchmark!Record
<1>4. spec \in Specs /\ block \in DOMAIN spec.profiles
  BY Profiles DEF MemoryTypes, Current, Progress
<1>5. j \in Jobs(spec) /\ j \notin Succ(records)
  BY <1>4 DEF Current, OfBlock, Jobs, Benchmark!JobIds, MemoryTypes
<1> HIDE DEF S
<1>6. Benchmark!Record(j, status, records) \in Att
  BY <1>2, <1>3, <1>4, <1>5 DEF Att, Benchmark!Attempts, Jobs
<1> QED BY <1>3, <1>5, <1>6 DEF NextAttempt, Jobs, S

LEMMA Persisted ==
  ASSUME MemoryTypes, NEW r \in Att, r.job \notin Succ(records), Benchmark!PersistRecord(r)
  PROVE  plan' = <<Benchmark!Line(r), ToCheckpoint(Append(records, r), FALSE, FALSE)>>
<1>1. records \in Seq(Att) /\ successful = Succ(records) /\ failed = Fail(records)
  BY DEF MemoryTypes
<1>2. CASE r.status = "success"
  <2>1. Succ(Append(records, r)) = successful \cup {r.job} /\ Fail(Append(records, r)) = failed \ {r.job}
    BY <1>1, <1>2, AfterAttempt
  <2> QED BY <1>2, <2>1 DEF Benchmark!PersistRecord, ToCheckpoint
<1>3. CASE r.status # "success"
  <2>1. Succ(Append(records, r)) = successful /\ Fail(Append(records, r)) = failed \cup {r.job}
    <3>1. Succ(records) \ {r.job} = Succ(records)
      OBVIOUS
    <3> QED BY <1>1, <1>3, <3>1, AfterAttempt
  <2> QED BY <1>3, <2>1 DEF Benchmark!PersistRecord, ToCheckpoint
<1> QED BY <1>2, <1>3

\* An attempt begins to be stored.
LEMMA Storing ==
  ASSUME BenchmarkInv, UNCHANGED <<disk, Benchmark!memory, tries, leaving, outcome, runs>>, pc' \in {"note", "noteFailure"},
         Progress, Current, Lines = records, Unseen, disk["manifest"] = spec, disk["status"] # "complete",
         NEW j \in todo, NEW status \in {"success", "failure"},
         Benchmark!PersistRecord(Benchmark!Record(j, status, records))
  PROVE  BenchmarkInv'
<1> DEFINE r == Benchmark!Record(j, status, records)
<1> USE DEF Benchmark!memory
<1>1. DiskInv' /\ Lines' = Lines /\ Store' = Store /\ disk' = disk
  BY SameDisk DEF BenchmarkInv
<1>2. MemoryTypes
  BY DEF BenchmarkInv, MemoryInv
<1>3. NextAttempt(r, records, spec) /\ r.job = j
  BY <1>2, NextRecord DEF Benchmark!Record
<1>4. r \in Att
  BY <1>3 DEF NextAttempt
<1>5. PICK a \in Att : a = r
  BY <1>4
<1> HIDE DEF r
<1>6. plan' = <<Benchmark!Line(a), ToCheckpoint(Append(records, a), FALSE, FALSE)>>
  <2>1. Benchmark!PersistRecord(a) /\ a.job \notin Succ(records)
    BY <1>3, <1>5 DEF r, NextAttempt
  <2> QED BY <1>2, <2>1, Persisted
<1>7. Noting(a)'
  BY <1>1, <1>3, <1>5, <1>6 DEF Noting, NextAttempt, Unseen, ToCheckpoint, Succ, Fail, Att
<1>8. MemoryTypes'
  BY <1>2 DEF MemoryTypes, Steps, Succ, Fail, Jobs, Benchmark!Points
<1>9. Progress' /\ Current'
  BY <1>1 DEF Progress, Current, Unseen, OfBlock
<1>10. BeginInv' /\ JobInv' /\ OpenInv'
  BY <1>1, <1>9 DEF BeginInv, JobInv, OpenInv
<1>11. NoteInv' /\ CloseInv' /\ FinishInv'
  BY <1>5, <1>7 DEF NoteInv, CloseInv, FinishInv, Att
<1> QED BY <1>1, <1>8, <1>10, <1>11 DEF BenchmarkInv, MemoryInv

LEMMA MeasureStep == ASSUME BenchmarkInv, Benchmark!Measure PROVE BenchmarkInv'
<1>1. /\ Progress /\ Current /\ Lines = records /\ Unseen /\ disk["manifest"] = spec /\ disk["status"] # "complete"
      /\ pc' \in {"note", "noteFailure"} /\ UNCHANGED <<disk, Benchmark!memory, tries, leaving, outcome, runs>>
  BY DEF Benchmark!Measure, Benchmark!At, BenchmarkInv, MemoryInv, BeginInv, JobInv, OpenInv
<1>2. PICK j \in todo, status \in {"success", "failure"} : Benchmark!PersistRecord(Benchmark!Record(j, status, records))
  BY DEF Benchmark!Measure
<1> QED BY <1>1, <1>2, Storing

LEMMA FailJobStep == ASSUME BenchmarkInv, Benchmark!FailJob PROVE BenchmarkInv'
<1>1. /\ Progress /\ Current /\ Lines = records /\ Unseen /\ disk["manifest"] = spec /\ disk["status"] # "complete"
      /\ pc' \in {"note", "noteFailure"} /\ UNCHANGED <<disk, Benchmark!memory, tries, leaving, outcome, runs>>
  BY DEF Benchmark!FailJob, Benchmark!At, BenchmarkInv, MemoryInv, BeginInv, JobInv, OpenInv
<1>2. PICK j \in todo : Benchmark!PersistRecord(Benchmark!Record(j, "failure", records))
  BY DEF Benchmark!FailJob
<1> QED BY <1>1, <1>2, Storing

\* The attempt that was stored enters the memory.
LEMMA Remembered ==
  ASSUME BenchmarkInv, pc \in {"note", "noteFailure"}, plan = <<>>, Benchmark!Remember, UNCHANGED disk
  PROVE  \E r \in Att :
           /\ records' = Append(records, r) /\ Lines' = records' /\ Unseen' /\ spec' = spec
           /\ successful' = Succ(records') /\ failed' = Fail(records') /\ records' \in Seq(Att)
           /\ successful' \cup failed' = (successful \cup failed) \cup {r.job}
           /\ successful' \subseteq successful \cup {r.job}
           /\ todo' = todo \ {r.job} /\ r.job \in Jobs(spec)
<1>1. PICK r \in Att : Noting(r)
  BY DEF BenchmarkInv, MemoryInv, NoteInv
<1>2. Lines = Append(records, r) /\ Unseen
  BY <1>1 DEF Noting
<1>3. records \in Seq(Att) /\ successful = Succ(records) /\ failed = Fail(records)
  BY DEF BenchmarkInv, MemoryInv, MemoryTypes
<1>4. Benchmark!Last(Benchmark!Lines) = r
  BY <1>2, <1>3 DEF Benchmark!Last, Lines
<1>5. /\ records' = Append(records, r) /\ spec' = spec /\ todo' = todo \ {r.job}
      /\ successful' = IF r.status = "success" THEN successful \cup {r.job} ELSE successful
      /\ failed' = IF r.status = "success" THEN failed \ {r.job} ELSE failed \cup {r.job}
  BY <1>4 DEF Benchmark!Remember
<1>6. r.job \notin successful /\ r.job \in Jobs(spec)
  BY <1>1, <1>3 DEF Noting, NextAttempt, Jobs
<1>7. successful' = Succ(Append(records, r)) /\ failed' = Fail(Append(records, r)) /\ Append(records, r) \in Seq(Att)
  <2>1. /\ Append(records, r) \in Seq(Att)
        /\ Succ(Append(records, r)) = IF r.status = "success" THEN successful \cup {r.job} ELSE successful \ {r.job}
        /\ Fail(Append(records, r)) = IF r.status = "success" THEN failed \ {r.job} ELSE failed \cup {r.job}
    BY <1>3, AfterAttempt
  <2>2. successful \ {r.job} = successful
    BY <1>6
  <2> QED BY <1>5, <2>1, <2>2
<1>8. Lines' = Lines /\ Store' = Store
  BY SameDisk DEF BenchmarkInv
<1>9. Unseen'
  BY <1>2, <1>8 DEF Unseen
<1> QED BY <1>2, <1>5, <1>6, <1>7, <1>8, <1>9 DEF Succ, Fail

LEMMA NoteStep == ASSUME BenchmarkInv, Benchmark!Note PROVE BenchmarkInv'
<1>1. /\ pc = "note" /\ plan = <<>> /\ Benchmark!Remember /\ pc' = (IF todo' = {} THEN "close" ELSE "measure")
      /\ UNCHANGED <<disk, block, plan, tries, leaving, outcome, runs>>
  BY DEF Benchmark!Note, Benchmark!At
<1>2. PICK r \in Att :
           /\ records' = Append(records, r) /\ Lines' = records' /\ Unseen' /\ spec' = spec
           /\ successful' = Succ(records') /\ failed' = Fail(records') /\ records' \in Seq(Att)
           /\ successful' \cup failed' = (successful \cup failed) \cup {r.job}
           /\ successful' \subseteq successful \cup {r.job}
           /\ todo' = todo \ {r.job} /\ r.job \in Jobs(spec)
  BY <1>1, Remembered
<1>3. MemoryTypes /\ Progress /\ Current /\ disk["manifest"] = spec /\ disk["status"] # "complete"
  BY <1>1 DEF BenchmarkInv, MemoryInv, BeginInv, JobInv, OpenInv
<1>4. DiskInv'
  BY <1>1, SameDisk DEF BenchmarkInv
<1>5. MemoryTypes'
  BY <1>1, <1>2, <1>3 DEF MemoryTypes, Steps, Jobs, Benchmark!Points, Succ, Fail, Att
<1>6. Progress' /\ Current'
  BY <1>1, <1>2, <1>3 DEF Progress, Current, OfBlock
<1>7. BeginInv' /\ JobInv' /\ OpenInv'
  BY <1>1, <1>2, <1>3, <1>6 DEF BeginInv, JobInv, OpenInv
<1>8. NoteInv' /\ CloseInv' /\ FinishInv'
  BY <1>1, <1>3 DEF NoteInv, CloseInv, FinishInv, Progress
<1> QED BY <1>4, <1>5, <1>7, <1>8 DEF BenchmarkInv, MemoryInv

LEMMA NoteFailureStep == ASSUME BenchmarkInv, Benchmark!NoteFailure PROVE BenchmarkInv'
<1>1. /\ pc = "noteFailure" /\ plan = <<>> /\ Benchmark!Remember
      /\ \/ todo' # {} /\ pc' = "fail" /\ block' = block
         \/ todo' = {} /\ pc' = "block" /\ block' = block + 1
      /\ UNCHANGED <<disk, plan, tries, leaving, outcome, runs>>
  BY DEF Benchmark!NoteFailure, Benchmark!At
<1>2. PICK r \in Att :
           /\ records' = Append(records, r) /\ Lines' = records' /\ Unseen' /\ spec' = spec
           /\ successful' = Succ(records') /\ failed' = Fail(records') /\ records' \in Seq(Att)
           /\ successful' \cup failed' = (successful \cup failed) \cup {r.job}
           /\ successful' \subseteq successful \cup {r.job}
           /\ todo' = todo \ {r.job} /\ r.job \in Jobs(spec)
  BY <1>1, Remembered
<1>3. /\ MemoryTypes /\ Progress /\ Current /\ disk["manifest"] = spec /\ disk["status"] # "complete"
  BY <1>1 DEF BenchmarkInv, MemoryInv, BeginInv, JobInv, OpenInv
<1>4. DiskInv'
  BY <1>1, SameDisk DEF BenchmarkInv
<1>5. Len(spec.profiles) \in Nat /\ block \in 1 .. Len(spec.profiles)
  BY <1>3, Profiles DEF MemoryTypes, Progress, Current
<1>6. MemoryTypes'
  BY <1>1, <1>2, <1>3, <1>5 DEF MemoryTypes, Steps, Jobs, Benchmark!Points, Succ, Fail, Att
<1>7. CASE todo' # {} /\ pc' = "fail" /\ block' = block
  <2>1. Progress' /\ Current'
    BY <1>1, <1>2, <1>3, <1>7 DEF Progress, Current, OfBlock
  <2>2. JobInv'
    BY <1>7, <1>2, <2>1 DEF JobInv
  <2> QED BY <1>1, <1>2, <1>3, <1>4, <1>6, <1>7, <2>2 DEF BenchmarkInv, MemoryInv, BeginInv, NoteInv, CloseInv, FinishInv, OpenInv
<1>8. CASE todo' = {} /\ pc' = "block" /\ block' = block + 1
  <2>1. OfBlock(block) \subseteq successful' \cup failed'
    BY <1>2, <1>3, <1>8 DEF Current
  <2>2. ASSUME NEW b \in 1 .. block PROVE OfBlock(b) \subseteq successful' \cup failed'
    BY <1>2, <1>3, <1>5, <2>1 DEF Progress
  <2>3. Progress'
    BY <1>1, <1>2, <1>3, <1>5, <1>8, <2>2 DEF Progress, OfBlock
  <2>4. JobInv'
    BY <1>8, <1>2, <2>3 DEF JobInv
  <2> QED BY <1>1, <1>2, <1>3, <1>4, <1>6, <1>8, <2>4 DEF BenchmarkInv, MemoryInv, BeginInv, NoteInv, CloseInv, FinishInv, OpenInv
<1> QED BY <1>1, <1>7, <1>8

LEMMA FinishStep == ASSUME BenchmarkInv, Benchmark!Finish PROVE BenchmarkInv'
<1> USE DEF Benchmark!Finish, Benchmark!At, Benchmark!memory
<1>1. DiskInv' /\ Store' = Store /\ disk' = disk
  BY SameDisk DEF BenchmarkInv
<1>2. PICK rs \in Seq(Att), complete \in BOOLEAN, interrupted \in BOOLEAN : Finishing(rs, complete, interrupted)
  BY DEF BenchmarkInv, MemoryInv, FinishInv
<1>3. /\ outcome = IF interrupted THEN "interrupted" ELSE Benchmark!Status(complete, FALSE)
      /\ ~interrupted => Store = rs /\ Succ(rs) \cup Fail(rs) = Jobs(spec)
      /\ disk["status"] = Benchmark!Status(complete, interrupted)
  BY <1>2 DEF Finishing
<1>4. OpenInv'
  BY <1>1, <1>3 DEF OpenInv, Benchmark!Status, Succ, Fail, Jobs
<1>5. MemoryTypes'
  BY DEF BenchmarkInv, MemoryInv, MemoryTypes, Steps, Succ, Fail, Jobs
<1>6. BeginInv' /\ NoteInv' /\ JobInv' /\ CloseInv' /\ FinishInv'
  BY DEF BeginInv, NoteInv, JobInv, CloseInv, FinishInv
<1> QED BY <1>1, <1>4, <1>5, <1>6 DEF BenchmarkInv, MemoryInv

LEMMA CloseStep == ASSUME BenchmarkInv, Benchmark!Close PROVE BenchmarkInv'
<1>1. /\ pc = "close" /\ plan = <<>> /\ UNCHANGED <<disk, spec, records, successful, failed, todo, leaving, runs>>
      /\ \/ leaving = "done" /\ pc' = "block" /\ block' = block + 1 /\ UNCHANGED <<plan, tries, outcome>>
         \/ leaving = "interrupt" /\ Benchmark!FinishArtifacts(records, TRUE) /\ UNCHANGED <<block, tries>>
         \/ leaving = "error" /\ Benchmark!End("raised") /\ UNCHANGED block
  BY DEF Benchmark!Close, Benchmark!At
<1>2. DiskInv' /\ Lines' = Lines /\ Store' = Store /\ disk' = disk
  BY <1>1, SameDisk DEF BenchmarkInv
<1>3. MemoryTypes /\ disk["manifest"] = spec /\ disk["status"] # "complete"
  BY <1>1 DEF BenchmarkInv, MemoryInv, BeginInv, OpenInv
<1>4. CASE leaving = "done" /\ pc' = "block" /\ block' = block + 1 /\ UNCHANGED <<plan, tries, outcome>>
  <2>1. Progress /\ Current /\ todo = {} /\ Lines = records /\ Unseen
    BY <1>1, <1>4 DEF BenchmarkInv, MemoryInv, JobInv
  <2>2. Len(spec.profiles) \in Nat /\ block \in 1 .. Len(spec.profiles)
    BY <1>3, <2>1, Profiles DEF MemoryTypes, Progress, Current
  <2>3. ASSUME NEW b \in 1 .. block PROVE OfBlock(b) \subseteq successful \cup failed
    BY <2>1, <2>2 DEF Progress, Current
  <2>4. Progress'
    BY <1>1, <1>4, <2>1, <2>2, <2>3 DEF Progress, OfBlock
  <2>5. MemoryTypes'
    BY <1>1, <1>3, <1>4, <2>2 DEF MemoryTypes, Steps, Succ, Fail, Jobs, Benchmark!Points
  <2>6. BeginInv' /\ JobInv' /\ OpenInv'
    BY <1>1, <1>2, <1>3, <1>4, <2>1, <2>4 DEF BeginInv, JobInv, OpenInv, Unseen
  <2>7. NoteInv' /\ CloseInv' /\ FinishInv'
    BY <1>4 DEF NoteInv, CloseInv, FinishInv
  <2> QED BY <1>2, <2>5, <2>6, <2>7 DEF BenchmarkInv, MemoryInv
<1>5. CASE leaving = "interrupt" /\ Benchmark!FinishArtifacts(records, TRUE) /\ UNCHANGED <<block, tries>>
  <2>1. Behind(records) /\ todo # {} /\ todo \cap successful = {} /\ todo \subseteq Jobs(spec)
    BY <1>1, <1>5 DEF BenchmarkInv, MemoryInv, CloseInv
  <2>2. records \in Seq(Att) /\ successful = Succ(records) /\ successful \subseteq Jobs(spec) /\ tries \in 0 .. Retries
    BY <1>3 DEF MemoryTypes
  <2>3. Succ(records) # Jobs(spec)
    BY <2>1, <2>2
  <2>4. Store' = records \/ (\E r \in Att : Store' = Append(records, r) /\ r.job \notin Succ(records))
    BY <2>1, <1>2 DEF Behind, Ahead
  <2>5. UNCHANGED Benchmark!memory /\ tries' \in 0 .. Retries /\ leaving' \in {"done", "interrupt", "error"}
    BY <1>1, <1>5, <2>2 DEF Benchmark!memory
  <2> QED BY <1>2, <1>3, <1>5, <2>2, <2>3, <2>4, <2>5, FinishBegun
<1>6. CASE leaving = "error" /\ Benchmark!End("raised") /\ UNCHANGED block
  <2>1. UNCHANGED Benchmark!memory /\ leaving' \in {"done", "interrupt", "error"}
    BY <1>1, <1>6 DEF Benchmark!memory
  <2> QED BY <1>2, <1>6, <2>1, Ended
<1> QED BY <1>1, <1>4, <1>5, <1>6

LEMMA Writes ==
  /\ \A f, c : Benchmark!Written(Benchmark!File(f, c)) = [disk EXCEPT ![f] = c]
  /\ \A r : Benchmark!Written(Benchmark!Line(r)) = [disk EXCEPT !["attempts"] = Append(Lines, r)]
  /\ \A f, c : Benchmark!Remains(Benchmark!File(f, c)) = {disk}
  /\ \A r : Benchmark!Remains(Benchmark!Line(r)) =
              {disk, Benchmark!Written(Benchmark!Line(r)), Benchmark!Written(Benchmark!Line(Torn))}
<1>1. ASSUME NEW f, NEW c PROVE "line" \notin DOMAIN Benchmark!File(f, c)
  BY DEF Benchmark!File
<1>2. ASSUME NEW r PROVE "line" \in DOMAIN Benchmark!Line(r)
  BY DEF Benchmark!Line
<1>3. ASSUME NEW r PROVE [Benchmark!Line(r) EXCEPT !.line = Torn] = Benchmark!Line(Torn)
  BY DEF Benchmark!Line
<1>4. \A f, c : Benchmark!Written(Benchmark!File(f, c)) = [disk EXCEPT ![f] = c]
  BY <1>1 DEF Benchmark!Written, Benchmark!File
<1>5. \A r : Benchmark!Written(Benchmark!Line(r)) = [disk EXCEPT !["attempts"] = Append(Lines, r)]
  BY <1>2 DEF Benchmark!Written, Benchmark!Line, Lines
<1>6. \A f, c : Benchmark!Remains(Benchmark!File(f, c)) = {disk}
  BY <1>1 DEF Benchmark!Remains
<1>7. ASSUME NEW r PROVE Benchmark!Remains(Benchmark!Line(r)) =
              {disk, Benchmark!Written(Benchmark!Line(r)), Benchmark!Written(Benchmark!Line(Torn))}
  BY <1>2, <1>3 DEF Benchmark!Remains
<1> QED BY <1>4, <1>5, <1>6, <1>7

\* The first writes of a new directory, one after the other.
LEMMA LoadWrites ==
  ASSUME BenchmarkInv, pc = "load", plan # <<>>, disk' = Benchmark!Written(Head(plan))
  PROVE  DiskInv' /\ disk'["manifest"] = spec
         /\ \/ Tail(plan) = <<>>
            \/ /\ Lines' = <<>> /\ NoArtifacts'
               /\ Tail(plan) \in {<<ToAttempts, ToStatus("incomplete")>>, <<ToStatus("incomplete")>>}
<1>1. Lines = <<>> /\ NoArtifacts /\ leaving = "done" /\ spec \in Specs
  BY DEF BenchmarkInv, MemoryInv, MemoryTypes, BeginInv
<1>2. DiskInv /\ Store = <<>>
  BY <1>1, EmptyStore DEF BenchmarkInv
<1>3. disk = [f \in Benchmark!Files |-> disk[f]]
  BY <1>2 DEF DiskInv, DiskTypes
<1>4. CASE plan = <<ToManifest, ToAttempts, ToStatus("incomplete")>>
  <2>1. Head(plan) = ToManifest /\ Tail(plan) = <<ToAttempts, ToStatus("incomplete")>>
    BY <1>4
  <2>2. disk' = [disk EXCEPT !["manifest"] = spec]
    BY <2>1, Writes DEF ToManifest
  <2>3. DiskInv' /\ Lines' = Lines
    BY <1>1, <1>2, <2>2, ManifestWritten
  <2>4. disk'["manifest"] = spec /\ NoArtifacts'
    BY <1>1, <1>3, <2>2 DEF NoArtifacts, Benchmark!Files
  <2> QED BY <1>1, <2>1, <2>3, <2>4
<1>5. CASE plan = <<ToAttempts, ToStatus("incomplete")>> /\ disk["manifest"] = spec
  <2>1. Head(plan) = ToAttempts /\ Tail(plan) = <<ToStatus("incomplete")>>
    BY <1>5
  <2>2. disk' = [disk EXCEPT !["attempts"] = <<>>]
    BY <2>1, Writes DEF ToAttempts
  <2>3. DiskInv' /\ Lines' = Lines
    BY <1>1, <1>2, <2>2, AttemptsBegun
  <2>4. disk'["manifest"] = spec /\ NoArtifacts'
    BY <1>1, <1>3, <1>5, <2>2 DEF NoArtifacts, Benchmark!Files
  <2> QED BY <1>1, <2>1, <2>3, <2>4
<1>6. CASE plan = <<ToStatus("incomplete")>> /\ disk["manifest"] = spec
  <2>1. Head(plan) = ToStatus("incomplete") /\ Tail(plan) = <<>>
    BY <1>6
  <2>2. disk' = [disk EXCEPT !["status"] = "incomplete"]
    BY <2>1, Writes DEF ToStatus
  <2>3. DiskInv'
    BY <1>2, <2>2, StatusWritten
  <2>4. disk'["manifest"] = spec
    BY <1>3, <1>6, <2>2 DEF Benchmark!Files
  <2> QED BY <2>1, <2>3, <2>4
<1> QED BY <1>4, <1>5, <1>6 DEF BenchmarkInv, MemoryInv, BeginInv

\* The lines that are known for attempts are the attempts that are stored.
LEMMA KnownLines == ASSUME NEW rs \in Seq(Att), Lines = rs PROVE Store = rs
BY WholeLines

\* What the writes of an attempt and its checkpoint do.
LEMMA RecordWritten ==
  ASSUME BenchmarkInv, pc \in {"note", "noteFailure"}, plan # <<>>, NEW r \in Att, Noting(r),
         disk' = Benchmark!Written(Head(plan))
  PROVE  /\ DiskInv' /\ disk'["manifest"] = spec /\ disk'["status"] # "complete"
         /\ Lines' = Append(records, r) /\ Store' = Append(records, r)
         /\ \/ Tail(plan) = <<ToCheckpoint(Append(records, r), FALSE, FALSE)>>
            \/ Tail(plan) = <<>> /\ Unseen'
<1> DEFINE rs == Append(records, r)
           c == Benchmark!Checkpoint(rs, Succ(rs), Fail(rs), FALSE, FALSE)
<1>1. DiskInv /\ records \in Seq(Att) /\ disk["manifest"] = spec /\ disk["status"] # "complete" /\ spec \in Specs
  BY DEF BenchmarkInv, MemoryInv, MemoryTypes, BeginInv, OpenInv
<1>2. disk = [f \in Benchmark!Files |-> disk[f]]
  BY <1>1 DEF DiskInv, DiskTypes
<1>3. rs \in Seq(Att) /\ NextAttempt(r, records, spec)
  BY <1>1 DEF Noting
<1>4. CASE plan = <<Benchmark!Line(r), ToCheckpoint(rs, FALSE, FALSE)>> /\ Lines = records /\ Unseen
  <2> DEFINE a == Benchmark!Line(r)
             b == ToCheckpoint(rs, FALSE, FALSE)
  <2> HIDE DEF a, b
  <2>0. plan = <<a, b>>
    BY <1>4 DEF a, b
  <2>1. Head(plan) = Benchmark!Line(r) /\ Tail(plan) = <<ToCheckpoint(rs, FALSE, FALSE)>>
    <3>1. Head(plan) = a /\ Tail(plan) = <<b>>
      BY <2>0
    <3> QED BY <3>1 DEF a, b
  <2>2. disk' = [disk EXCEPT !["attempts"] = Append(Lines, r)]
    BY <2>1, Writes
  <2>3. Store = records
    BY <1>1, <1>4, KnownLines
  <2>4. DiskInv' /\ Lines' = rs /\ Store' = rs
    BY <1>1, <1>3, <1>4, <2>2, <2>3, AttemptStored
  <2>5. disk'["manifest"] = spec /\ disk'["status"] # "complete"
    BY <1>1, <1>2, <2>2 DEF Benchmark!Files
  <2> QED BY <2>1, <2>4, <2>5
<1>5. CASE plan = <<ToCheckpoint(rs, FALSE, FALSE)>> /\ Lines = rs
  <2>1. Head(plan) = Benchmark!File("checkpoint", c) /\ Tail(plan) = <<>>
    BY <1>5 DEF ToCheckpoint
  <2>2. disk' = [disk EXCEPT !["checkpoint"] = c]
    BY <2>1, Writes
  <2>3. Store = rs
    BY <1>3, <1>5, KnownLines
  <2>4. c.count = Len(rs) /\ c.successful = Succ(rs) /\ c.failed = Fail(rs)
    BY DEF Benchmark!Checkpoint
  <2>5. Len(rs) \in Nat /\ SubSeq(rs, 1, Len(rs)) = rs
    BY <1>3
  <2> HIDE DEF c, rs
  <2>6. Sees(c)
    <3>1. SubSeq(Store, 1, c.count) = rs
      BY <2>3, <2>4, <2>5
    <3>2. c.count \in 0 .. Len(Store) /\ \A i \in c.count + 1 .. Len(Store) - 1 : FALSE
      BY <2>3, <2>4, <2>5
    <3> QED BY <2>4, <3>1, <3>2 DEF Sees
  <2>7. DiskInv' /\ Lines' = Lines /\ Store' = Store
    BY <1>1, <2>2, <2>6, CheckpointWritten
  <2>8. disk'["manifest"] = spec /\ disk'["status"] # "complete" /\ disk'["checkpoint"] = c
    BY <1>1, <1>2, <2>2 DEF Benchmark!Files
  <2>9. Unseen'
    BY <2>3, <2>4, <2>5, <2>7, <2>8 DEF Unseen
  <2> QED BY <1>5, <2>1, <2>3, <2>7, <2>8, <2>9 DEF rs
<1> QED BY <1>4, <1>5 DEF Noting

\* A part of the line of an attempt.
LEMMA PartWritten ==
  ASSUME BenchmarkInv, pc \in {"note", "noteFailure"}, NEW r \in Att, Noting(r), plan # <<>>,
         Head(plan) = Benchmark!Line(r), disk' = Benchmark!Written(Benchmark!Line(Torn))
  PROVE  DiskInv' /\ disk'["manifest"] = spec /\ disk'["status"] # "complete" /\ Store' = records
<1>1. DiskInv /\ records \in Seq(Att) /\ disk["manifest"] = spec /\ disk["status"] # "complete"
  BY DEF BenchmarkInv, MemoryInv, MemoryTypes, BeginInv, OpenInv
<1>2. disk = [f \in Benchmark!Files |-> disk[f]]
  BY <1>1 DEF DiskInv, DiskTypes
<1>3. Benchmark!Line(r) # ToCheckpoint(Append(records, r), FALSE, FALSE)
  <2>1. "line" \in DOMAIN Benchmark!Line(r)
    BY DEF Benchmark!Line
  <2>2. "line" \notin DOMAIN ToCheckpoint(Append(records, r), FALSE, FALSE)
    BY DEF ToCheckpoint, Benchmark!File
  <2> QED BY <2>1, <2>2
<1>4. Lines = records
  <2> DEFINE k == ToCheckpoint(Append(records, r), FALSE, FALSE)
             a == Benchmark!Line(r)
  <2>1. (plan = <<a, k>> /\ Lines = records) \/ plan = <<k>>
    BY DEF Noting
  <2>2. a # k /\ Head(plan) = a
    BY <1>3
  <2> HIDE DEF a, k
  <2> QED BY <2>1, <2>2
<1>5. Store = records
  BY <1>1, <1>4, KnownLines
<1>6. disk' = [disk EXCEPT !["attempts"] = Append(Lines, Torn)]
  BY Writes
<1>7. DiskInv' /\ Store' = Store
  BY <1>1, <1>4, <1>5, <1>6, PartStored
<1>8. disk'["manifest"] = spec /\ disk'["status"] # "complete"
  BY <1>1, <1>2, <1>6 DEF Benchmark!Files
<1> QED BY <1>5, <1>7, <1>8

LEMMA BehindBegins == ASSUME NEW rs, Behind(rs), DiskInv PROVE Begins(rs) /\ Len(Store) <= Len(rs) + 1
<1>1. rs \in Seq(Att) /\ Len(rs) \in Nat
  BY DEF Behind
<1>2. CASE Store = rs
  BY <1>1, <1>2 DEF Begins
<1>3. CASE Ahead(rs)
  <2>1. PICK r \in Att : Store = Append(rs, r)
    BY <1>3 DEF Ahead
  <2>2. Len(Append(rs, r)) = Len(rs) + 1 /\ SubSeq(Append(rs, r), 1, Len(rs)) = rs
    BY <1>1
  <2> QED BY <1>1, <2>1, <2>2 DEF Begins
<1> QED BY <1>2, <1>3 DEF Behind

\* What the last writes of a run do.
LEMMA FinishLeaves ==
  ASSUME BenchmarkInv, pc = "finish", plan # <<>>, NEW rs \in Seq(Att), NEW complete \in BOOLEAN,
         NEW interrupted \in BOOLEAN, Finishing(rs, complete, interrupted), disk' = Benchmark!Written(Head(plan))
  PROVE  LET status == Benchmark!Status(complete, interrupted)
             told == disk'["summary"] = [complete |-> complete, records |-> rs]
             checked == disk'["checkpoint"] = Benchmark!Checkpoint(rs, Succ(rs), Fail(rs), complete, interrupted)
             B == ToTable(rs)
             C == ToCheckpoint(rs, complete, interrupted)
             D == ToStatus(status) IN
         /\ DiskInv' /\ Lines' = Lines /\ Store' = Store /\ disk'["manifest"] = spec
         /\ disk'["status"] = "complete" => complete
         /\ \/ Tail(plan) = <<B, C, D>> /\ told
            \/ Tail(plan) = <<C, D>> /\ told
            \/ Tail(plan) = <<D>> /\ told /\ checked
            \/ Tail(plan) = <<>> /\ told /\ checked /\ disk'["status"] = status
<1> DEFINE status == Benchmark!Status(complete, interrupted)
           summary == [complete |-> complete, records |-> rs]
           c == Benchmark!Checkpoint(rs, Succ(rs), Fail(rs), complete, interrupted)
           told == disk["summary"] = summary
           checked == disk["checkpoint"] = c
           A == ToSummary(rs, complete)
           B == ToTable(rs)
           C == ToCheckpoint(rs, complete, interrupted)
           D == ToStatus(status)
<1>0. /\ A = Benchmark!File("summary", summary) /\ B = Benchmark!File("csv", rs)
      /\ C = Benchmark!File("checkpoint", c) /\ D = Benchmark!File("status", status)
  BY DEF ToSummary, ToTable, ToCheckpoint, ToStatus
<1>1. DiskInv /\ disk["manifest"] = spec /\ Behind(rs) /\ spec \in Specs
  BY DEF BenchmarkInv, MemoryInv, MemoryTypes, BeginInv, Finishing
<1>2. disk = [f \in Benchmark!Files |-> disk[f]]
  BY <1>1 DEF DiskInv, DiskTypes
<1>3. /\ complete <=> (Succ(rs) = Jobs(spec))
      /\ complete => Lines = rs
      /\ disk["status"] = "complete" => complete
      /\ outcome = IF interrupted THEN "interrupted" ELSE Benchmark!Status(complete, FALSE)
      /\ ~interrupted => Store = rs /\ Succ(rs) \cup Fail(rs) = Jobs(spec)
  BY DEF Finishing
<1>4. Begins(rs) /\ Len(Store) <= Len(rs) + 1
  BY <1>1, BehindBegins
<1>5. complete => Store = rs
  BY <1>3, KnownLines
<1>6. status \in {"complete", "interrupted", "incomplete"} /\ (status = "complete" <=> complete)
  BY DEF Benchmark!Status
<1>7. c.count = Len(rs) /\ c.successful = Succ(rs) /\ c.failed = Fail(rs) /\ (c.complete <=> complete)
  BY DEF Benchmark!Checkpoint
<1>8. summary.records = rs /\ (complete => summary = [complete |-> TRUE, records |-> rs])
  OBVIOUS
<1>9. Len(rs) \in Nat /\ Len(Store) \in Nat /\ rs = SubSeq(Store, 1, Len(rs)) /\ Len(rs) <= Len(Store)
  BY <1>1, <1>4 DEF Begins, DiskInv, StoreInv
<1> HIDE DEF status, summary, c
<1>10. Sees(c)
  <2>1. SubSeq(Store, 1, c.count) = rs
    BY <1>7, <1>9
  <2>2. c.count \in 0 .. Len(Store) /\ \A i \in c.count + 1 .. Len(Store) - 1 : FALSE
    BY <1>4, <1>7, <1>9
  <2> QED BY <1>7, <2>1, <2>2 DEF Sees
<1>11. \/ plan = <<A, B, C, D>>
       \/ plan = <<B, C, D>> /\ told
       \/ plan = <<C, D>> /\ told
       \/ plan = <<D>> /\ told /\ checked
  BY DEF Finishing, status, summary, c
<1> HIDE DEF A, B, C, D
<1> DEFINE Tells == disk'["summary"] = summary
           Checks == disk'["checkpoint"] = c
<1>12. SUFFICES /\ DiskInv' /\ Lines' = Lines /\ Store' = Store /\ disk'["manifest"] = disk["manifest"]
                /\ disk'["status"] = "complete" => complete
                /\ \/ Tail(plan) = <<B, C, D>> /\ Tells
                   \/ Tail(plan) = <<C, D>> /\ Tells
                   \/ Tail(plan) = <<D>> /\ Tells /\ Checks
                   \/ Tail(plan) = <<>> /\ Tells /\ Checks /\ disk'["status"] = status
  BY <1>1 DEF A, B, C, D, status, summary, c
<1>13. CASE plan = <<A, B, C, D>>
  <2>1. Head(plan) = A /\ Tail(plan) = <<B, C, D>>
    BY <1>13
  <2>2. disk' = [disk EXCEPT !["summary"] = summary]
    BY <1>0, <2>1, Writes
  <2>3. disk["status"] = "complete" => summary = [complete |-> TRUE, records |-> Store]
    BY <1>3, <1>5, <1>8
  <2>4. DiskInv' /\ Lines' = Lines /\ Store' = Store
    BY <1>1, <1>4, <1>8, <2>2, <2>3, SummaryWritten
  <2>5. disk'["manifest"] = disk["manifest"] /\ disk'["status"] = disk["status"] /\ disk'["summary"] = summary
    BY <1>2, <2>2 DEF Benchmark!Files
  <2> QED BY <1>3, <2>1, <2>4, <2>5
<1>14. CASE plan = <<B, C, D>> /\ told
  <2>1. Head(plan) = B /\ Tail(plan) = <<C, D>>
    BY <1>14
  <2>2. disk' = [disk EXCEPT !["csv"] = rs]
    BY <1>0, <2>1, Writes
  <2>3. DiskInv' /\ Lines' = Lines /\ Store' = Store
    BY <1>1, <1>4, <2>2, TableWritten
  <2>4. disk'["manifest"] = disk["manifest"] /\ disk'["status"] = disk["status"] /\ disk'["summary"] = disk["summary"]
    BY <1>2, <2>2 DEF Benchmark!Files
  <2> QED BY <1>3, <1>14, <2>1, <2>3, <2>4
<1>15. CASE plan = <<C, D>> /\ told
  <2>1. Head(plan) = C /\ Tail(plan) = <<D>>
    BY <1>15
  <2>2. disk' = [disk EXCEPT !["checkpoint"] = c]
    BY <1>0, <2>1, Writes
  <2>3. DiskInv' /\ Lines' = Lines /\ Store' = Store
    BY <1>1, <1>3, <1>7, <1>10, <2>2, CheckpointWritten
  <2>4. /\ disk'["manifest"] = disk["manifest"] /\ disk'["status"] = disk["status"] /\ disk'["summary"] = disk["summary"]
        /\ disk'["checkpoint"] = c
    BY <1>2, <2>2 DEF Benchmark!Files
  <2> QED BY <1>3, <1>15, <2>1, <2>3, <2>4
<1>16. CASE plan = <<D>> /\ told /\ checked
  <2>1. Head(plan) = D /\ Tail(plan) = <<>>
    BY <1>16
  <2>2. disk' = [disk EXCEPT !["status"] = status]
    BY <1>0, <2>1, Writes
  <2>3. complete =>
           /\ Lines = Store /\ Succ(Store) = Benchmark!JobIds(disk["manifest"])
           /\ disk["checkpoint"].complete
           /\ disk["summary"] = [complete |-> TRUE, records |-> Store]
    BY <1>1, <1>3, <1>5, <1>7, <1>8, <1>16 DEF Jobs
  <2>4. DiskInv' /\ Lines' = Lines /\ Store' = Store
    BY <1>1, <1>6, <2>2, <2>3, StatusWritten
  <2>5. /\ disk'["manifest"] = disk["manifest"] /\ disk'["status"] = status /\ disk'["summary"] = disk["summary"]
        /\ disk'["checkpoint"] = disk["checkpoint"]
    BY <1>2, <2>2 DEF Benchmark!Files
  <2> QED BY <1>3, <1>6, <1>16, <2>1, <2>4, <2>5
<1> QED BY <1>11, <1>13, <1>14, <1>15, <1>16

LEMMA FinishWrites ==
  ASSUME BenchmarkInv, pc = "finish", plan # <<>>, NEW rs \in Seq(Att), NEW complete \in BOOLEAN,
         NEW interrupted \in BOOLEAN, Finishing(rs, complete, interrupted), disk' = Benchmark!Written(Head(plan)),
         plan' = Tail(plan), UNCHANGED <<spec, outcome>>
  PROVE  DiskInv' /\ disk'["manifest"] = spec /\ Finishing(rs, complete, interrupted)'
<1> DEFINE status == Benchmark!Status(complete, interrupted)
           told == disk'["summary"] = [complete |-> complete, records |-> rs]
           checked == disk'["checkpoint"] = Benchmark!Checkpoint(rs, Succ(rs), Fail(rs), complete, interrupted)
           B == ToTable(rs)
           C == ToCheckpoint(rs, complete, interrupted)
           D == ToStatus(status)
<1>1. /\ DiskInv' /\ Lines' = Lines /\ Store' = Store /\ disk'["manifest"] = spec
      /\ disk'["status"] = "complete" => complete
      /\ \/ plan' = <<B, C, D>> /\ told
         \/ plan' = <<C, D>> /\ told
         \/ plan' = <<D>> /\ told /\ checked
         \/ plan' = <<>> /\ told /\ checked /\ disk'["status"] = status
  BY FinishLeaves
<1>2. /\ Behind(rs)
      /\ complete <=> (Succ(rs) = Jobs(spec))
      /\ complete => Lines = rs
      /\ outcome = IF interrupted THEN "interrupted" ELSE Benchmark!Status(complete, FALSE)
      /\ ~interrupted => Store = rs /\ Succ(rs) \cup Fail(rs) = Jobs(spec)
  BY DEF Finishing
<1>3. Behind(rs)'
  BY <1>1, <1>2 DEF Behind, Ahead, Succ, Att
<1> QED BY <1>1, <1>2, <1>3 DEF Finishing, Succ, Fail, Jobs, ToSummary, ToTable, ToCheckpoint, ToStatus

LEMMA WriteStep == ASSUME BenchmarkInv, Benchmark!Write PROVE BenchmarkInv'
<1> USE DEF Benchmark!memory
<1>1. /\ plan # <<>> /\ disk' = Benchmark!Written(Head(plan)) /\ plan' = Tail(plan) /\ tries' = 0
      /\ UNCHANGED <<spec, records, successful, failed, block, todo, pc, leaving, outcome, runs>>
  BY DEF Benchmark!Write
<1>2. MemoryTypes'
  BY <1>1, MissingIsNothing DEF BenchmarkInv, MemoryInv, MemoryTypes, Steps, Succ, Fail, Jobs
<1>3. pc \in {"load", "note", "noteFailure", "finish"}
  BY <1>1 DEF BenchmarkInv, MemoryInv, BeginInv
<1>4. CASE pc = "load"
  <2>1. /\ DiskInv' /\ disk'["manifest"] = spec
        /\ \/ Tail(plan) = <<>>
           \/ /\ Lines' = <<>> /\ NoArtifacts'
              /\ Tail(plan) \in {<<ToAttempts, ToStatus("incomplete")>>, <<ToStatus("incomplete")>>}
    BY <1>1, <1>4, LoadWrites
  <2>2. BeginInv'
    BY <1>1, <1>4, <2>1 DEF BeginInv, BenchmarkInv, MemoryInv, ToAttempts, ToStatus
  <2> QED BY <1>1, <1>2, <1>4, <2>1, <2>2 DEF BenchmarkInv, MemoryInv, NoteInv, JobInv, CloseInv, FinishInv, OpenInv
<1>5. CASE pc \in {"note", "noteFailure"}
  <2>1. PICK r \in Att : Noting(r)
    BY <1>5 DEF BenchmarkInv, MemoryInv, NoteInv
  <2>2. /\ DiskInv' /\ disk'["manifest"] = spec /\ disk'["status"] # "complete"
        /\ Lines' = Append(records, r) /\ Store' = Append(records, r)
        /\ \/ Tail(plan) = <<ToCheckpoint(Append(records, r), FALSE, FALSE)>>
           \/ Tail(plan) = <<>> /\ Unseen'
    BY <1>1, <1>5, <2>1, RecordWritten
  <2>3. Noting(r)'
    BY <1>1, <2>1, <2>2 DEF Noting, NextAttempt, ToCheckpoint, Succ, Fail, Att
  <2>4. NoteInv'
    BY <2>3 DEF NoteInv, Att
  <2>5. Progress' /\ Current'
    BY <1>1, <1>5 DEF BenchmarkInv, MemoryInv, JobInv, Progress, Current, OfBlock
  <2>6. BeginInv' /\ JobInv' /\ OpenInv'
    BY <1>1, <1>5, <2>2, <2>5 DEF BeginInv, JobInv, OpenInv
  <2> QED BY <1>1, <1>2, <1>5, <2>2, <2>4, <2>6 DEF BenchmarkInv, MemoryInv, CloseInv, FinishInv
<1>6. CASE pc = "finish"
  <2>1. PICK rs \in Seq(Att), complete \in BOOLEAN, interrupted \in BOOLEAN : Finishing(rs, complete, interrupted)
    BY <1>6 DEF BenchmarkInv, MemoryInv, FinishInv
  <2>2. DiskInv' /\ disk'["manifest"] = spec /\ Finishing(rs, complete, interrupted)'
    BY <1>1, <1>6, <2>1, FinishWrites
  <2>3. FinishInv'
    BY <2>2 DEF FinishInv, Att
  <2> QED BY <1>1, <1>2, <1>6, <2>2, <2>3 DEF BenchmarkInv, MemoryInv, BeginInv, NoteInv, JobInv, CloseInv, OpenInv
<1> QED BY <1>3, <1>4, <1>5, <1>6

LEMMA RetryStep == ASSUME BenchmarkInv, Benchmark!Retry PROVE BenchmarkInv'
<1> USE DEF Benchmark!memory, Benchmark!Retry
<1>1. DiskInv' /\ Lines' = Lines /\ Store' = Store /\ disk' = disk
  BY SameDisk DEF BenchmarkInv
<1>2. MemoryTypes'
  BY MissingIsNothing DEF BenchmarkInv, MemoryInv, MemoryTypes, Steps, Succ, Fail, Jobs
<1>3. BeginInv' /\ OpenInv'
  BY <1>1 DEF BenchmarkInv, MemoryInv, BeginInv, OpenInv, NoArtifacts, ToManifest, ToAttempts, ToStatus, Succ, Fail, Jobs
<1>4. NoteInv'
  BY <1>1 DEF BenchmarkInv, MemoryInv, NoteInv, Noting, NextAttempt, Unseen, ToCheckpoint, Succ, Fail, Att
<1>5. JobInv' /\ CloseInv'
  BY <1>1 DEF BenchmarkInv, MemoryInv, JobInv, CloseInv, Progress, Current, Unseen, OfBlock, Behind, Ahead, Succ, Att, Jobs
<1>6. FinishInv'
  <2>1. ASSUME NEW rs, NEW complete, NEW interrupted, Finishing(rs, complete, interrupted)
        PROVE  Finishing(rs, complete, interrupted)'
    BY <1>1, <2>1 DEF Finishing, Behind, Ahead, Succ, Fail, Att, Jobs, ToSummary, ToTable, ToCheckpoint, ToStatus
  <2> QED BY <2>1 DEF BenchmarkInv, MemoryInv, FinishInv, Att
<1> QED BY <1>1, <1>2, <1>3, <1>4, <1>5, <1>6 DEF BenchmarkInv, MemoryInv

\* What a write that fails, or that a stop meets, may leave.
LEMMA Remaining ==
  ASSUME BenchmarkInv, plan # <<>>,
         disk' \in {disk, Benchmark!Written(Head(plan))} \cup Benchmark!Remains(Head(plan))
  PROVE  /\ DiskInv'
         /\ pc \in {"note", "noteFailure"} =>
              /\ disk'["manifest"] = spec /\ disk'["status"] # "complete"
              /\ \/ Store' = records
                 \/ \E r \in Att : Store' = Append(records, r) /\ r.job \notin Succ(records)
<1>0. pc \in {"load", "note", "noteFailure", "finish"} /\ records \in Seq(Att)
  BY DEF BenchmarkInv, MemoryInv, MemoryTypes, BeginInv
<1>1. CASE pc \in {"note", "noteFailure"}
  <2>1. PICK r \in Att : Noting(r)
    BY <1>1 DEF BenchmarkInv, MemoryInv, NoteInv
  <2>2. r.job \notin Succ(records) /\ Lines \in {records, Append(records, r)} /\ Append(records, r) \in Seq(Att)
    <3>1. Lines \in {records, Append(records, r)}
      BY <2>1 DEF Noting
    <3>2. r.job \notin Succ(records)
      BY <2>1 DEF Noting, NextAttempt
    <3> QED BY <1>0, <3>1, <3>2
  <2>3. CASE disk' = disk
    <3>1. DiskInv' /\ Store' = Store
      BY <2>3, SameDisk DEF BenchmarkInv
    <3>2. Store \in {records, Append(records, r)}
      BY <1>0, <2>2, KnownLines
    <3>3. disk["manifest"] = spec /\ disk["status"] # "complete"
      BY <1>1 DEF BenchmarkInv, MemoryInv, BeginInv, OpenInv
    <3> QED BY <2>2, <2>3, <3>1, <3>2, <3>3
  <2>4. CASE disk' = Benchmark!Written(Head(plan))
    BY <1>1, <2>1, <2>2, <2>4, RecordWritten
  <2>5. CASE Head(plan) = Benchmark!Line(r) /\ disk' = Benchmark!Written(Benchmark!Line(Torn))
    BY <1>1, <2>1, <2>5, PartWritten
  <2>6. Head(plan) = Benchmark!Line(r) \/ Head(plan) = ToCheckpoint(Append(records, r), FALSE, FALSE)
    <3> DEFINE k == ToCheckpoint(Append(records, r), FALSE, FALSE)
               a == Benchmark!Line(r)
    <3>1. plan = <<a, k>> \/ plan = <<k>>
      BY <2>1 DEF Noting
    <3> HIDE DEF a, k
    <3>2. Head(plan) = a \/ Head(plan) = k
      BY <3>1
    <3> QED BY <3>2 DEF a, k
  <2>7. \/ disk' = disk \/ disk' = Benchmark!Written(Head(plan))
        \/ Head(plan) = Benchmark!Line(r) /\ disk' = Benchmark!Written(Benchmark!Line(Torn))
    <3>1. Benchmark!Remains(ToCheckpoint(Append(records, r), FALSE, FALSE)) = {disk}
      BY Writes DEF ToCheckpoint
    <3>2. Benchmark!Remains(Benchmark!Line(r)) = {disk, Benchmark!Written(Benchmark!Line(r)), Benchmark!Written(Benchmark!Line(Torn))}
      BY Writes
    <3>3. CASE Head(plan) = Benchmark!Line(r)
      <4>1. Benchmark!Remains(Head(plan)) = {disk, Benchmark!Written(Head(plan)), Benchmark!Written(Benchmark!Line(Torn))}
        BY <3>2, <3>3
      <4> QED BY <3>3, <4>1
    <3>4. CASE Head(plan) = ToCheckpoint(Append(records, r), FALSE, FALSE)
      <4>1. Benchmark!Remains(Head(plan)) = {disk}
        BY <3>1, <3>4
      <4> QED BY <4>1
    <3> QED BY <2>6, <3>3, <3>4
  <2> QED BY <2>3, <2>4, <2>5, <2>7
<1>2. CASE pc = "load"
  <2>1. Benchmark!Remains(Head(plan)) = {disk}
    <3>1. Head(plan) \in {ToManifest, ToAttempts, ToStatus("incomplete")}
      BY <1>2 DEF BenchmarkInv, MemoryInv, BeginInv
    <3> QED BY <3>1, Writes DEF ToManifest, ToAttempts, ToStatus
  <2> QED BY <1>2, <2>1, LoadWrites, SameDisk DEF BenchmarkInv
<1>3. CASE pc = "finish"
  <2>1. PICK rs \in Seq(Att), complete \in BOOLEAN, interrupted \in BOOLEAN : Finishing(rs, complete, interrupted)
    BY <1>3 DEF BenchmarkInv, MemoryInv, FinishInv
  <2> DEFINE A == ToSummary(rs, complete)
             B == ToTable(rs)
             C == ToCheckpoint(rs, complete, interrupted)
             D == ToStatus(Benchmark!Status(complete, interrupted))
  <2>2. Head(plan) \in {A, B, C, D}
    <3>1. plan = <<A, B, C, D>> \/ plan = <<B, C, D>> \/ plan = <<C, D>> \/ plan = <<D>>
      BY <2>1 DEF Finishing
    <3> HIDE DEF A, B, C, D
    <3> QED BY <3>1
  <2>3. Benchmark!Remains(Head(plan)) = {disk}
    BY <2>2, Writes DEF ToSummary, ToTable, ToCheckpoint, ToStatus
  <2>4. CASE disk' = disk
    BY <1>3, <2>4, SameDisk DEF BenchmarkInv
  <2>5. CASE disk' = Benchmark!Written(Head(plan))
    BY <1>3, <2>1, <2>5, FinishLeaves
  <2> QED BY <2>3, <2>4, <2>5
<1> QED BY <1>0, <1>1, <1>2, <1>3

\* An exception leaves the run.
LEMMA RaiseStep ==
  ASSUME BenchmarkInv, NEW why \in {"interrupt", "error"}, UNCHANGED <<Benchmark!memory, runs>>, Benchmark!Raise(why),
         disk' \in {disk} \cup (IF plan = <<>> THEN {}
           ELSE {Benchmark!Written(Head(plan))} \cup Benchmark!Remains(Head(plan)))
  PROVE  BenchmarkInv'
<1>1. MemoryTypes
  BY DEF BenchmarkInv, MemoryInv
<1>2. /\ records \in Seq(Att) /\ successful = Succ(records) /\ failed = Fail(records) /\ tries \in 0 .. Retries
      /\ successful \cup failed \subseteq Jobs(spec) /\ leaving \in {"done", "interrupt", "error"} /\ Retries \in Nat
  BY <1>1, MissingIsNothing DEF MemoryTypes
<1>3. plan = <<>> => disk' = disk
  OBVIOUS
<1>4. /\ DiskInv'
      /\ pc \in {"note", "noteFailure"} =>
           /\ disk'["manifest"] = spec /\ disk'["status"] # "complete"
           /\ \/ Store' = records
              \/ \E r \in Att : Store' = Append(records, r) /\ r.job \notin Succ(records)
  <2>1. CASE plan # <<>>
    BY <2>1, Remaining
  <2>2. CASE plan = <<>>
    <3>1. DiskInv' /\ Store' = Store
      BY <1>3, <2>2, SameDisk DEF BenchmarkInv
    <3>2. ASSUME pc \in {"note", "noteFailure"}
          PROVE  /\ disk["manifest"] = spec /\ disk["status"] # "complete"
                 /\ \E r \in Att : Store = Append(records, r) /\ r.job \notin Succ(records)
      <4>1. PICK r \in Att : Noting(r)
        BY <3>2 DEF BenchmarkInv, MemoryInv, NoteInv
      <4>2. Lines = Append(records, r) /\ Append(records, r) \in Seq(Att)
        BY <1>2, <2>2, <4>1 DEF Noting
      <4>3. Store = Append(records, r) /\ r.job \notin Succ(records)
        BY <4>1, <4>2, KnownLines DEF Noting, NextAttempt
      <4> QED BY <3>2, <4>3 DEF BenchmarkInv, MemoryInv, BeginInv, OpenInv
    <3> QED BY <1>3, <2>2, <3>1, <3>2
  <2> QED BY <2>1, <2>2
<1>5. CASE /\ pc \in {"prepare", "load", "finish"} \/ (pc \in {"fail", "noteFailure"} /\ why = "error")
           /\ Benchmark!End("raised") /\ UNCHANGED leaving
  BY <1>2, <1>4, <1>5, Ended
<1>6. ASSUME pc \in {"block", "close", "start", "measure", "fail"}
      PROVE  /\ plan = <<>> /\ disk' = disk /\ Lines' = Lines /\ Store' = Store
             /\ disk["manifest"] = spec /\ disk["status"] # "complete"
  <2>1. plan = <<>> /\ disk["manifest"] = spec /\ disk["status"] # "complete"
    BY <1>6 DEF BenchmarkInv, MemoryInv, BeginInv, OpenInv
  <2> QED BY <1>3, <2>1, SameDisk DEF BenchmarkInv
<1>7. CASE /\ pc \in {"block", "close"} \/ (pc \in {"fail", "noteFailure"} /\ why = "interrupt")
           /\ Benchmark!FinishArtifacts(records, TRUE)
           /\ tries' = 0 /\ UNCHANGED leaving
  <2>1. disk'["manifest"] = spec /\ disk'["status"] # "complete"
    BY <1>4, <1>6, <1>7
  <2>2. Store' = records \/ (\E r \in Att : Store' = Append(records, r) /\ r.job \notin Succ(records))
    <3>1. CASE pc = "noteFailure"
      BY <1>4, <3>1
    <3>2. CASE pc = "close" /\ leaving # "done"
      BY <1>6, <3>2 DEF BenchmarkInv, MemoryInv, CloseInv, Behind, Ahead
    <3>3. CASE pc \in {"block", "fail"} \/ (pc = "close" /\ leaving = "done")
      <4>1. Lines = records
        BY <3>3 DEF BenchmarkInv, MemoryInv, JobInv
      <4> QED BY <1>2, <1>6, <3>3, <4>1, KnownLines
    <3> QED BY <1>7, <3>1, <3>2, <3>3
  <2>3. Succ(records) = Jobs(spec) => Lines' = records
    <3>1. CASE pc = "noteFailure"
      <4>1. PICK r \in Att : Noting(r)
        BY <3>1 DEF BenchmarkInv, MemoryInv, NoteInv
      <4> QED BY <4>1 DEF Noting, NextAttempt, Jobs
    <3>2. CASE pc = "close" /\ leaving # "done"
      BY <1>2, <3>2 DEF BenchmarkInv, MemoryInv, CloseInv
    <3>3. CASE pc \in {"block", "fail"} \/ (pc = "close" /\ leaving = "done")
      BY <1>6, <3>3 DEF BenchmarkInv, MemoryInv, JobInv
    <3> QED BY <1>7, <3>1, <3>2, <3>3
  <2>4. 0 \in 0 .. Retries
    BY <1>2
  <2> QED BY <1>2, <1>4, <1>7, <2>1, <2>2, <2>3, <2>4, FinishBegun
<1>8. CASE /\ pc \in {"start", "measure", "note"}
           /\ pc' = "close" /\ plan' = <<>> /\ tries' = 0
           /\ leaving' = why /\ UNCHANGED outcome
  <2>1. disk'["manifest"] = spec /\ disk'["status"] # "complete"
    BY <1>4, <1>6, <1>8
  <2>2. Behind(records)'
    <3>1. CASE pc = "note"
      BY <1>2, <1>4, <3>1 DEF Behind, Ahead, Benchmark!memory, Succ, Att
    <3>2. CASE pc \in {"start", "measure"}
      <4>1. Store = records /\ Store' = Store
        BY <1>2, <1>6, <3>2, KnownLines DEF BenchmarkInv, MemoryInv, JobInv
      <4> QED BY <1>2, <4>1 DEF Behind, Ahead, Benchmark!memory, Succ, Att
    <3> QED BY <1>8, <3>1, <3>2
  <2>3. todo # {} /\ Current
    <3>1. CASE pc = "note"
      BY <3>1 DEF BenchmarkInv, MemoryInv, NoteInv, JobInv, Noting
    <3>2. CASE pc \in {"start", "measure"}
      BY <3>2 DEF BenchmarkInv, MemoryInv, JobInv
    <3> QED BY <1>8, <3>1, <3>2
  <2>4. block \in DOMAIN spec.profiles
    <3>1. Progress
      BY <1>8 DEF BenchmarkInv, MemoryInv, JobInv
    <3> QED BY <1>1, <2>3, <3>1, Profiles DEF MemoryTypes, Progress, Current
  <2>5. todo \cap successful = {} /\ todo \subseteq Jobs(spec)
    BY <2>3, <2>4 DEF Current, OfBlock, Jobs, Benchmark!JobIds
  <2>6. CloseInv'
    BY <2>2, <2>3, <2>5 DEF CloseInv, Benchmark!memory, Jobs
  <2>7. MemoryTypes'
    BY <1>1, <1>2, <1>8 DEF MemoryTypes, Steps, Benchmark!Points, Benchmark!memory, Succ, Fail, Jobs
  <2>8. BeginInv' /\ OpenInv' /\ NoteInv' /\ JobInv' /\ FinishInv'
    BY <1>8, <2>1 DEF BeginInv, OpenInv, NoteInv, JobInv, FinishInv, Benchmark!memory
  <2> QED BY <1>4, <2>6, <2>7, <2>8 DEF BenchmarkInv, MemoryInv
<1> QED BY <1>5, <1>7, <1>8 DEF Benchmark!Raise

LEMMA BenchmarkStep == BenchmarkInv /\ Benchmark!Next => BenchmarkInv'
<1> SUFFICES ASSUME BenchmarkInv, Benchmark!Next PROVE BenchmarkInv'
  OBVIOUS
<1>1. CASE \E s \in Specs : Benchmark!Invoke(s)
  BY <1>1, InvokeStep
<1>2. CASE Benchmark!WriteFails
  BY <1>2, RaiseStep DEF Benchmark!WriteFails
<1>3. CASE Benchmark!Interrupt
  BY <1>3, RaiseStep DEF Benchmark!Interrupt, Benchmark!Met
<1>4. CASE Benchmark!Crash
  <2>1. /\ Benchmark!End("died") /\ UNCHANGED <<Benchmark!memory, leaving, runs>>
        /\ disk' \in Benchmark!Met \cup (IF plan = <<>> THEN {} ELSE Benchmark!Remains(Head(plan)))
    BY <1>4 DEF Benchmark!Crash
  <2>2. DiskInv'
    <3>1. CASE plan = <<>>
      <4>1. disk' = disk
        BY <2>1, <3>1 DEF Benchmark!Met
      <4> QED BY <4>1, SameDisk DEF BenchmarkInv
    <3>2. CASE plan # <<>>
      <4>1. disk' \in {disk, Benchmark!Written(Head(plan))} \cup Benchmark!Remains(Head(plan))
        BY <2>1, <3>2 DEF Benchmark!Met
      <4> QED BY <3>2, <4>1, Remaining
    <3> QED BY <3>1, <3>2
  <2>3. leaving \in {"done", "interrupt", "error"}
    BY DEF BenchmarkInv, MemoryInv, MemoryTypes
  <2> QED BY <2>1, <2>2, <2>3, Ended
<1>5. CASE Benchmark!Work
  BY <1>2, <1>5, PrepareStep, LoadStep, NextBlockStep, StartStep, MeasureStep, FailJobStep, NoteStep, NoteFailureStep,
     CloseStep, FinishStep, WriteStep, RetryStep DEF Benchmark!Work
<1> QED BY <1>1, <1>3, <1>4, <1>5 DEF Benchmark!Next

LEMMA BenchmarkStays == BenchmarkInv /\ UNCHANGED benchmark => BenchmarkInv'
<1> SUFFICES ASSUME BenchmarkInv, UNCHANGED benchmark PROVE BenchmarkInv'
  OBVIOUS
<1> USE DEF benchmark
<1>1. DiskInv' /\ Lines' = Lines /\ Store' = Store
  BY SameDisk DEF BenchmarkInv
<1>2. MemoryTypes'
  BY DEF BenchmarkInv, MemoryInv, MemoryTypes, Steps, Succ, Fail, Jobs
<1>3. BeginInv' /\ OpenInv'
  BY <1>1 DEF BenchmarkInv, MemoryInv, BeginInv, OpenInv, NoArtifacts, ToManifest, ToAttempts, ToStatus, Succ, Fail, Jobs
<1>4. NoteInv'
  BY <1>1 DEF BenchmarkInv, MemoryInv, NoteInv, Noting, NextAttempt, Unseen, ToCheckpoint, Succ, Fail, Att
<1>5. JobInv' /\ CloseInv'
  BY <1>1 DEF BenchmarkInv, MemoryInv, JobInv, CloseInv, Progress, Current, Unseen, OfBlock, Behind, Ahead, Succ, Att, Jobs
<1>6. FinishInv'
  <2>1. ASSUME NEW rs, NEW complete, NEW interrupted, Finishing(rs, complete, interrupted)
        PROVE  Finishing(rs, complete, interrupted)'
    BY <1>1, <2>1 DEF Finishing, Behind, Ahead, Succ, Fail, Att, Jobs, ToSummary, ToTable, ToCheckpoint, ToStatus
  <2> QED BY <2>1 DEF BenchmarkInv, MemoryInv, FinishInv, Att
<1> QED BY <1>1, <1>2, <1>3, <1>4, <1>5, <1>6 DEF BenchmarkInv, MemoryInv

\* What the invariant says of the artifacts, as the properties state it.
LEMMA BenchmarkIsTrue == BenchmarkInv => BenchmarkResumes
<1> SUFFICES ASSUME BenchmarkInv PROVE BenchmarkResumes
  OBVIOUS
<1>1. /\ DiskTypes /\ StoreInv /\ ArtifactsInv /\ StatusInv /\ MemoryTypes /\ OpenInv
  BY DEF BenchmarkInv, DiskInv, MemoryInv
<1>2. Benchmark!TypeOK
  <2>1. DOMAIN disk = Benchmark!Files
    BY <1>1 DEF DiskTypes
  <2>2. \A i \in 1 .. Len(Lines) - 1 : Lines[i] # Torn
    <3>1. Store \in Seq(Att) /\ Store \in Seq(Att \cup {Torn})
      BY <1>1 DEF StoreInv
    <3>2. \A i \in 1 .. Len(Store) : Store[i] # Torn
      BY <3>1, MissingIsNothing
    <3>3. CASE Lines = Store
      BY <3>1, <3>2, <3>3
    <3>4. CASE Lines = Append(Store, Torn)
      <4>1. /\ Len(Append(Store, Torn)) = Len(Store) + 1 /\ Len(Store) \in Nat
            /\ \A i \in 1 .. Len(Store) : Append(Store, Torn)[i] = Store[i]
        BY <3>1
      <4> QED BY <3>2, <3>4, <4>1
    <3> QED BY <1>1, <3>3, <3>4 DEF StoreInv
  <2> QED BY <1>1, <2>1, <2>2 DEF Benchmark!TypeOK, DiskTypes, MemoryTypes, Steps, Succ, Fail, Jobs, Lines
<1>3. Benchmark!CompleteIsTrue
  BY <1>1 DEF Benchmark!CompleteIsTrue, StatusInv, OpenInv, Succ, Store
<1>4. Benchmark!NothingLeftOut
  BY <1>1 DEF Benchmark!NothingLeftOut, OpenInv, Succ, Fail, Store, Jobs
<1>5. Benchmark!ArtifactsAreOfABeginning
  <2>1. ASSUME NEW rs, Begins(rs) PROVE Benchmark!IsPrefix(rs, Store)
    <3>1. Store \in Seq(Att) /\ rs \in Seq(Att)
      BY <1>1, <2>1 DEF StoreInv, Begins
    <3>2. Len(rs) <= Len(Store) /\ rs = SubSeq(Store, 1, Len(rs))
      BY <2>1 DEF Begins
    <3> QED BY <3>1, <3>2 DEF Benchmark!IsPrefix
  <2>2. ASSUME NEW c, Sees(c)
        PROVE  LET seen == SubSeq(Store, 1, c.count) IN
               /\ c.count <= Len(Store)
               /\ c.successful = Succ(seen) /\ c.failed = Fail(seen)
               /\ \A i \in c.count + 1 .. Len(Store) - 1 : Store[i].status = "failure"
    <3>1. Len(Store) \in Nat
      BY <1>1 DEF StoreInv
    <3> QED BY <2>2, <3>1 DEF Sees
  <2> QED BY <1>1, <2>1, <2>2 DEF Benchmark!ArtifactsAreOfABeginning, ArtifactsInv, Store, Succ, Fail
<1>6. Benchmark!MeasuredOnce
  BY <1>1 DEF Benchmark!MeasuredOnce, StoreInv, Once, Store
<1>7. Benchmark!NeverMixed
  BY <1>1 DEF Benchmark!NeverMixed, StoreInv, Store
<1> QED BY <1>2, <1>3, <1>4, <1>5, <1>6, <1>7 DEF BenchmarkResumes

THEOREM BenchmarksResume == EnginesSpec => []BenchmarkResumes
<1>1. EnginesInit => BenchmarkInv
  BY BenchmarkAtFirst DEF EnginesInit
<1>2. BenchmarkInv /\ [EnginesNext]_engines => BenchmarkInv'
  <2>1. ASSUME BenchmarkInv, EnginesNext PROVE BenchmarkInv'
    <3>1. Benchmark!Next \/ UNCHANGED benchmark
      BY <2>1 DEF EnginesNext, Managed, InTime, Straying, OfEngine, OfBenchmark
    <3> QED BY <2>1, <3>1, BenchmarkStep, BenchmarkStays
  <2>2. ASSUME BenchmarkInv, UNCHANGED engines PROVE BenchmarkInv'
    BY <2>2, BenchmarkStays DEF engines
  <2> QED BY <2>1, <2>2
<1> QED BY <1>1, <1>2, BenchmarkIsTrue, PTL DEF EnginesSpec

=============================================================================
