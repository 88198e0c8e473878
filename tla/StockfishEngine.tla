-------------------------- MODULE StockfishEngine --------------------------
(***************************************************************************)
(* StockfishEngine: one child process at a time, driven over pipes and     *)
(* replaced after any failure, with a reader thread per process that moves *)
(* the lines of its pipe into the engine's output queue.  The thread looks *)
(* the queue up for every line, so one that outlives its join writes into  *)
(* the queue of the process that came after.                               *)
(***************************************************************************)
EXTENDS Integers, Sequences, FiniteSets

CONSTANTS
  Requests,      \* a position and a profile to analyze it with
  Moves,         \* Moves[r]: the legal moves of r's position, 0 if it is over
  Lines,         \* Lines[r]: the MultiPV of r's profile
  NoRequest,
  MaxProcesses,  \* bound: processes spawned
  MaxCalls,      \* bound: calls of start and analyze
  MaxInfos       \* bound: info lines of one search

EngineAssumption ==
  /\ NoRequest \notin Requests
  /\ Moves \in [Requests -> Nat] /\ Lines \in [Requests -> Nat \ {0}]
  /\ MaxProcesses \in Nat /\ MaxCalls \in Nat /\ MaxInfos \in Nat

VARIABLES
  process,   \* _process: the number of the child held, 0 for None
  verified,  \* _identity is not None
  output,    \* _output: the lines the readers have put
  reader,    \* reader[p]: the thread of p: "none", "reading" or "ended"
  hand,      \* hand[p]: what p's thread has read and not yet put
  child,     \* child[p]: the operating system's side of p
  call,      \* the call that holds the lock
  spawned,   \* how many processes there have been
  calls,     \* how many calls there have been
  answer     \* how the last call ended

threads == <<output, reader, hand, child>>
vars == <<process, verified, output, reader, hand, child, call, spawned, calls, answer>>

-----------------------------------------------------------------------------

Processes == 1..MaxProcesses

Ranks == 1..MaxInfos

\* The lines a search must have sent, and whether there is one at all.
Expected(r) == 1..(IF Lines[r] < Moves[r] THEN Lines[r] ELSE Moves[r])
NeedsSearch(r) == r \in {q \in Requests : Moves[q] > 0}

\* What stands in a pipe or in the queue.  "end" and "error" are put by the
\* reader: the end of the stream, and what reading a closed one raises.
Line(p, kind, r, rank, form) ==
  [from |-> p, kind |-> kind, request |-> r, rank |-> rank, form |-> form]
Plain(p, kind) == Line(p, kind, NoRequest, 0, "plain")

Nothing == Plain(0, "nothing")

\* parse_uci_info and validate_analysis_position tell these apart: a whole
\* line, one without score, WDL or moves, one that does not parse, one with
\* an illegal move.
Forms == {"complete", "partial", "malformed", "illegal"}

NewChild == [up |-> TRUE, open |-> TRUE, commands |-> << >>, pipe |-> << >>,
             setup |-> NoRequest, search |-> NoRequest, sent |-> 0]
NoChild == [NewChild EXCEPT !.up = FALSE, !.open = FALSE]

Idle == [pc |-> "idle", request |-> NoRequest, name |-> "none", infos |-> << >>]

Running == process # 0 /\ child[process].up

-----------------------------------------------------------------------------

(***************************************************************************)
(* The child: it reads its commands in order, may stop at any time, and    *)
(* need not answer.                                                        *)
(***************************************************************************)

Send(p, cs) == child' = [child EXCEPT ![p].commands = @ \o cs]

Answers(p) ==
  LET c == child[p]
      command == Head(c.commands)
      Say(lines) == [c EXCEPT !.commands = Tail(@), !.pipe = @ \o lines]
  IN  /\ c.up /\ c.commands # << >> /\ c.search = NoRequest
      /\ \/ /\ command.kind = "uci"
            /\ \E name \in {"stockfish18", "other"} :
                 child' = [child EXCEPT ![p] =
                   Say(<<Line(p, "id name", NoRequest, 0, name), Plain(p, "uciok")>>)]
         \/ /\ command.kind = "setoption"
            /\ child' = [child EXCEPT ![p] = [Say(<< >>) EXCEPT !.setup = command.request]]
         \/ /\ command.kind = "isready"
            /\ child' = [child EXCEPT ![p] = Say(<<Plain(p, "readyok")>>)]
         \/ /\ command.kind = "go"
            /\ child' = [child EXCEPT ![p] =
                 [Say(<< >>) EXCEPT !.search = command.request, !.setup = NoRequest, !.sent = 0]]
  /\ UNCHANGED <<process, verified, output, reader, hand, call, spawned, calls, answer>>

Searches(p) ==
  /\ child[p].up /\ child[p].search # NoRequest
  /\ \/ /\ child[p].sent < MaxInfos
        /\ \E rank \in Ranks, form \in Forms :
             child' = [child EXCEPT
               ![p].pipe = Append(@, Line(p, "info", child[p].search, rank, form)),
               ![p].sent = @ + 1]
     \/ child' = [child EXCEPT
          ![p].pipe = Append(@, Plain(p, "bestmove")), ![p].search = NoRequest]
  /\ UNCHANGED <<process, verified, output, reader, hand, call, spawned, calls, answer>>

\* The end of a child that was cut off changes nothing any more.
Exits(p) ==
  /\ child[p].up /\ child[p].open
  /\ child' = [child EXCEPT ![p].up = FALSE]
  /\ UNCHANGED <<process, verified, output, reader, hand, call, spawned, calls, answer>>

-----------------------------------------------------------------------------

(***************************************************************************)
(* The reader thread of process p.                                         *)
(***************************************************************************)

Reads(p) ==
  LET c == child[p]
  IN  /\ reader[p] = "reading" /\ hand[p] = Nothing
      /\ \/ ~c.open /\ hand' = [hand EXCEPT ![p] = Plain(p, "error")]
            /\ UNCHANGED child
         \/ /\ c.open /\ c.pipe # << >>
            /\ hand' = [hand EXCEPT ![p] = Head(c.pipe)]
            /\ child' = [child EXCEPT ![p].pipe = Tail(@)]
         \/ /\ c.open /\ c.pipe = << >> /\ ~c.up
            /\ hand' = [hand EXCEPT ![p] = Plain(p, "end")]
            /\ UNCHANGED child
  /\ UNCHANGED <<process, verified, output, reader, call, spawned, calls, answer>>

Puts(p) ==
  /\ reader[p] = "reading" /\ hand[p] # Nothing
  /\ output' = Append(output, hand[p])
  /\ hand' = [hand EXCEPT ![p] = Nothing]
  /\ reader' = [reader EXCEPT ![p] = IF hand[p].kind \in {"end", "error"} THEN "ended" ELSE @]
  /\ UNCHANGED <<process, verified, child, call, spawned, calls, answer>>

-----------------------------------------------------------------------------

(***************************************************************************)
(* The engine.  Gone(p, late, left) is what _terminate_process leaves of   *)
(* p: its pipes are closed, the child is stopped or killed unless the kill *)
(* does not take and is passed over (left: it is cut off, and ends when it *)
(* ends), and its reader has ended unless it outlives the join (late).     *)
(* Closing a pipe is taken to return, be its child left or not.            *)
(***************************************************************************)

\* Slip: the output pipe is left open.
GoneLeavingOpen(p, late, left) ==
  /\ child' = [child EXCEPT ![p] = [@ EXCEPT !.up = left /\ @, !.commands = << >>, !.search = NoRequest]]
  /\ reader' = [reader EXCEPT ![p] = IF late THEN @ ELSE "ended"]
  /\ hand' = [hand EXCEPT ![p] = IF late THEN @ ELSE Nothing]

Gone(p, late, left) ==
  /\ child' = [child EXCEPT ![p] = [NoChild EXCEPT !.up = left /\ child[p].up]]
  /\ reader' = [reader EXCEPT ![p] = IF late THEN @ ELSE "ended"]
  /\ hand' = [hand EXCEPT ![p] = IF late THEN @ ELSE Nothing]

\* Slip: the identity is kept.
TerminateKeepsIdentity ==
  /\ process' = 0 /\ UNCHANGED verified
  /\ IF process = 0
       THEN UNCHANGED <<reader, hand, child>>
       ELSE \E late, left \in BOOLEAN : Gone(process, late, left)

Terminate ==
  /\ process' = 0 /\ verified' = FALSE
  /\ IF process = 0
       THEN UNCHANGED <<reader, hand, child>>
       ELSE \E late, left \in BOOLEAN : Gone(process, late, left)

Return(outcome) ==
  /\ answer' = outcome
  /\ call' = Idle

Failed(error) == [kind |-> error, request |-> call.request, lines |-> << >>]

\* Every failure ends in _terminate_process and is raised.
Fail(error) ==
  /\ Terminate
  /\ Return(Failed(error))
  /\ UNCHANGED <<output, spawned, calls>>

\* start or analyze is called: r = NoRequest stands for start alone.
Call(r) ==
  /\ call.pc = "idle" /\ calls < MaxCalls
  /\ calls' = calls + 1
  /\ call' = [Idle EXCEPT !.pc = IF verified /\ Running THEN "started" ELSE "stopped",
                          !.request = r]
  /\ UNCHANGED <<process, verified, output, reader, hand, child, spawned, answer>>

\* start() finds a process that is not verified and running and ends it.
EndsOld ==
  /\ call.pc = "stopped" /\ process # 0
  /\ Terminate
  /\ UNCHANGED <<output, call, spawned, calls, answer>>

\* _spawn_process with "uci" sent; Popen may raise.
Spawn ==
  /\ call.pc = "stopped" /\ process = 0
  /\ \/ /\ spawned < MaxProcesses
        /\ spawned' = spawned + 1
        /\ process' = spawned + 1
        /\ output' = << >>
        /\ reader' = [reader EXCEPT ![spawned + 1] = "reading"]
        /\ child' = [child EXCEPT ![spawned + 1] =
             [NewChild EXCEPT !.commands = <<[kind |-> "uci", request |-> NoRequest]>>]]
        /\ call' = [call EXCEPT !.pc = "handshake"]
        /\ UNCHANGED <<verified, hand, calls, answer>>
     \/ Fail("StockfishStartupError")

\* Slip: options are set for the first call only.
ConfigureOnce ==
  /\ call.pc = "started" /\ NeedsSearch(call.request)
  /\ Running
  /\ Send(process, (IF calls > 1 THEN << >> ELSE <<[kind |-> "setoption", request |-> call.request]>>)
                     \o <<[kind |-> "isready", request |-> NoRequest]>>)
  /\ call' = [call EXCEPT !.pc = "options"]
  /\ UNCHANGED <<process, verified, output, reader, hand, spawned, calls, answer>>

\* _configure: the profile's options and Clear Hash, then isready.
Configure ==
  /\ call.pc = "started" /\ NeedsSearch(call.request)
  /\ Running
  /\ Send(process, <<[kind |-> "setoption", request |-> call.request],
                     [kind |-> "isready", request |-> NoRequest]>>)
  /\ call' = [call EXCEPT !.pc = "options"]
  /\ UNCHANGED <<process, verified, output, reader, hand, spawned, calls, answer>>

\* start alone is done, or the position is over and nothing is searched.
NoSearch ==
  /\ call.pc = "started"
  /\ ~NeedsSearch(call.request)
  /\ Return([kind |-> IF call.request = NoRequest THEN "started" ELSE "terminal",
             request |-> call.request, lines |-> << >>])
  /\ UNCHANGED <<process, verified, output, reader, hand, child, spawned, calls>>

\* A command is sent to a process that has stopped.
Rejected ==
  /\ call.pc = "started" /\ NeedsSearch(call.request)
  /\ ~Running
  /\ Fail("StockfishProcessError")

\* _next_line: the head of the queue is taken.
Takes(kinds) == output # << >> /\ Head(output).kind \in kinds

Took ==
  /\ output' = Tail(output)
  /\ UNCHANGED <<process, verified, reader, hand, child, spawned, calls, answer>>

Handshake ==
  /\ call.pc = "handshake"
  /\ \/ Takes({"id name"}) /\ call' = [call EXCEPT !.name = Head(output).form] /\ Took
     \/ Takes({"readyok", "info", "bestmove"}) /\ UNCHANGED call /\ Took
     \/ /\ Takes({"uciok"}) /\ call.name = "stockfish18"
        /\ verified' = TRUE
        /\ output' = Tail(output)
        /\ call' = [call EXCEPT !.pc = "started"]
        /\ UNCHANGED <<process, reader, hand, child, spawned, calls, answer>>
     \/ Takes({"uciok"}) /\ call.name # "stockfish18" /\ Fail("StockfishIdentityError")

\* _ready, then the position and go nodes.
Ready ==
  /\ call.pc = "options"
  /\ \/ Takes({"id name", "uciok", "info", "bestmove"}) /\ UNCHANGED call /\ Took
     \/ /\ Takes({"readyok"}) /\ Running
        /\ Send(process, <<[kind |-> "go", request |-> call.request]>>)
        /\ output' = Tail(output)
        /\ call' = [call EXCEPT !.pc = "search"]
        /\ UNCHANGED <<process, verified, reader, hand, spawned, calls, answer>>
     \/ Takes({"readyok"}) /\ ~Running /\ Fail("StockfishProcessError")

\* An info line of the search: parse_uci_info raises for one that does not
\* parse - a NameError, the module does not import StockfishProtocolError -
\* and passes over a partial one; the last one of a rank counts.
Info ==
  /\ call.pc = "search"
  /\ \/ Takes({"id name", "uciok", "readyok"}) /\ UNCHANGED call /\ Took
     \/ /\ Takes({"info"})
        /\ IF Head(output).form = "malformed"
             THEN Fail("NameError")
             ELSE /\ call' = IF Head(output).form = "partial"
                               THEN call
                               ELSE [call EXCEPT !.infos = [k \in DOMAIN @ \cup {Head(output).rank} |->
                                       IF k = Head(output).rank THEN Head(output) ELSE @[k]]]
                  /\ Took

\* Slip: the best move is enough.
BestmoveAnyway ==
  /\ call.pc = "search" /\ Takes({"bestmove"})
  /\ Return([kind |-> "result", request |-> call.request, lines |-> call.infos])
  /\ output' = Tail(output)
  /\ UNCHANGED <<process, verified, reader, hand, child, spawned, calls>>

\* The search is over: every line asked for, and every move legal.
Bestmove ==
  /\ call.pc = "search" /\ Takes({"bestmove"})
  /\ IF /\ DOMAIN call.infos = Expected(call.request)
        /\ \A k \in DOMAIN call.infos : call.infos[k].form = "complete"
       THEN /\ Return([kind |-> "result", request |-> call.request, lines |-> call.infos])
            /\ output' = Tail(output)
            /\ UNCHANGED <<process, verified, reader, hand, child, spawned, calls>>
       ELSE Fail("StockfishProtocolError")

\* _QUEUE_END or what the reader raised.
StreamEnds ==
  /\ call.pc \in {"handshake", "options", "search"}
  /\ Takes({"end", "error"})
  /\ Fail("StockfishProcessError")

\* Slip: the process is kept for the next call.
ExpireKeeps ==
  /\ call.pc \in {"handshake", "options", "search"}
  /\ Return(Failed("StockfishWatchdogError"))
  /\ UNCHANGED <<process, verified, output, reader, hand, child, spawned, calls>>

\* Slip: the handshake has no deadline.
ExpireAnalysis ==
  /\ call.pc \in {"options", "search"}
  /\ Fail("StockfishWatchdogError")

\* The deadline of the handshake, of the options or of the search.
Expire ==
  /\ call.pc \in {"handshake", "options", "search"}
  /\ Fail("StockfishWatchdogError")

\* KeyboardInterrupt; start() turns it into a StockfishStartupError.
Interrupt ==
  /\ call.pc # "idle"
  /\ Fail(IF call.pc = "handshake" THEN "StockfishStartupError" ELSE "KeyboardInterrupt")

Close ==
  /\ call.pc = "idle" /\ process # 0
  /\ Terminate
  /\ UNCHANGED <<output, call, spawned, calls, answer>>

-----------------------------------------------------------------------------

Init ==
  /\ process = 0 /\ verified = FALSE
  /\ output = << >>
  /\ reader = [p \in Processes |-> "none"]
  /\ hand = [p \in Processes |-> Nothing]
  /\ child = [p \in Processes |-> NoChild]
  /\ call = Idle
  /\ spawned = 0 /\ calls = 0
  /\ answer = [kind |-> "none", request |-> NoRequest, lines |-> << >>]

\* What the engine's own thread does without being interrupted.
Work ==
  \/ EndsOld \/ Spawn \/ Configure \/ NoSearch \/ Rejected
  \/ Handshake \/ Ready \/ Info \/ Bestmove \/ StreamEnds \/ Expire

Next ==
  \/ \E r \in Requests \cup {NoRequest} : Call(r)
  \/ Work \/ Interrupt \/ Close
  \/ \E p \in Processes : Answers(p) \/ Searches(p) \/ Exits(p) \/ Reads(p) \/ Puts(p)

\* No reader outlives its join: the only one that reads is that of the child held.
ReadersEnd == \A p \in Processes : reader'[p] = "reading" => p = process'

Spec == Init /\ [][Next]_vars

\* The engine's thread runs and its deadlines pass; the child owes nothing.
FairSpec == Spec /\ WF_vars(Work)

-----------------------------------------------------------------------------

TypeOK ==
  /\ process \in 0..MaxProcesses /\ verified \in BOOLEAN
  /\ \A k \in DOMAIN output : output[k].from \in Processes
  /\ reader \in [Processes -> {"none", "reading", "ended"}]
  /\ \A p \in Processes : hand[p] = Nothing \/ hand[p].from = p
  /\ call.pc \in {"idle", "stopped", "started", "handshake", "options", "search"}
  /\ spawned \in 0..MaxProcesses /\ calls \in 0..MaxCalls
  /\ process <= spawned /\ (verified => process # 0)

\* No child can be given commands or be heard but the one held, and between
\* calls the one held has been verified: whatever ended the last call, a child
\* that outlived its kill among it, nothing left behind can be taken for a
\* process to work with.
OneVerifiedChild ==
  /\ \A p \in Processes : child[p].open => p = process
  /\ \A p \in Processes : child[p].commands # << >> => child[p].open
  /\ call.pc = "idle" /\ process # 0 => verified

\* Of a process that was replaced one line at most is heard in place of the
\* replacement's - what its reader held when it outlived its join - be it still
\* in the queue or already taken for a line of the search.
StraysAreFew ==
  LET Stray(line) == line.from # process /\ line.kind \notin {"end", "error"}
      Infos == call.infos
  IN  process # 0 =>
        /\ \A j, k \in DOMAIN output :
             Stray(output[j]) /\ Stray(output[k]) /\ output[j].from = output[k].from => j = k
        /\ \A j, k \in DOMAIN Infos :
             Stray(Infos[j]) /\ Stray(Infos[k]) /\ Infos[j].from = Infos[k].from => j = k
        /\ \A j \in DOMAIN output, k \in DOMAIN Infos :
             Stray(output[j]) /\ Stray(Infos[k]) => output[j].from # Infos[k].from

\* Where no reader outlives its join: a result holds exactly the lines asked
\* for, each one sent by a process for this very request, nothing of an earlier
\* search of the same process.
ResultIsOwn ==
  answer.kind = "result" =>
    /\ DOMAIN answer.lines = Expected(answer.request)
    /\ \A k \in DOMAIN answer.lines :
         answer.lines[k].request = answer.request /\ answer.lines[k].rank = k

\* A child that starts to search does so with the options of that request and
\* a hash cleared after every earlier search.
SearchesConfigured ==
  [][\A p \in Processes :
       child'[p].search # NoRequest /\ child[p].search = NoRequest
         => child[p].setup = child'[p].search]_vars

\* There, too, the queue a call reads holds nothing that comes from a process
\* other than the one it was made for: a healthy process is not stopped, and its
\* search not mixed up, for what a replaced one left behind.
ReplacementIsFresh ==
  \A k \in DOMAIN output :
    call.pc \in {"handshake", "options", "search"} => output[k].from = process

\* Malformed or incomplete data is a StockfishProtocolError.
MalformedIsProtocolError ==
  [][call.pc = "search" /\ Takes({"info"}) /\ Head(output).form = "malformed"
       /\ call'.pc = "idle" /\ output' = output /\ answer'.kind \notin {"StockfishWatchdogError", "KeyboardInterrupt"}
     => answer'.kind = "StockfishProtocolError"]_vars

\* A call ends, whatever the child does, closing its pipe apart.
CallsEnd == call.pc # "idle" ~> call.pc = "idle"
=============================================================================
