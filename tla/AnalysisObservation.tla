------------------------- MODULE AnalysisObservation -------------------------
(***************************************************************************)
(* AnalysisObservationRepository.read: what the analysis endpoint tells a  *)
(* polling client about one position while workers and requests go on.     *)
(*                                                                         *)
(* One observation is three SELECTs (the queue row, the header of the      *)
(* result, its lines) on a connection that opens no transaction: each sees *)
(* the database as it is then.  A publication replaces header and lines in *)
(* one transaction, so a result is named by the publication it came from:  *)
(* in results, the header and the lines of a position are one value.       *)
(***************************************************************************)
EXTENDS Naturals, Sequences

CONSTANTS
  Positions, Callers, Tokens, NoToken, StaleAfter, Horizon,  \* AnalysisQueue
  Readers   \* clients that observe, one position at a time

ASSUME ObservationAssumption ==
  /\ Positions \subseteq Nat \ {0}
  /\ NoToken \notin Tokens
  /\ StaleAfter \in Nat \ {0}
  /\ Horizon \in Nat

VARIABLES
  queue, results, claim,   \* see AnalysisQueue
  position,   \* position[r]: what r observes, or 0
  done,       \* done[r]: how many of its reads r has made
  queueState, \* queueState[r]: the state r read, "absent" without a row
  header,     \* header[r]: the result whose header r read
  lines,      \* lines[r]: the result whose lines r read
  shown,      \* history: the result r's last observation of the position showed
  idled       \* history: during r's reads the position was at rest at least once

qvars == <<queue, results, claim>>
rvars == <<position, done, queueState, header, lines>>

hvars == <<shown, idled>>

vars == <<qvars, rvars, hvars>>

Q == INSTANCE AnalysisQueue

-----------------------------------------------------------------------------

\* Slip: the result is read before the queue.
ReadOrderResultFirst == <<"header", "lines", "queue">>

ReadOrder == <<"queue", "header", "lines">>

Finished(r) == position[r] # 0 /\ done[r] = Len(ReadOrder)

Reading(r) == position[r] # 0 /\ done[r] < Len(ReadOrder)

\* Slip: the lines are read whether there is a header or not.
LinesAlways(r, p) == results[p]

\* Without a header the lines are not read.
Lines(r, p) == IF header[r] = Q!NoResult THEN Q!NoResult ELSE results[p]

\* Neither requested nor analyzed.
AtRest(p) == ~Q!Live(queue[p]) /\ results[p] = Q!NoResult

Begin(r, p) ==
  /\ ~Reading(r)
  /\ position' = [position EXCEPT ![r] = p]
  /\ done' = [done EXCEPT ![r] = 0]
  /\ queueState' = [queueState EXCEPT ![r] = "absent"]
  /\ header' = [header EXCEPT ![r] = Q!NoResult]
  /\ lines' = [lines EXCEPT ![r] = Q!NoResult]
  /\ shown' = [shown EXCEPT
                 ![r] = IF position[r] = p THEN header[r] ELSE Q!NoResult]
  /\ idled' = [idled EXCEPT ![r] = AtRest(p)]
  /\ UNCHANGED qvars

Read(r) ==
  LET p == position[r]
      next == ReadOrder[done[r] + 1]
  IN
  /\ Reading(r)
  /\ done' = [done EXCEPT ![r] = @ + 1]
  /\ queueState' = [queueState EXCEPT
                      ![r] = IF next = "queue" THEN queue[p].state ELSE @]
  /\ header' = [header EXCEPT ![r] = IF next = "header" THEN results[p] ELSE @]
  /\ lines' = [lines EXCEPT ![r] = IF next = "lines" THEN Lines(r, p) ELSE @]
  /\ UNCHANGED <<qvars, position, hvars>>

\* Any step of the queue and its users.
Environment ==
  /\ Q!Next
  /\ idled' = [r \in Readers |->
                 \/ idled[r]
                 \/ Reading(r) /\ queue'[position[r]].state = "absent"
                               /\ results'[position[r]] = Q!NoResult]
  /\ UNCHANGED <<rvars, shown>>

Init ==
  /\ Q!Init
  /\ position = [r \in Readers |-> 0]
  /\ done = [r \in Readers |-> 0]
  /\ queueState = [r \in Readers |-> "absent"]
  /\ header = [r \in Readers |-> Q!NoResult]
  /\ lines = [r \in Readers |-> Q!NoResult]
  /\ shown = [r \in Readers |-> Q!NoResult]
  /\ idled = [r \in Readers |-> FALSE]

Next ==
  \/ \E r \in Readers : Read(r) \/ \E p \in Positions : Begin(r, p)
  \/ Environment

Spec == Init /\ [][Next]_vars

-----------------------------------------------------------------------------
(* What the observation says. *)

\* _analysis_state: a live row goes before the result.
State(r) ==
  CASE queueState[r] # "absent"  -> queueState[r]
    [] header[r] # Q!NoResult    -> "ready"
    [] OTHER                     -> "not_requested"

-----------------------------------------------------------------------------
(* Properties. *)

\* Positions, stages and results are what they should be.
TypeOK ==
  /\ Q!TypeOK
  /\ position \in [Readers -> Positions \cup {0}]
  /\ done \in [Readers -> 0..Len(ReadOrder)]
  /\ queueState \in [Readers -> {"absent", "queued", "running"}]
  /\ header \in [Readers -> Q!Result \cup {Q!NoResult}]
  /\ lines \in [Readers -> Q!Result \cup {Q!NoResult}]
  /\ \A r \in Readers : lines[r] # Q!NoResult => header[r] # Q!NoResult

\* The work that completes between two reads is never overlooked: a client is
\* told "not requested" only of a position that was neither requested nor
\* analyzed at some moment of the observation.
NotRequestedWasTrue ==
  \A r \in Readers :
    Finished(r) /\ State(r) = "not_requested" => idled[r]

\* A client that polls never sees its answer get worse: a request satisfied by
\* what one observation showed is satisfied by what the next one shows.
ObservationsNeverWorsen ==
  \A r \in Readers, q \in Q!Quality :
    Finished(r) /\ Q!Satisfies(shown[r], q) => Q!Satisfies(header[r], q)

\* "Read one complete current result": the lines shown belong to the result
\* whose header is shown.
ShowsOneResult ==
  \A r \in Readers : Finished(r) => lines[r] = header[r]

\* What a client that polls may rely on, although each observation is several reads:
\* "not requested" was true at some moment, and its answers never get worse.
ObservationsAreTrue == TypeOK /\ NotRequestedWasTrue /\ ObservationsNeverWorsen

=============================================================================
