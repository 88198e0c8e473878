------------------------- MODULE MCStockfishLaunches -------------------------
(* Instances of StockfishLaunches.  The constants name every process and        *)
(* position; a setting leaves some of the processes off and some positions      *)
(* unrequested, so that several small systems are checked in one run.           *)
EXTENDS StockfishLaunches, TLC

CONSTANTS w1, w2

VARIABLE setting

mcvars == <<vars, setting>>

\* Two workers, or a worker and the bulk launches: on every position with one
\* mishap, on one position with every combination of them.
MCInit ==
  /\ Init
  /\ \A p \in Positions \ {1} : results[p] = Q!NoResult
  /\ setting \in
       [idle : {Bulks} \cup {{w} : w \in Workers}, quiet : {{}}, served : {FALSE}, mishaps : {1}]
       \cup
       [idle : {Bulks} \cup {{w} : w \in Workers}, quiet : {Positions \ {1}}, served : {FALSE},
        mishaps : {MaxFaults + MaxInterrupts}]

\* One worker that is started again and again, for every position, or two
\* workers that need not be, for one position.
MCServedInit ==
  /\ Init
  /\ \A p \in Positions \ {1} : results[p] = Q!NoResult
  /\ setting \in {[idle |-> {w2}, quiet |-> {}, served |-> TRUE, mishaps |-> 1],
                  [idle |-> {}, quiet |-> Positions \ {1}, served |-> FALSE, mishaps |-> 2]}

InSetting ==
  /\ \A i \in setting.idle : pc'[i] = "off"
  /\ \A p \in setting.quiet : queue'[p] = Q!NoRow
  /\ faults' + interrupts' <= setting.mishaps
  /\ UNCHANGED setting

MCNext == Next /\ InSetting

MCSpec == MCInit /\ [][MCNext]_mcvars

\* FairSpec, and ServedSpec where the setting says so.
MCServedSpec ==
  /\ MCServedInit /\ [][MCNext]_mcvars
  /\ \A w \in Workers :
       /\ WF_mcvars(WorkerStep(w) /\ InSetting)
       /\ WF_mcvars(WorkerOpen(w) /\ InSetting /\ setting.served)
  /\ WF_mcvars(Tick /\ InSetting)

\* EveryRequestSettles: while worker launches keep being started, every request
\* is settled in the end, also one whose worker died on it.
ServedRequestsSettle == setting.served => EveryRequestSettles

Symmetry == Permutations(Tokens) \cup Permutations(Workers)

=============================================================================
