---------------------------- MODULE MCBatchAnalysis ----------------------------
(* The two programs that analyse many positions: the batch of the earlier web   *)
(* service (BatchAnalysis) and the targets a bulk launch works through          *)
(* (BulkTargets), the latter without a limit and with one.  They share neither  *)
(* a database nor a process, so each behaviour is of one of them.               *)
EXTENDS BatchAnalysis, BulkTargets

VARIABLE part   \* whose behaviour it is

\* Games that share positions, one too long for MaxPly.
MCVariants == {<<1, 2>>, <<1, 4, 3>>, <<3>>}

MCRoutes == {<<2, 4>>}

MCTechnical == <<3>>

\* One import, or two of the same game while there is no other.
MCInit ==
  /\ Init /\ TargetInit
  /\ part \in {"batch", "targets"}
  /\ part = "batch" => game = [g \in Games |-> << >>]

MCNext ==
  \/ part = "batch" /\ Next /\ UNCHANGED <<part, targeting>>
  \/ /\ part = "targets" /\ TargetNext /\ UNCHANGED <<part, vars>>
     /\ imports' <= 1 \/ \E g \in Games : game'[g] = << >>

mcvars == <<part, vars, targeting>>

\* The fairness of the two modules.
MCSpec ==
  /\ MCInit /\ [][MCNext]_mcvars
  /\ WF_mcvars(part = "batch" /\ Coordinate /\ UNCHANGED <<part, targeting>>)
  /\ \A t \in Slots : WF_mcvars(part = "batch" /\ Analyse(t) /\ UNCHANGED <<part, targeting>>)
  /\ WF_mcvars(part = "targets" /\ Iterate /\ UNCHANGED <<part, vars>>)

\* Both come to an end: the batch, interrupted or not, whatever fails (runner.py:239);
\* and the launch, which offers no position again that did not fall meanwhile
\* (targets.py:133, 152).
BothEnd ==
  /\ part = "batch" => BatchEnds
  /\ part = "targets" => IterationEnds
  /\ RepeatedOnlyByFalling

===============================================================================
