--------------------------- MODULE AnalysisService ---------------------------
(***************************************************************************)
(* What the analysis queue promises to the program, without rows, tokens,  *)
(* ages or tickets: each position is wanted at some quality or not at all, *)
(* is worked on by at most one worker at a quality fixed when the work     *)
(* began, and keeps the best result it was ever given.                     *)
(***************************************************************************)
EXTENDS AnalysisResults

CONSTANT Positions

VARIABLES
  wanted,   \* wanted[p]: the quality asked for, or "none"
  active,   \* active[p]: the quality being worked on, or "none"
  results   \* results[p]: the stored result, or NoResult

vars == <<wanted, active, results>>

\* q, raised by what is wanted already.
Raised(old, q) == IF old # "none" /\ Rank(old) > Rank(q) THEN old ELSE q

\* new answers every request that old answers.
AtLeast(new, old) ==
  \A q \in Quality : Satisfies(old, q) => Satisfies(new, q)

\* What remains wanted once work at the active quality is over.
Remaining(p) ==
  IF Rank(wanted[p]) > Rank(active[p]) THEN wanted[p] ELSE "none"

Ask(p, q) ==
  /\ wanted' = [wanted EXCEPT ![p] = Raised(@, q)]
  /\ UNCHANGED <<active, results>>

\* Work starts, or is taken over, at the quality wanted now.
Begin(p) ==
  /\ wanted[p] # "none"
  /\ active' = [active EXCEPT ![p] = wanted[p]]
  /\ UNCHANGED <<wanted, results>>

\* The worker stops without an answer; the request stays.
Abandon(p) ==
  /\ active[p] # "none"
  /\ active' = [active EXCEPT ![p] = "none"]
  /\ UNCHANGED <<wanted, results>>

\* The worker tried and failed: the request it was working on is dropped.
GiveUp(p) ==
  /\ active[p] # "none"
  /\ wanted' = [wanted EXCEPT ![p] = Remaining(p)]
  /\ active' = [active EXCEPT ![p] = "none"]
  /\ UNCHANGED results

Finish(p) ==
  /\ active[p] # "none"
  /\ wanted' = [wanted EXCEPT ![p] = Remaining(p)]
  /\ active' = [active EXCEPT ![p] = "none"]
  /\ \E r \in Result :
       /\ AtLeast(r, results[p]) /\ Satisfies(r, active[p])
       /\ results' = [results EXCEPT ![p] = r]

\* A result arrives from elsewhere.
Supply(p) ==
  /\ \E r \in Result :
       /\ AtLeast(r, results[p])
       /\ results' = [results EXCEPT ![p] = r]
  /\ UNCHANGED <<wanted, active>>

Init ==
  /\ wanted = [p \in Positions |-> "none"]
  /\ active = [p \in Positions |-> "none"]
  /\ results \in [Positions -> Result \cup {NoResult}]

Next ==
  \E p \in Positions :
    \/ \E q \in Quality : Ask(p, q)
    \/ Begin(p) \/ Abandon(p) \/ GiveUp(p) \/ Finish(p) \/ Supply(p)

Spec == Init /\ [][Next]_vars

=============================================================================
