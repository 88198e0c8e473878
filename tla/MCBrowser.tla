------------------------------ MODULE MCBrowser ------------------------------
(***************************************************************************)
(* A finite instance of RepertoireBuilder.                                 *)
(***************************************************************************)
EXTENDS RepertoireBuilder

CONSTANTS e4, d4

\* One position with two counters, and another position.
MCFens == {[position |-> x[1], counters |-> x[2]] : x \in {<<"p", 0>>, <<"p", 1>>, <<"q", 0>>}}

MCView(at, source, selected, bottom) ==
  [at |-> at, source |-> source, selected |-> selected, own |-> TRUE, bottom |-> bottom]

\* The start position; the position after the move e4, concerned with the start
\* position; the same with the board flipped, concerned with itself.
MCViews ==
  {MCView("p", "p", NoMove, "white"), MCView("q", "p", e4, "white"), MCView("q", "q", NoMove, "black")}

=============================================================================
