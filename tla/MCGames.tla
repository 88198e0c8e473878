------------------------------- MODULE MCGames -------------------------------
(***************************************************************************)
(* A finite instance of GameLibrary: two games, one of them in two         *)
(* versions, on three positions.                                           *)
(***************************************************************************)
EXTENDS GameLibrary

CONSTANTS g1, g2, v1, v2, w1, a, b, c

\* The correction v2 of game g1 leaves position b and comes to c.
MCOccurrences ==
  [v \in {v1, v2, w1} |-> CASE v = v1 -> <<a, b>> [] v = v2 -> <<a, c>> [] v = w1 -> <<c, b>>]

\* The second batch has a game that is skipped, and a game twice.
MCBatches ==
  {<<[game |-> g1, version |-> v1], [game |-> g2, version |-> w1]>>,
   <<[game |-> g2, version |-> NoVersion], [game |-> g1, version |-> v1], [game |-> g1, version |-> v2]>>}

=============================================================================
