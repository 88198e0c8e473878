--------------------------- MODULE AnalysisResults ---------------------------
(***************************************************************************)
(* The rules that decide which analysis result a position keeps and which  *)
(* requests a kept result already answers.  They live in two files of the  *)
(* code (analysis/repository.py and analysis/requests.py) that have to     *)
(* agree with each other.                                                  *)
(*                                                                         *)
(* A result is abstracted to its quality and to whether its configuration  *)
(* and engine versions are the ones this build writes ("current") or those *)
(* of an earlier build ("old").  Every result produced now is "current".   *)
(***************************************************************************)
EXTENDS Naturals

Quality == {"browser", "tool"}

Version == {"old", "current"}

Result == [quality : Quality, version : Version]

NoResult == [quality |-> "none", version |-> "none"]

Rank(q) == IF q = "browser" THEN 0 ELSE 1

\* The result an engine run at quality q produces.
Fresh(q) == [quality |-> q, version |-> "current"]

\* Slip: the versions of a result of the same quality are not compared.
NotSavedSameQuality(new, stored) ==
  /\ stored # NoResult
  /\ \/ stored.quality = "tool" /\ new.quality = "browser"
     \/ stored.quality = new.quality

\* Slip: only a duplicate is turned away.
NotSavedDuplicate(new, stored) == stored # NoResult /\ stored = new

\* A stored result wins over a new one of lower quality, and over a new one
\* that is the same analysis.
NotSaved(new, stored) ==
  /\ stored # NoResult
  /\ \/ stored.quality = "tool" /\ new.quality = "browser"
     \/ stored = new

Published(new, stored) == IF NotSaved(new, stored) THEN stored ELSE new

\* The stored result answers a request for quality q without new work.
Satisfies(stored, q) ==
  /\ stored # NoResult
  /\ \/ Rank(stored.quality) > Rank(q)
     \/ stored = Fresh(q)

=============================================================================
