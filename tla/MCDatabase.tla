------------------------------ MODULE MCDatabase ------------------------------
(***************************************************************************)
(* A finite instance of Database.                                          *)
(***************************************************************************)
EXTENDS Database

\* Three commits, each with contents of its own but for one file that the second
\* leaves unchanged; the last has a file that does not parse.
MCContent == [n \in 1..3 |-> [f \in 1..3 |-> IF f = 2 /\ n = 2 THEN <<1, 2>> ELSE <<n, f>>]]
MCRejected == {<<3, 1>>}

=============================================================================
