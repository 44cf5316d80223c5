---------------------------- MODULE MCUssdQueue -----------------------------
(* Instances of UssdQueue for TLC.                                         *)
EXTENDS UssdQueue

\* The hardest case for the SMS that confirm transfers: every command goes to
\* one number, and only the amounts, paid and delivered, tell them apart.
SameDest == [n \in Cmd |-> 1]
DistinctAmounts == [n \in Cmd |-> {2 * n, 2 * n + 1}]
=============================================================================
