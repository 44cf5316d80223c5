--------------------------- MODULE MCPendingStore ---------------------------
(* Instances of PendingStore for TLC.                                      *)
EXTENDS PendingStore

CONSTANT c1

MCPaid == [i \in Id |-> i]

K(c, i, a) == [ctx |-> c, id |-> i, amount |-> a]

\* A customer sends the claim of her payment twice, and once a wrong amount.
OwnClaims == {K(c1, 1, 1), K(c1, 1, 2)}
OwnSent == [k \in Claims |-> IF k.amount = 1 THEN 2 ELSE 1]

MCReports == [i \in Id |-> 2]
=============================================================================
