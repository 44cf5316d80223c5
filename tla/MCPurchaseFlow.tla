--------------------------- MODULE MCPurchaseFlow ---------------------------
(* Instances of PurchaseFlow for TLC.                                      *)
EXTENDS PurchaseFlow

CONSTANTS c1, c2, p1

\* Two payments of different amounts.
MCPaid == [i \in Id |-> i]

K(c, i, a, d) == [ctx |-> c, id |-> i, amount |-> a, dest |-> d]

\* c1 claims both payments, payment 2 without a number, and gets payment 1's
\* amount wrong in one text; c2 claims payment 1 too.
RivalClaims ==
  {K(c1, 1, 1, p1), K(c1, 1, 2, p1), K(c1, 2, 2, NoPhone), K(c2, 1, 1, p1)}

\* One customer, two transfers, both claimed rightly.
TwoTransfers == {K(c1, 1, 1, p1), K(c1, 2, 2, p1)}

\* Each payment is claimed by the customer who made it, rightly or with a
\* wrong amount or no id.
HonestClaims ==
  {K(c1, 1, 1, p1), K(c1, 1, 2, p1), K(c1, NoId, 1, p1),
   K(c1, 2, 2, NoPhone), K(c2, 3, 3, NoPhone)}
=============================================================================
