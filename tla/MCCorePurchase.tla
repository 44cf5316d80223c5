--------------------------- MODULE MCCorePurchase ---------------------------
(* Instances of CorePurchase for TLC.                                      *)
EXTENDS CorePurchase, TLC

CONSTANTS a, b, w, i, j, alice, bob

\* Alice and Bob claim one payment, and Alice makes another one which she claims
\* with a wrong amount.
RivalPayment == [m \in Msg |-> IF m = w THEN j ELSE i]
RivalFrom == [m \in Msg |-> IF m = b THEN bob ELSE alice]
AllButWrong == Msg \ {w}

\* Two payments of Alice.
RowPayment == [m \in Msg |-> IF m = a THEN i ELSE j]
RowFrom == [m \in Msg |-> alice]

\* No action names a call but by what it holds: which place it has is all one.
SlotSymmetry == Permutations(Slot)
=============================================================================
