--------------------------- MODULE PaymentPromise ---------------------------
(***************************************************************************)
(* What the gateway promises about money, whatever it does inside: a       *)
(* delivery is ordered only for a claim a customer made, whose payment the *)
(* reseller's phone reported, with the claimed amount equal to the paid    *)
(* one, and a payment pays for one delivery at most.                       *)
(***************************************************************************)
EXTENDS Naturals, Sequences

CONSTANTS
  Paid   \* Paid[i]: the amount received with payment i

VARIABLES
  claimed,   \* claims customers made
  reported,  \* payments reported by the reseller's phone
  bought     \* the claims that got a delivery, in order

promiseVars == <<claimed, reported, bought>>

PromiseInit == claimed = {} /\ reported = {} /\ bought = <<>>

\* Claim k gets its delivery; its evidence may arrive in the same step.
Buy(k) ==
  /\ k \in claimed'
  /\ k.id \in reported'
  /\ k.amount = Paid[k.id]
  /\ \A n \in DOMAIN bought : bought[n].id # k.id
  /\ bought' = Append(bought, k)

PromiseNext ==
  /\ claimed \subseteq claimed'
  /\ reported \subseteq reported'
  /\ bought' = bought \/ \E k \in claimed' : Buy(k)

PromiseSpec == PromiseInit /\ [][PromiseNext]_promiseVars
=============================================================================
