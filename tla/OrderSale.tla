----------------------------- MODULE OrderSale ------------------------------
(***************************************************************************)
(* What selling promises, whatever webhooks and sweeps it is made of: an   *)
(* order that is offered is either charged or dropped, never both; only    *)
(* what was charged is granted to the customer; and that is for good.      *)
(***************************************************************************)
CONSTANT Sale

VARIABLE stage

SaleInit == stage = [s \in Sale |-> "none"]

Becomes(s, from, to) ==
    /\ stage[s] = from
    /\ stage' = [stage EXCEPT ![s] = to]

Offer(s)  == Becomes(s, "none", "offered")
Charge(s) == Becomes(s, "offered", "charged")
Grant(s)  == Becomes(s, "charged", "granted")

\* Several offers can be dropped at once.
Drop(S) ==
    /\ \A s \in S : stage[s] = "offered"
    /\ stage' = [s \in Sale |-> IF s \in S THEN "dropped" ELSE stage[s]]

SaleNext ==
    \/ \E s \in Sale : Offer(s) \/ Charge(s) \/ Grant(s)
    \/ \E S \in SUBSET Sale : Drop(S)

SaleSpec == SaleInit /\ [][SaleNext]_stage
=============================================================================
