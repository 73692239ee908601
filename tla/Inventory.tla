----------------------------- MODULE Inventory -----------------------------
(***************************************************************************)
(* What the services that move stock promise together: units are ordered,  *)
(* arrive once, and are sold at most once.  Nothing appears, vanishes or   *)
(* is counted twice on the way.                                            *)
(***************************************************************************)
EXTENDS Integers

CONSTANT Asins
VARIABLES outstanding,  \* units ordered and not delivered, per product
          onhand        \* units in stock, per product

vars == <<outstanding, onhand>>

Init == outstanding \in [Asins -> Nat] /\ onhand \in [Asins -> Nat]

(* What may happen to a product in one step; nothing at all is a Place of     *)
(* nothing.                                                                  *)
Place(a) == outstanding'[a] >= outstanding[a] /\ onhand'[a] = onhand[a]

Deliver(a) ==
  /\ outstanding'[a] <= outstanding[a]
  /\ onhand'[a] - onhand[a] = outstanding[a] - outstanding'[a]

Sell(a) ==
  /\ onhand'[a] \in 0..onhand[a]
  /\ outstanding'[a] = outstanding[a]

Step(a) == Place(a) \/ Deliver(a) \/ Sell(a)

Spec == Init /\ [][\A a \in Asins : Step(a)]_vars
=============================================================================
