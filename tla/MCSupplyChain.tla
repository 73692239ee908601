---- MODULE MCSupplyChain ----
(* Instances of SupplyChain.  A quantity of 2 at half rate is cut in two, a *)
(* quantity of 1 at half rate brings nothing; a supplier with no lead time  *)
(* and a variance below the base lead time would arrive at once or earlier. *)
EXTENDS SupplyChain
MCVariances == {-2, 1}
=============================================================================
