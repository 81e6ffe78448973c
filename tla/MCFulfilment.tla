---------------------------- MODULE MCFulfilment ----------------------------
(* One order of one item, with two refunds and a shipment.                 *)
EXTENDS Fulfilment, TLC

CONSTANTS shopper, seller, v1, b1, o1, r1, r2, f1, f2, s1

MCBrandOf  == v1 :> b1
MCOwnerOf  == b1 :> seller
MCStock    == v1 :> 1
MCPrice    == v1 :> 2
Symmetries == Permutations({r1, r2}) \cup Permutations({f1, f2})
=============================================================================
