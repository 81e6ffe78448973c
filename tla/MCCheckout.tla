----------------------------- MODULE MCCheckout -----------------------------
(* Two brands with one variant each; the owner of the first brand and one  *)
(* shopper.  See the README for the bounds.                                *)
EXTENDS Checkout, TLC

CONSTANTS shopper, seller, v1, v2, b1, b2, o1, o2, r1, r2

MCBrandOf  == v1 :> b1 @@ v2 :> b2
MCOwnerOf  == b1 :> seller @@ b2 :> seller
MCStock    == v1 :> 1 @@ v2 :> 1
MCAdjustments == {-1, 1}
RequestSymmetry == Permutations({r1, r2}) \cup Permutations({o1, o2})
=============================================================================
