----------------------------- MODULE MCPayouts ------------------------------
(* Two payouts of a recipient who earns twice.                             *)
EXTENDS Payouts, TLC

CONSTANTS p1, p2, r1, r2

Symmetries == Permutations({p1, p2}) \cup Permutations({r1, r2})
=============================================================================
