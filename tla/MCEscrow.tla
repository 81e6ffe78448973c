------------------------------ MODULE MCEscrow ------------------------------
(* One payment with every interleaving of two handlers.                    *)
EXTENDS Escrow, TLC

CONSTANTS p1, r1, r2

RequestSymmetry == Permutations({r1, r2})
=============================================================================
