----------------------------- MODULE MCSessions -----------------------------
(* The founding administrator and a user who signs up.                     *)
EXTENDS Sessions, TLC

CONSTANTS founder, user, t1, t2, k1, r1, r2

Symmetries == Permutations({t1, t2}) \cup Permutations({r1, r2})
=============================================================================
