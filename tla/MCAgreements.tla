---------------------------- MODULE MCAgreements -----------------------------
(* Deals, and the contract of one deal.  Only the contract's creation looks *)
(* at the deal, so a behaviour of one side says nothing of the other and   *)
(* each is explored alone.                                                 *)
EXTENDS Agreements, TLC

CONSTANTS a1, a2, p1, p2, p3, u1, u2, r1, r2

VARIABLE side   \* the part this behaviour is about

Symmetries == Permutations({a1, a2}) \cup Permutations({p1, p2, p3})
              \cup Permutations({u1, u2}) \cup Permutations({r1, r2})

BothInit == Init /\ ContractInit /\ side \in {"deals", "contracts"}
BothNext == /\ \/ side = "deals" /\ Next /\ UNCHANGED contractVars
               \/ side = "contracts" /\ ContractNext /\ UNCHANGED vars
            /\ UNCHANGED side
BothSpec == BothInit /\ [][BothNext]_<<vars, contractVars, side>>
=============================================================================
