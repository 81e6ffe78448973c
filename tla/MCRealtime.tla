----------------------------- MODULE MCRealtime -----------------------------
(* Notifications and Messaging share no state, so a behaviour of one says  *)
(* nothing of the other: each is explored on a side of its own.            *)
EXTENDS Realtime, TLC

CONSTANTS n1, w1, w2, u1, u2, s1, s2, c1, c2, r1, r2
VARIABLE side

Symmetries == Permutations({w1, w2}) \cup Permutations({u1, u2}) \cup Permutations({s1, s2})
                \cup Permutations({c1, c2}) \cup Permutations({r1, r2})

Init == side \in {"notifications", "messaging"} /\ NotificationInit /\ MessagingInit
Next == /\ UNCHANGED side
        /\ \/ side = "notifications" /\ NotificationNext /\ UNCHANGED messagingVars
           \/ side = "messaging" /\ MessagingNext /\ UNCHANGED notificationVars
Spec == Init /\ [][Next]_<<side, notificationVars, messagingVars>>
=============================================================================
