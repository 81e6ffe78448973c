---------------------------- MODULE AtLeastOnce ----------------------------
(***************************************************************************)
(* What the outbox promises (docs/adr/0002-domain-events-outbox.md, and    *)
(* the comments of src/events): a committed event reaches its handlers at  *)
(* least once, more often only when something disturbed it, and its row    *)
(* says how that ended.  There are no jobs, workers or polls here: Outbox  *)
(* implements this.                                                        *)
(***************************************************************************)
EXTENDS Naturals

CONSTANTS
  Events,
  Deliverable     \* the events somebody handles

VARIABLES
  status,       \* what the row says
  deliveries,   \* how often the event was delivered
  disturbed,    \* how often a fault or a replay concerned it
  ignored       \* events whose failure nobody recorded

vars == <<status, deliveries, disturbed, ignored>>

Init ==
  /\ status = [e \in Events |-> "none"]
  /\ deliveries = [e \in Events |-> 0] /\ disturbed = [e \in Events |-> 0]
  /\ ignored = {}

Committed(e) == status[e] # "none"
Hopeless(e)  == e \notin Deliverable \/ disturbed[e] > 0

Commit(e) ==
  /\ ~Committed(e)
  /\ status' = [status EXCEPT ![e] = "PENDING"]
  /\ UNCHANGED <<deliveries, disturbed, ignored>>

Disturb(e) ==
  /\ Committed(e)
  /\ disturbed' = [disturbed EXCEPT ![e] = @ + 1]
  /\ UNCHANGED <<status, deliveries, ignored>>

\* Once, and once more for every disturbance.
Deliver(e) ==
  /\ Committed(e) /\ e \in Deliverable
  /\ deliveries[e] <= disturbed[e]
  /\ deliveries' = [deliveries EXCEPT ![e] = @ + 1]
  /\ UNCHANGED <<status, disturbed, ignored>>

\* An administrator's replay delivers whatever was delivered before.
Replay(e) ==
  /\ Committed(e) /\ e \in Deliverable
  /\ deliveries' = [deliveries EXCEPT ![e] = @ + 1]
  /\ disturbed' = [disturbed EXCEPT ![e] = @ + 1]
  /\ UNCHANGED <<status, ignored>>

Settle(e) ==
  /\ deliveries[e] > 0
  /\ status' = [status EXCEPT ![e] = "PUBLISHED"]
  /\ UNCHANGED <<deliveries, disturbed, ignored>>

GiveUp(e) ==
  /\ Committed(e) /\ Hopeless(e)
  /\ status' = [status EXCEPT ![e] = "FAILED"]
  /\ UNCHANGED <<deliveries, disturbed, ignored>>

Ignore(e) ==
  /\ Committed(e) /\ Hopeless(e)
  /\ ignored' = ignored \cup {e}
  /\ UNCHANGED <<status, deliveries, disturbed>>

Next == \E e \in Events : \/ Commit(e) \/ Disturb(e) \/ Deliver(e) \/ Replay(e)
                          \/ Settle(e) \/ GiveUp(e) \/ Ignore(e)

\* A row that still says PENDING is not left alone unless it was ignored.
Progress(e) ==
  /\ status[e] = "PENDING" /\ e \notin ignored
  /\ \/ deliveries[e] = 0 /\ Deliver(e)
     \/ Settle(e) \/ GiveUp(e) \/ Ignore(e)

Spec     == Init /\ [][Next]_vars
FairSpec == Spec /\ \A e \in Events : WF_vars(Progress(e))
=============================================================================
