------------------------------ MODULE Payouts ------------------------------
(***************************************************************************)
(* Withdrawals of one recipient's released earnings: the connected account,*)
(* the balance computed from three sums, the payout and its Stripe call,   *)
(* and the payout webhook under its Redis lock (src/payouts,               *)
(* src/payments/services/connect.service.ts).  Recipients share nothing.   *)
(*                                                                         *)
(* A handler holds a slot and takes one step per awaited call.  Stripe     *)
(* sends an event any number of times and in any order; an answer of its   *)
(* may be lost after it accepted a payout.                                 *)
(***************************************************************************)
EXTENDS Integers, FiniteSetsExt

CONSTANTS
  Payouts,
  Requests,      \* handlers in flight at the same time
  Returns,       \* outcomes that return the money: FAILED, CANCELED
  Split,         \* amount of one released split
  Minimum,       \* payouts.minimumAmount
  MaxEarned,     \* bound on the released earnings
  MaxFaults      \* bound on deaths, lost answers, database errors and expired locks

ASSUME PayoutConstants ==
  /\ IsFiniteSet(Payouts) /\ "free" \notin Requests
  /\ Returns \subseteq {"FAILED", "CANCELED"}
  /\ Split \in Nat \ {0} /\ Minimum \in Nat \ {0} /\ MaxEarned \in Nat /\ MaxFaults \in Nat

VARIABLES
  earned,      \* sum of the recipient's RELEASED splits
  connected,   \* connected_accounts.status of the recipient, or none
  payout,      \* payouts: status, amount, whether stripePayoutId is set
  bank,        \* what Stripe makes of the payout
  booked,      \* transactions of type PAYOUT: minus one for a withdrawal, plus one for a return
  emitted, recorded,   \* payout events sent by Stripe, and in webhook_events
  lock,        \* Redis key of an event
  request,     \* the handler in each slot
  overlapped,  \* history: two withdrawals weighed the balance at once, or a payout
               \*   changed its status between two sums of one balance
  misjudged,   \* history: payouts marked FAILED that Stripe had accepted
  upset,       \* history: payouts whose handler was interrupted or outlived its lock,
               \*   with an event that came before stripePayoutId, or after a later one
  faults

money   == <<earned, bank, emitted>>
books   == <<payout, booked>>
hook    == <<recorded, lock>>
history == <<overlapped, misjudged, upset, faults>>
vars    == <<connected, money, books, hook, request, history>>

\* IN_TRANSIT is told apart from PENDING by no code: PENDING stands for both.
Live     == {"PENDING", "PAID"}
Statuses == Live \cup {"FAILED", "CANCELED"}
Accounts == {"PENDING", "ACTIVE"}   \* RESTRICTED withdraws no more than PENDING
Outcomes == {"PAID"} \cup Returns
Events   == Payouts \X Outcomes
Nothing  == [status |-> "none"]
Row      == [status: Statuses, amount: 1..MaxEarned, linked: BOOLEAN]

Idle     == [pc |-> "idle"]
Sum      == Nat \cup {-1}           \* -1: not summed yet
Weighing == [pc: {"balance"}, pending: Sum, paid: Sum]
Paying   == [pc: {"stripe", "update", "book", "fail"}, payout: Payouts]
Hooking  == [pc: {"hook.read", "hook.write", "hook.return", "hook.record"}, event: Events]

TypeOK ==
  /\ earned \in 0..MaxEarned /\ connected \in Accounts \cup {"none"}
  /\ payout \in [Payouts -> {Nothing} \cup Row]
  /\ bank \in [Payouts -> {"none", "created"} \cup Outcomes] /\ booked \in [Payouts -> Int]
  /\ emitted \subseteq Events /\ recorded \subseteq emitted
  /\ lock \in [Events -> Requests \cup {"free"}]
  /\ request \in [Requests -> {Idle} \cup Weighing \cup Paying \cup Hooking]
  /\ overlapped \in BOOLEAN /\ misjudged \subseteq Payouts /\ upset \subseteq Payouts
  /\ faults \in 0..MaxFaults

Init ==
  /\ earned = 0 /\ connected = "none"
  /\ payout = [p \in Payouts |-> Nothing] /\ bank = [p \in Payouts |-> "none"]
  /\ booked = [p \in Payouts |-> 0]
  /\ emitted = {} /\ recorded = {} /\ lock = [e \in Events |-> "free"]
  /\ request = [r \in Requests |-> Idle]
  /\ overlapped = FALSE /\ misjudged = {} /\ upset = {} /\ faults = 0

---------------------------------------------------------------------------
Start(r, req) == request[r] = Idle /\ request' = [request EXCEPT ![r] = req]
At(r, pc)     == request[r].pc = pc
Goto(r, pc)   == request' = [request EXCEPT ![r].pc = pc]
Finish(r)     == request' = [request EXCEPT ![r] = Idle]
Fault         == faults < MaxFaults /\ faults' = faults + 1                \* bound
SameHistory   == UNCHANGED history

Of(e) == e[1]
Amount(ps)   == MapThenSumSet(LAMBDA p : payout[p].amount, ps)
Having(S)    == {p \in Payouts : payout[p].status \in S}
HalfWay(r)   == At(r, "balance") /\ (request[r].pending >= 0) # (request[r].paid >= 0)
SetStatus(p, s) ==
  /\ payout' = [payout EXCEPT ![p].status = s]
  /\ overlapped' = (overlapped \/ \E r \in Requests : HalfWay(r))

---------------------------------------------------------------------------
(* PaymentsService.release adds to what the recipient has earned.          *)
Earn ==
  /\ earned + Split <= MaxEarned                                          \* bound
  /\ earned' = earned + Split
  /\ UNCHANGED <<connected, bank, emitted, books, hook, request, history>>

(* ConnectService.onboard and syncFromStripeAccount: account.updated events*)
(* come in any order, so any status may be written once there is a row.    *)
Onboard ==
  /\ connected = "none"
  /\ connected' = "PENDING"
  /\ UNCHANGED <<money, books, hook, request, history>>

SyncFromStripeAccount(s) ==
  /\ connected \notin {"none", s}
  /\ connected' = s
  /\ UNCHANGED <<money, books, hook, request, history>>

---------------------------------------------------------------------------
(* PayoutsService.withdraw                                                 *)
WithdrawBegin(r) ==
  /\ connected = "ACTIVE"
  /\ Start(r, [pc |-> "balance", pending |-> -1, paid |-> -1])
  /\ overlapped' = (overlapped \/ \E s \in Requests : At(s, "balance"))
  /\ UNCHANGED <<connected, money, books, hook, misjudged, upset, faults>>

(* BalanceService.getBalance sends its aggregates together: each sees the  *)
(* payouts as they are when it runs.                                       *)
SumPending(r) ==
  /\ At(r, "balance") /\ request[r].pending < 0
  /\ request' = [request EXCEPT ![r].pending = Amount(Having({"PENDING"}))]
  /\ UNCHANGED <<connected, money, books, hook, history>>

SumPaid(r) ==
  /\ At(r, "balance") /\ request[r].paid < 0
  /\ request' = [request EXCEPT ![r].paid = Amount(Having({"PAID"}))]
  /\ UNCHANGED <<connected, money, books, hook, history>>

Available(r) == earned - request[r].pending - request[r].paid

\* Mutant: payouts still on their way are not subtracted.
AvailablePaid(r) == earned - request[r].paid

Withdrawable(r) == Available(r)

\* The sum of released splits only grows, so its own moment does not matter.
CreatePayout(r, p, a) ==
  /\ At(r, "balance") /\ request[r].pending >= 0 /\ request[r].paid >= 0
  /\ payout[p] = Nothing
  /\ a \in Minimum..Withdrawable(r)
  /\ payout' = [payout EXCEPT ![p] = [status |-> "PENDING", amount |-> a, linked |-> FALSE]]
  /\ request' = [request EXCEPT ![r] = [pc |-> "stripe", payout |-> p]]
  /\ UNCHANGED <<connected, money, booked, hook, history>>

Refused(r) ==
  /\ At(r, "balance") /\ request[r].pending >= 0 /\ request[r].paid >= 0
  /\ Withdrawable(r) < Minimum
  /\ Finish(r)
  /\ UNCHANGED <<connected, money, books, hook, history>>

StripeAccepts(r) ==
  /\ At(r, "stripe")
  /\ bank' = [bank EXCEPT ![request[r].payout] = "created"]
  /\ \/ Goto(r, "update") /\ UNCHANGED faults
     \/ Goto(r, "fail") /\ Fault                                     \* the answer is lost
  /\ UNCHANGED <<connected, earned, emitted, books, hook, overlapped, misjudged, upset>>

StripeDeclines(r) ==
  /\ At(r, "stripe")
  /\ Goto(r, "fail")
  /\ UNCHANGED <<connected, money, books, hook, history>>

\* Mutant: the status is stored as Stripe spells it.
StatusAsSent(s) == s

MapStripeStatus(s) == CASE s = "paid" -> "PAID" [] s = "failed" -> "FAILED" [] s = "canceled" -> "CANCELED"
                        [] OTHER -> "PENDING"

\* A new payout is pending or in_transit.
UpdatePayout(r) ==
  LET p == request[r].payout IN
  /\ At(r, "update")
  /\ payout' = [payout EXCEPT ![p].status = MapStripeStatus("pending"), ![p].linked = TRUE]
  /\ Goto(r, "book")
  /\ UNCHANGED <<connected, money, booked, hook, history>>

BookWithdrawal(r) ==
  /\ At(r, "book")
  /\ booked' = [booked EXCEPT ![request[r].payout] = @ - 1]
  /\ Finish(r)
  /\ UNCHANGED <<connected, money, payout, hook, history>>

\* An exception of either write lands in the catch clause.
Throw(r) ==
  /\ request[r].pc \in {"update", "book"} /\ Fault
  /\ Goto(r, "fail")
  /\ UNCHANGED <<connected, money, books, hook, overlapped, misjudged, upset>>

MarkFailed(r) ==
  LET p == request[r].payout IN
  /\ At(r, "fail")
  /\ SetStatus(p, "FAILED")
  /\ misjudged' = IF bank[p] = "none" THEN misjudged ELSE misjudged \cup {p}
  /\ Finish(r)
  /\ UNCHANGED <<connected, money, booked, hook, upset, faults>>

---------------------------------------------------------------------------
(* Stripe pays, fails or cancels a payout, or fails one it had paid.       *)
StripeSettles(p, s) ==
  /\ \/ bank[p] = "created" /\ s \in Outcomes
     \/ bank[p] = "PAID" /\ s \in Returns \ {"CANCELED"}
  /\ bank' = [bank EXCEPT ![p] = s]
  /\ emitted' = emitted \cup {<<p, s>>}
  /\ UNCHANGED <<earned, connected, books, hook, request, history>>

(* WebhookService.handle under RedisLockService.withLock: who finds the    *)
(* lock taken answers and does nothing, so only a holder matters.          *)
\* Mutant: the lock is not asked for.
HookUnlocked(r, e) ==
  /\ e \in emitted \ recorded
  /\ Start(r, [pc |-> "hook.read", event |-> e])
  /\ lock' = [lock EXCEPT ![e] = r]
  /\ UNCHANGED <<connected, money, books, recorded, history>>

HookBegin(r, e) ==
  /\ e \in emitted \ recorded /\ lock[e] = "free"
  /\ Start(r, [pc |-> "hook.read", event |-> e])
  /\ lock' = [lock EXCEPT ![e] = r]
  /\ UNCHANGED <<connected, money, books, recorded, history>>

(* WebhookService.updateStatus finds the payout by stripePayoutId          *)
HookRead(r) ==
  LET e == request[r].event IN
  /\ At(r, "hook.read")
  /\ IF payout[Of(e)].linked /\ payout[Of(e)].status # e[2] THEN Goto(r, "hook.write") ELSE Goto(r, "hook.record")
  /\ upset' = IF payout[Of(e)].linked THEN upset ELSE upset \cup {Of(e)}
  /\ UNCHANGED <<connected, money, books, hook, overlapped, misjudged, faults>>

HookWrite(r) ==
  LET e == request[r].event IN
  /\ At(r, "hook.write")
  /\ SetStatus(Of(e), e[2])
  /\ upset' = IF payout[Of(e)].status # "PENDING" /\ e[2] # bank[Of(e)]
              THEN upset \cup {Of(e)} ELSE upset
  /\ Goto(r, IF e[2] = "PAID" THEN "hook.record" ELSE "hook.return")
  /\ UNCHANGED <<connected, money, booked, hook, misjudged, faults>>

HookReturn(r) ==
  /\ At(r, "hook.return")
  /\ booked' = [booked EXCEPT ![Of(request[r].event)] = @ + 1]
  /\ Goto(r, "hook.record")
  /\ UNCHANGED <<connected, money, payout, hook, history>>

Unlock(r, e) == lock' = IF lock[e] = r THEN [lock EXCEPT ![e] = "free"] ELSE lock

HookRecord(r) ==
  LET e == request[r].event IN
  /\ At(r, "hook.record")
  /\ recorded' = recorded \cup {e}
  /\ Unlock(r, e) /\ Finish(r)
  /\ UNCHANGED <<connected, money, books, history>>

LockExpires(e) ==
  /\ lock[e] # "free" /\ Fault
  /\ lock' = [lock EXCEPT ![e] = "free"]
  /\ upset' = upset \cup {Of(e)}
  /\ UNCHANGED <<connected, money, books, recorded, request, overlapped, misjudged>>

---------------------------------------------------------------------------
(* The handler ends: an exception in the webhook, or the process's death.  *)
(* The lock it leaves is as good as free: while it lasts nothing happens.  *)
Touched(r) == CASE request[r] \in Paying  -> {request[r].payout}
                [] request[r] \in Hooking -> {Of(request[r].event)}
                [] OTHER -> {}
Die(r) ==
  /\ request[r] # Idle /\ Fault
  /\ upset' = upset \cup Touched(r)
  /\ lock' = [e \in Events |-> IF lock[e] = r THEN "free" ELSE lock[e]]
  /\ Finish(r)
  /\ UNCHANGED <<connected, money, books, recorded, overlapped, misjudged>>

Outside == \/ Earn \/ Onboard
           \/ \E s \in Accounts : SyncFromStripeAccount(s)
           \/ \E p \in Payouts, s \in Outcomes : StripeSettles(p, s)
           \/ \E e \in Events : LockExpires(e)
Withdraw(r) == \/ WithdrawBegin(r) \/ SumPending(r) \/ SumPaid(r) \/ Refused(r)
               \/ \E p \in Payouts, a \in 1..MaxEarned : CreatePayout(r, p, a)
               \/ StripeAccepts(r) \/ StripeDeclines(r)
               \/ UpdatePayout(r) \/ BookWithdrawal(r) \/ Throw(r) \/ MarkFailed(r)
Hook(r) == \/ HookRead(r) \/ HookWrite(r) \/ HookReturn(r) \/ HookRecord(r)
           \/ \E e \in Events : HookBegin(r, e)

Next == Outside \/ \E r \in Requests : Withdraw(r) \/ Hook(r) \/ Die(r)
Spec == Init /\ [][Next]_vars

---------------------------------------------------------------------------
(* Stripe never holds more of the recipient's payouts than was earned,     *)
(* unless two withdrawals weighed the balance at once, a payout changed    *)
(* from one sum to the other while a balance was being read, or a payout   *)
(* Stripe had accepted was marked FAILED, which returns its amount.  Late, *)
(* lost, repeated and reordered events never overdraw.                     *)
NeverOverdrawn ==
  Amount({p \in Payouts : bank[p] \in {"created", "PAID"}}) > earned
    => overlapped \/ misjudged # {}

(* When no handler works on a payout, its withdrawal is in the books       *)
(* exactly while it is live, and its status is Stripe's last word if that  *)
(* event was handled: unless a handler was interrupted, an event came      *)
(* before stripePayoutId was saved, or an older event came after a newer.  *)
BooksAgree ==
  \A p \in Payouts :
    (\A r \in Requests : p \notin Touched(r)) /\ p \notin upset \cup misjudged
      => /\ booked[p] = IF payout[p].status \in Live THEN -1 ELSE 0
         /\ <<p, bank[p]>> \in recorded => payout[p].status = bank[p]
=============================================================================
