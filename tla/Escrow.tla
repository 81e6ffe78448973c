------------------------------- MODULE Escrow -------------------------------
(***************************************************************************)
(* Payments held in escrow: creation of the Stripe intent and the payment  *)
(* row, the Stripe webhook with its Redis lock and its webhook_events      *)
(* record, the admin's release to the recipient and the refund             *)
(* (src/payments/services, src/common/locking).                            *)
(*                                                                         *)
(* As in Checkout, a handler holds a slot and takes one step per awaited   *)
(* call whose result, or whose effect, matters later; calls to Stripe are  *)
(* steps of their own, since no transaction covers them.  Stripe delivers  *)
(* an event any number of times, in any order, and the lock of an event    *)
(* may expire under its holder.  A payment is named by the order or deal   *)
(* it pays for: orderId and dealId are unique in the payments table.       *)
(***************************************************************************)
EXTENDS Integers, FiniteSets

CONSTANTS
  Payments,
  Requests,       \* handlers in flight at the same time
  MaxTransfers,   \* bound on the Stripe transfers made for one payment
  MaxPublished,   \* bound on the outbox rows written for one payment
  MaxFaults       \* bound on deaths and on locks that expire under a live holder

ASSUME EscrowConstants ==
  /\ MaxTransfers \in Nat /\ MaxPublished \in Nat /\ MaxFaults \in Nat
  /\ IsFiniteSet(Requests) /\ Requests \cap {"free", "dead"} = {}

VARIABLES
  subject,      \* the order or deal: open to payment, fulfilled, or neither
  status,       \* payments.status
  split,        \* status of the platform-fee split and the recipient's share
  stripe,       \* what Stripe did: charge, number of transfers, refund
  published,    \* number of PaymentSucceeded rows written to the outbox
  books,        \* rows of transactions, by type
  emitted, recorded, acked,   \* events sent by Stripe, in webhook_events, answered 200
  lock,         \* Redis key of an event: free, its holder, or a dead holder
  request,      \* the handler in each slot
  delivered,    \* history: payments whose subject has been fulfilled
  lost,         \* history: transactions rows a death kept from being written
  untold,       \* history: payments moved at Stripe by a handler that died next
  overlapped,   \* history: payments with two releases or refunds at once
  crossed,      \* history: payments marked SUCCEEDED while a failure was being written
  forsaken,     \* history: events whose handler died before recording them
  expired,      \* history: events whose lock expired under a live holder
  faults        \* number of such deaths and expiries so far

rowVars   == <<status, split>>
hookVars  == <<emitted, recorded, acked, lock>>
history   == <<lost, untold, overlapped, crossed, forsaken, expired, faults>>
vars      == <<subject, rowVars, stripe, published, books, hookVars, request, delivered, history>>

Events   == Payments \X {"succeeded", "failed"}
Statuses == {"REQUIRES_PAYMENT", "SUCCEEDED", "FAILED", "REFUNDED"}
Splits   == {"fee", "share"}
Rows     == {"CHARGE", "TRANSFER", "REFUND"}

Idle == [pc |-> "idle"]
HookRequest    == [pc: {"hook.lock", "hook.check", "hook.read", "hook.record",
                        "succ.write", "succ.charge", "fail.write"}, event: Events]
PaymentRequest == [pc: {"create.row", "refund.stripe", "refund.write", "refund.record"},
                   payment: Payments]
ReleaseRequest == [pc: {"release.check", "release", "release.write", "release.record"},
                   payment: Payments, todo: SUBSET Splits]

TypeOK ==
  /\ subject \in [Payments -> {"open", "fulfilled", "other"}]
  /\ status \in [Payments -> Statuses \cup {"none"}]
  /\ split \in [Payments -> [Splits -> {"PENDING", "RELEASED", "REFUNDED"}]]
  /\ stripe \in [Payments -> [charged: BOOLEAN, transfers: Nat, refunded: BOOLEAN]]
  /\ published \in [Payments -> Nat] /\ books \in [Payments -> [Rows -> Nat]]
  /\ emitted \subseteq Events /\ recorded \subseteq Events /\ acked \subseteq Events
  /\ lock \in [Events -> Requests \cup {"free", "dead"}]
  /\ request \in [Requests -> {Idle} \cup HookRequest \cup PaymentRequest \cup ReleaseRequest]
  /\ delivered \subseteq Payments /\ untold \subseteq Payments
  /\ overlapped \subseteq Payments /\ crossed \subseteq Payments
  /\ lost \in [Payments -> [Rows -> Nat]]
  /\ forsaken \subseteq Events /\ expired \subseteq Events /\ faults \in 0..MaxFaults

NoRows == [t \in Rows |-> 0]

Init ==
  /\ subject = [p \in Payments |-> "open"]
  /\ status = [p \in Payments |-> "none"]
  /\ split = [p \in Payments |-> [s \in Splits |-> "PENDING"]]
  /\ stripe = [p \in Payments |-> [charged |-> FALSE, transfers |-> 0, refunded |-> FALSE]]
  /\ published = [p \in Payments |-> 0] /\ books = [p \in Payments |-> NoRows]
  /\ emitted = {} /\ recorded = {} /\ acked = {}
  /\ lock = [e \in Events |-> "free"]
  /\ request = [r \in Requests |-> Idle]
  /\ delivered = {} /\ untold = {} /\ overlapped = {} /\ crossed = {}
  /\ lost = [p \in Payments |-> NoRows]
  /\ forsaken = {} /\ expired = {} /\ faults = 0

---------------------------------------------------------------------------
Start(r, req) == request[r] = Idle /\ request' = [request EXCEPT ![r] = req]
At(r, pc)     == request[r].pc = pc
Goto(r, pc)   == request' = [request EXCEPT ![r].pc = pc]
Finish(r)     == request' = [request EXCEPT ![r] = Idle]
Event(p, k)   == <<p, k>>
Of(e)         == e[1]

InRelease(r, p) == request[r] \in ReleaseRequest /\ request[r].payment = p
InRefund(r, p)  == request[r] \in PaymentRequest /\ request[r].payment = p /\ ~At(r, "create.row")
Overlap(p) == overlapped' = IF \E r \in Requests : InRelease(r, p) \/ InRefund(r, p)
                            THEN overlapped \cup {p} ELSE overlapped
Book(p, t) == books' = [books EXCEPT ![p][t] = @ + 1]

SameRows   == UNCHANGED <<subject, rowVars, delivered>>
SameMoney  == UNCHANGED <<stripe, published, books>>
SameHook   == UNCHANGED hookVars

---------------------------------------------------------------------------
(* The order or deal moves on under the payment: paid, fulfilled,          *)
(* completed, cancelled, refunded.  Only its creation leaves it open.      *)
SubjectMoves(p, s) ==
  /\ s \in {"fulfilled", "other"} \ {subject[p]}
  /\ subject' = [subject EXCEPT ![p] = s]
  /\ delivered' = IF s = "fulfilled" THEN delivered \cup {p} ELSE delivered
  /\ UNCHANGED <<rowVars, request, history>> /\ SameMoney /\ SameHook

(* Stripe declines a card any time before it charges one, and sends the    *)
(* event; the customer may pay at any time once the payment row exists.    *)
StripeDeclines(p) ==
  /\ status[p] # "none" /\ ~stripe[p].charged
  /\ emitted' = emitted \cup {Event(p, "failed")}
  /\ UNCHANGED <<recorded, acked, lock, request, history>> /\ SameRows /\ SameMoney

StripeCharges(p) ==
  /\ status[p] # "none" /\ ~stripe[p].charged
  /\ stripe' = [stripe EXCEPT ![p].charged = TRUE]
  /\ emitted' = emitted \cup {Event(p, "succeeded")}
  /\ UNCHANGED <<published, books, recorded, acked, lock, request, history>> /\ SameRows

---------------------------------------------------------------------------
(* PaymentsService.createForOrder, createForDeal and createPayment.  The   *)
(* intent of a request that loses the race for the row is never charged:   *)
(* its client secret is not returned.                                      *)
CreateBegin(r, p) ==
  /\ subject[p] = "open" /\ status[p] = "none"
  /\ Start(r, [pc |-> "create.row", payment |-> p])
  /\ UNCHANGED history /\ SameRows /\ SameMoney /\ SameHook

CreateRow(r) ==
  LET p == request[r].payment IN
  /\ At(r, "create.row")
  /\ status' = IF status[p] = "none" THEN [status EXCEPT ![p] = "REQUIRES_PAYMENT"] ELSE status
  /\ Finish(r)
  /\ UNCHANGED <<subject, split, delivered, history>> /\ SameMoney /\ SameHook

---------------------------------------------------------------------------
(* WebhookService.handle under RedisLockService.withLock                   *)
Ack(e)      == acked' = acked \cup {e}
FreeLock(r, e) == lock' = IF lock[e] = r THEN [lock EXCEPT ![e] = "free"] ELSE lock

HookReplay(e) ==
  /\ e \in recorded
  /\ Ack(e)
  /\ UNCHANGED <<emitted, recorded, lock, request, history>> /\ SameRows /\ SameMoney

HookBegin(r, e) ==
  /\ e \in emitted \ recorded
  /\ Start(r, [pc |-> "hook.lock", event |-> e])
  /\ UNCHANGED history /\ SameRows /\ SameMoney /\ SameHook

\* An event someone else is working on is answered 200 and skipped.
HookLock(r) ==
  LET e == request[r].event IN
  /\ At(r, "hook.lock")
  /\ IF lock[e] = "free"
     THEN lock' = [lock EXCEPT ![e] = r] /\ Goto(r, "hook.check") /\ UNCHANGED acked
     ELSE Ack(e) /\ Finish(r) /\ UNCHANGED lock
  /\ UNCHANGED <<emitted, recorded, history>> /\ SameRows /\ SameMoney

HookCheck(r) ==
  LET e == request[r].event IN
  /\ At(r, "hook.check")
  /\ IF e \in recorded
     THEN Ack(e) /\ FreeLock(r, e) /\ Finish(r)
     ELSE Goto(r, "hook.read") /\ UNCHANGED <<acked, lock>>
  /\ UNCHANGED <<emitted, recorded, history>> /\ SameRows /\ SameMoney

\* Mutant: an event is applied to a payment that has already succeeded.
HookReadBlind(r) ==
  LET e == request[r].event IN
  /\ At(r, "hook.read")
  /\ Goto(r, IF e[2] = "succeeded" THEN "succ.write" ELSE "fail.write")
  /\ UNCHANGED history /\ SameRows /\ SameMoney /\ SameHook

HookRead(r) ==
  LET e == request[r].event IN
  /\ At(r, "hook.read")
  /\ Goto(r, IF status[Of(e)] = "SUCCEEDED" THEN "hook.record"
             ELSE IF e[2] = "succeeded" THEN "succ.write" ELSE "fail.write")
  /\ UNCHANGED history /\ SameRows /\ SameMoney /\ SameHook

\* The status and the outbox row are one transaction.
SucceededWrite(r) ==
  LET p == Of(request[r].event) IN
  /\ At(r, "succ.write")
  /\ published[p] < MaxPublished                                         \* bound
  /\ status' = [status EXCEPT ![p] = "SUCCEEDED"]
  /\ published' = [published EXCEPT ![p] = @ + 1]
  /\ crossed' = IF \E s \in Requests : At(s, "fail.write") /\ Of(request[s].event) = p
                THEN crossed \cup {p} ELSE crossed
  /\ Goto(r, "succ.charge")
  /\ UNCHANGED <<subject, split, stripe, books, delivered, lost, untold, overlapped, forsaken, expired, faults>>
  /\ SameHook

SucceededCharge(r) ==
  /\ At(r, "succ.charge")
  /\ Book(Of(request[r].event), "CHARGE")
  /\ Goto(r, "hook.record")
  /\ UNCHANGED <<stripe, published, history>> /\ SameRows /\ SameHook

\* Mutant: another status of the enum.
FailedWriteCancels(r) ==
  /\ At(r, "fail.write")
  /\ status' = [status EXCEPT ![Of(request[r].event)] = "CANCELLED"]
  /\ Goto(r, "hook.record")
  /\ UNCHANGED <<subject, split, delivered, history>> /\ SameMoney /\ SameHook

FailedWrite(r) ==
  /\ At(r, "fail.write")
  /\ status' = [status EXCEPT ![Of(request[r].event)] = "FAILED"]
  /\ Goto(r, "hook.record")
  /\ UNCHANGED <<subject, split, delivered, history>> /\ SameMoney /\ SameHook

\* A second record of the same event violates its unique key: no answer 200.
HookRecord(r) ==
  LET e == request[r].event IN
  /\ At(r, "hook.record")
  /\ IF e \in recorded THEN UNCHANGED <<recorded, acked>> ELSE recorded' = recorded \cup {e} /\ Ack(e)
  /\ FreeLock(r, e)
  /\ Finish(r)
  /\ UNCHANGED <<emitted, history>> /\ SameRows /\ SameMoney

LockExpires(e) ==
  /\ lock[e] # "free"
  /\ lock' = [lock EXCEPT ![e] = "free"]
  /\ IF lock[e] \in Requests
     THEN faults < MaxFaults /\ faults' = faults + 1 /\ expired' = expired \cup {e}   \* bound
     ELSE UNCHANGED <<faults, expired>>
  /\ UNCHANGED <<emitted, recorded, acked, request, lost, untold, overlapped, crossed, forsaken>>
  /\ SameRows /\ SameMoney

---------------------------------------------------------------------------
(* PaymentsService.release: the splits are a snapshot, in no fixed order,  *)
(* and the transfer carries no idempotency key.                            *)
ReleaseBegin(r, p) ==
  /\ status[p] = "SUCCEEDED"
  /\ Start(r, [pc |-> "release.check", payment |-> p,
               todo |-> {s \in Splits : split[p][s] = "PENDING"}])
  /\ Overlap(p)
  /\ UNCHANGED <<lost, untold, crossed, forsaken, expired, faults>> /\ SameRows /\ SameMoney /\ SameHook

\* Mutant: assertFulfilled is not called.
ReleaseUnchecked(r) ==
  /\ At(r, "release.check")
  /\ Goto(r, "release")
  /\ UNCHANGED history /\ SameRows /\ SameMoney /\ SameHook

ReleaseCheck(r) ==
  /\ At(r, "release.check")
  /\ IF subject[request[r].payment] = "fulfilled" THEN Goto(r, "release") ELSE Finish(r)
  /\ UNCHANGED history /\ SameRows /\ SameMoney /\ SameHook

Release(p, s) == split' = [split EXCEPT ![p][s] = "RELEASED"]

ReleaseFee(r) ==
  /\ At(r, "release") /\ "fee" \in request[r].todo
  /\ Release(request[r].payment, "fee")
  /\ request' = [request EXCEPT ![r].todo = @ \ {"fee"}]
  /\ UNCHANGED <<subject, status, delivered, history>> /\ SameMoney /\ SameHook

\* A recipient without payouts makes this throw: see Die.
ReleaseTransfer(r) ==
  LET p == request[r].payment IN
  /\ At(r, "release") /\ "share" \in request[r].todo
  /\ stripe[p].transfers < MaxTransfers                                  \* bound
  /\ stripe' = [stripe EXCEPT ![p].transfers = @ + 1]
  /\ Goto(r, "release.write")
  /\ UNCHANGED <<published, books, history>> /\ SameRows /\ SameHook

\* Mutant: the transfer is not recorded.
ReleaseWriteUnbooked(r) ==
  /\ At(r, "release.write")
  /\ Release(request[r].payment, "share")
  /\ request' = [request EXCEPT ![r].pc = "release", ![r].todo = @ \ {"share"}]
  /\ UNCHANGED <<subject, status, delivered, history>> /\ SameMoney /\ SameHook

ReleaseWrite(r) ==
  /\ At(r, "release.write")
  /\ Release(request[r].payment, "share")
  /\ Goto(r, "release.record")
  /\ UNCHANGED <<subject, status, delivered, history>> /\ SameMoney /\ SameHook

ReleaseRecord(r) ==
  /\ At(r, "release.record")
  /\ Book(request[r].payment, "TRANSFER")
  /\ request' = [request EXCEPT ![r].pc = "release", ![r].todo = @ \ {"share"}]
  /\ UNCHANGED <<stripe, published, history>> /\ SameRows /\ SameHook

ReleaseEnd(r) ==
  /\ At(r, "release") /\ request[r].todo = {}
  /\ Finish(r)
  /\ UNCHANGED history /\ SameRows /\ SameMoney /\ SameHook

---------------------------------------------------------------------------
(* PaymentsService.refund; Stripe refuses to refund a charge twice.        *)
\* Mutant: released splits do not stop a refund.
RefundBeginReleased(r, p) ==
  /\ status[p] = "SUCCEEDED"
  /\ Start(r, [pc |-> "refund.stripe", payment |-> p])
  /\ Overlap(p)
  /\ UNCHANGED <<lost, untold, crossed, forsaken, expired, faults>> /\ SameRows /\ SameMoney /\ SameHook

RefundBegin(r, p) ==
  /\ status[p] = "SUCCEEDED"
  /\ \A s \in Splits : split[p][s] # "RELEASED"
  /\ Start(r, [pc |-> "refund.stripe", payment |-> p])
  /\ Overlap(p)
  /\ UNCHANGED <<lost, untold, crossed, forsaken, expired, faults>> /\ SameRows /\ SameMoney /\ SameHook

RefundStripe(r) ==
  LET p == request[r].payment IN
  /\ At(r, "refund.stripe")
  /\ IF stripe[p].refunded THEN Finish(r) ELSE Goto(r, "refund.write")
  /\ stripe' = [stripe EXCEPT ![p].refunded = TRUE]
  /\ UNCHANGED <<published, books, history>> /\ SameRows /\ SameHook

RefundWrite(r) ==
  LET p == request[r].payment IN
  /\ At(r, "refund.write")
  /\ status' = [status EXCEPT ![p] = "REFUNDED"]
  /\ split' = [split EXCEPT ![p] = [s \in Splits |-> "REFUNDED"]]
  /\ Goto(r, "refund.record")
  /\ UNCHANGED <<subject, delivered, history>> /\ SameMoney /\ SameHook

RefundRecord(r) ==
  /\ At(r, "refund.record")
  /\ Book(request[r].payment, "REFUND")
  /\ Finish(r)
  /\ UNCHANGED <<stripe, published, history>> /\ SameRows /\ SameHook

---------------------------------------------------------------------------
(* A handler ends between two steps: an exception, whose finally block     *)
(* frees the lock, or the death of the process, which does not.            *)
Unbooked(r) ==
  CASE At(r, "succ.charge") -> {<<Of(request[r].event), "CHARGE">>}
    [] request[r].pc \in {"release.write", "release.record"} -> {<<request[r].payment, "TRANSFER">>}
    [] request[r].pc \in {"refund.write", "refund.record"} -> {<<request[r].payment, "REFUND">>}
    [] OTHER -> {}

Handling(r, e) == request[r] \in HookRequest /\ request[r].event = e /\ ~At(r, "hook.lock")

Die(r, left) ==
  /\ request[r] # Idle
  /\ faults < MaxFaults /\ faults' = faults + 1                           \* bound
  /\ lost' = [p \in Payments |-> [t \in Rows |->
                IF <<p, t>> \in Unbooked(r) THEN lost[p][t] + 1 ELSE lost[p][t]]]
  /\ untold' = IF request[r].pc \in {"release.write", "refund.write"}
               THEN untold \cup {request[r].payment} ELSE untold
  /\ forsaken' = forsaken \cup {e \in Events : Handling(r, e)}
  /\ lock' = [e \in Events |-> IF Handling(r, e) /\ lock[e] = r THEN left ELSE lock[e]]
  /\ Finish(r)
  /\ UNCHANGED <<emitted, recorded, acked, overlapped, crossed, expired>> /\ SameRows /\ SameMoney

World == \/ \E p \in Payments : \/ StripeDeclines(p) \/ StripeCharges(p)
                                \/ \E s \in {"fulfilled", "other"} : SubjectMoves(p, s)
         \/ \E e \in Events : LockExpires(e) \/ HookReplay(e)
CreateStep(r)  == CreateRow(r) \/ \E p \in Payments : CreateBegin(r, p)
HookStep(r)    == \/ HookLock(r) \/ HookCheck(r) \/ HookRead(r) \/ HookRecord(r)
                  \/ SucceededWrite(r) \/ SucceededCharge(r) \/ FailedWrite(r)
                  \/ \E e \in Events : HookBegin(r, e)
ReleaseStep(r) == \/ ReleaseCheck(r) \/ ReleaseFee(r) \/ ReleaseTransfer(r) \/ ReleaseWrite(r)
                  \/ ReleaseRecord(r) \/ ReleaseEnd(r) \/ \E p \in Payments : ReleaseBegin(r, p)
RefundStep(r)  == \/ RefundStripe(r) \/ RefundWrite(r) \/ RefundRecord(r)
                  \/ \E p \in Payments : RefundBegin(r, p)
DieStep(r)     == \E left \in {"free", "dead"} : Die(r, left)

Next == World \/ \E r \in Requests : CreateStep(r) \/ HookStep(r) \/ ReleaseStep(r)
                                     \/ RefundStep(r) \/ DieStep(r)
Spec == Init /\ [][Next]_vars

---------------------------------------------------------------------------
(* Escrowed money leaves only for a payment that Stripe charged and whose  *)
(* order or deal was fulfilled, whatever handlers overlap and however late *)
(* the events arrive (release's guards read the payment and the subject at *)
(* different times, and the transfer comes later still).                   *)
NothingLeavesEarly ==
  \A p \in Payments : /\ stripe[p].transfers > 0 => stripe[p].charged /\ p \in delivered
                      /\ stripe[p].refunded \/ status[p] = "SUCCEEDED" => stripe[p].charged

(* A payment is transferred twice, or both transferred and refunded, only  *)
(* when two releases or refunds of it overlapped, or one died between its  *)
(* Stripe call and the write that tells of it; in particular never because *)
(* a late success event revived a REFUNDED payment.                        *)
PaidTwiceNeedsOverlap ==
  \A p \in Payments :
    (stripe[p].transfers > 1 \/ (stripe[p].refunded /\ stripe[p].transfers > 0))
      => p \in overlapped \cup untold

(* The transactions table balances with what happened: one CHARGE row per  *)
(* published success, one TRANSFER row per transfer, one REFUND row per    *)
(* refund, but for the rows a live handler has yet to write or a dead one  *)
(* never wrote.                                                            *)
Happened(p, t) ==
  CASE t = "CHARGE"   -> published[p]
    [] t = "TRANSFER" -> stripe[p].transfers
    [] t = "REFUND"   -> IF stripe[p].refunded THEN 1 ELSE 0
Pending(p, t) == Cardinality({r \in Requests : <<p, t>> \in Unbooked(r)})
BooksBalance ==
  \A p \in Payments, t \in Rows : Happened(p, t) = books[p][t] + Pending(p, t) + lost[p][t]

(* Stripe stops retrying an event answered 200.  Such an event is recorded,*)
(* or a handler still works on it, or that handler died: withLock's skip   *)
(* answers for a holder that may yet fail.                                 *)
AckedIsHandled ==
  \A e \in acked : \/ e \in recorded \cup forsaken
                   \/ \E r \in Requests : Handling(r, e)

(* A recorded success has its PaymentSucceeded row in the outbox, and has  *)
(* two only when its handler died or outlived its lock.                    *)
SuccessPublished ==
  \A p \in Payments :
    /\ Event(p, "succeeded") \in recorded => published[p] > 0
    /\ published[p] > 1 => Event(p, "succeeded") \in forsaken \cup expired

(* A decline never undoes a charge, except where its handler had read the  *)
(* payment before the charge was written, or the money is already refunded.*)
SuccessSurvives ==
  \A p \in Payments :
    (published[p] > 0 /\ status[p] = "FAILED") => p \in crossed \/ stripe[p].refunded

(* What Stripe was told took effect took effect: an answered event has its *)
(* handler, a recorded success its outbox row, and no late decline takes a *)
(* published success back, beyond the races each part names.               *)
EventsTakeEffect == AckedIsHandled /\ SuccessPublished /\ SuccessSurvives
=============================================================================
