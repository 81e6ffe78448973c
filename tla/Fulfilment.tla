----------------------------- MODULE Fulfilment -----------------------------
(***************************************************************************)
(* The whole life of an order: Checkout, plus shipments and refunds        *)
(* (ShipmentsService, RefundsService and the refund_processed webhook).    *)
(* They run in the same slots and write the same status column, each by a  *)
(* read followed, some awaited calls later, by an unconditional update.    *)
(***************************************************************************)
EXTENDS Checkout, FiniteSetsExt

CONSTANTS
  Price,          \* variant -> unit price
  RefundIds, ShipmentIds,
  RefundAmounts   \* amounts a buyer asks for

ASSUME FulfilmentConstants ==
  /\ Price \in [Variants -> Nat \ {0}]
  /\ RefundAmounts \subseteq Nat \ {0}
  /\ IsFiniteSet(Variants) /\ IsFiniteSet(RefundIds)

VARIABLES
  refund,      \* rows of refunds; processed is processedAt # null
  shipment,    \* rows of shipments
  paid,        \* history: orders that have been PAID
  contested    \* history: orders with two refunds open at once, or with a
               \* refund decided a second time

ownVars == <<refund, shipment, contested>>
allVars == <<vars, ownVars, paid>>

Refundable == {"PAID", "FULFILLED", "COMPLETED", "PARTIALLY_REFUNDED"}
\* Mutant: an unpaid order may be shipped.
ShippableUnpaid == {"PENDING_PAYMENT", "PAID", "FULFILLED"}
Shippable  == {"PAID", "FULFILLED"}
ShipmentStatuses == {"PENDING", "SHIPPED", "IN_TRANSIT", "DELIVERED", "RETURNED"}

NoRefund   == [order |-> NoOne, amount |-> 0, status |-> "none", processed |-> FALSE]
NoShipment == [order |-> NoOne, status |-> "none"]
Refund   == [order: OrderIds, amount: RefundAmounts,
             status: {"PENDING", "REJECTED", "PROCESSED"}, processed: BOOLEAN]
Shipment == [order: OrderIds, status: ShipmentStatuses]

RefundRequest == [pc: {"refund.sum"}, order: OrderIds, amount: RefundAmounts]
                 \cup [pc: {"refund.create"}, order: OrderIds, amount: RefundAmounts, seen: SUBSET RefundIds]
DecideRequest == [pc: {"settle.mark", "settle.sum", "reject.write"}, refund: RefundIds]
SettleRequest == [pc: {"settle.write"}, order: OrderIds, status: {"REFUNDED", "PARTIALLY_REFUNDED"}]
ShipRequest   == [pc: {"ship.create"}, order: OrderIds, seen: Shippable]
StatusRequest == [pc: {"ship.write", "delivered.check", "delivered.write"}, order: OrderIds]
AllRequests   == HeadRequests \cup RefundRequest \cup DecideRequest \cup SettleRequest
                 \cup ShipRequest \cup StatusRequest

FulfilmentTypeOK ==
  /\ status \in [OrderIds -> Statuses \cup {"none"}]
  /\ request \in [Requests -> AllRequests]
  /\ refund \in [RefundIds -> Refund \cup {NoRefund}]
  /\ shipment \in [ShipmentIds -> Shipment \cup {NoShipment}]
  /\ paid \subseteq OrderIds /\ contested \subseteq OrderIds

FulfilmentInit ==
  /\ Init
  /\ refund = [f \in RefundIds |-> NoRefund]
  /\ shipment = [s \in ShipmentIds |-> NoShipment]
  /\ paid = {} /\ contested = {}

---------------------------------------------------------------------------
Subtotal(o)      == SumFunction([v \in Variants |-> Price[v] * items[o][v]])
RefundsOf(o, st) == {f \in RefundIds : refund[f].order = o /\ refund[f].status = st}
Amount(F)        == MapThenSumSet(LAMBDA f : refund[f].amount, F)
Refunded(o)      == Amount(RefundsOf(o, "PROCESSED"))

SameStock == UNCHANGED <<cart, stock, ledger, items, buyer>>
Reading   == SameStock /\ UNCHANGED <<status, history, ownVars>>
Contest(o, c) == contested' = IF c THEN contested \cup {o} ELSE contested

---------------------------------------------------------------------------
(* RefundsService.create: only refunds already PROCESSED count against the *)
(* subtotal.                                                               *)
RefundBegin(r, u, o, a) ==
  /\ status[o] \in Refundable
  /\ u = buyer[o]
  /\ Start(r, [pc |-> "refund.sum", order |-> o, amount |-> a])
  /\ Reading

Ask(r, processed) ==
  request' = [request EXCEPT ![r] = [pc |-> "refund.create", order |-> @.order, amount |-> @.amount,
                                     seen |-> processed]]

\* Mutant: what was refunded before is forgotten.
RefundSumNone(r) ==
  LET o == request[r].order IN
  /\ At(r, "refund.sum")
  /\ IF request[r].amount <= Subtotal(o) THEN Ask(r, RefundsOf(o, "PROCESSED")) ELSE Finish(r)
  /\ Reading

RefundSum(r) ==
  LET o == request[r].order IN
  /\ At(r, "refund.sum")
  /\ IF Refunded(o) + request[r].amount <= Subtotal(o)
     THEN Ask(r, RefundsOf(o, "PROCESSED"))
     ELSE Finish(r)
  /\ Reading

RefundCreate(r) ==
  LET o == request[r].order IN
  /\ At(r, "refund.create")
  /\ \E f \in RefundIds :
       /\ refund[f] = NoRefund
       /\ refund' = [refund EXCEPT ![f] = [order |-> o, amount |-> request[r].amount,
                                           status |-> "PENDING", processed |-> FALSE]]
  /\ Contest(o, RefundsOf(o, "PENDING") # {} \/ RefundsOf(o, "PROCESSED") # request[r].seen)
  /\ Finish(r)
  /\ SameStock /\ UNCHANGED <<status, history, shipment>>

(* RefundsService.approve and the refund_processed webhook read the refund *)
(* and share their tail: mark it PROCESSED, add up, write the order.       *)
ApproveBegin(r, u, f) ==
  /\ refund[f].status = "PENDING"
  /\ BrandSide(u, refund[f].order)
  /\ Start(r, [pc |-> "settle.mark", refund |-> f])
  /\ Reading

RefundProcessedBegin(r, f) ==
  /\ refund[f].status = "PENDING"
  /\ Start(r, [pc |-> "settle.mark", refund |-> f])
  /\ Reading

SettleMark(r) ==
  LET f == request[r].refund IN
  /\ At(r, "settle.mark")
  /\ refund' = [refund EXCEPT ![f].status = "PROCESSED", ![f].processed = TRUE]
  /\ Contest(refund[f].order, refund[f].status # "PENDING")
  /\ Goto(r, "settle.sum")
  /\ SameStock /\ UNCHANGED <<status, history, shipment>>

SettledStatus(o) == IF Refunded(o) >= Subtotal(o) THEN "REFUNDED" ELSE "PARTIALLY_REFUNDED"

SettleSum(r) ==
  LET o == refund[request[r].refund].order IN
  /\ At(r, "settle.sum")
  /\ request' = [request EXCEPT ![r] = [pc |-> "settle.write", order |-> o, status |-> SettledStatus(o)]]
  /\ Reading

SettleWrite(r) ==
  /\ At(r, "settle.write")
  /\ WriteStatus(request[r].order, request[r].status)
  /\ Finish(r)
  /\ SameStock /\ UNCHANGED ownVars

RejectBegin(r, u, f) ==
  /\ refund[f].status = "PENDING"
  /\ BrandSide(u, refund[f].order)
  /\ Start(r, [pc |-> "reject.write", refund |-> f])
  /\ Reading

\* Mutant: a rejected refund is marked APPROVED, a status no refund has.
RejectWriteApproved(r) ==
  LET f == request[r].refund IN
  /\ At(r, "reject.write")
  /\ refund' = [refund EXCEPT ![f].status = "APPROVED"]
  /\ Contest(refund[f].order, refund[f].status # "PENDING")
  /\ Finish(r)
  /\ SameStock /\ UNCHANGED <<status, history, shipment>>

RejectWrite(r) ==
  LET f == request[r].refund IN
  /\ At(r, "reject.write")
  /\ refund' = [refund EXCEPT ![f].status = "REJECTED"]
  /\ Contest(refund[f].order, refund[f].status # "PENDING")
  /\ Finish(r)
  /\ SameStock /\ UNCHANGED <<status, history, shipment>>

---------------------------------------------------------------------------
(* ShipmentsService                                                        *)
ShipBegin(r, u, o) ==
  /\ status[o] \in Shippable
  /\ BrandSide(u, o)
  /\ Start(r, [pc |-> "ship.create", order |-> o, seen |-> status[o]])
  /\ Reading

ShipCreate(r) ==
  LET o == request[r].order IN
  /\ At(r, "ship.create")
  /\ \E s \in ShipmentIds :
       /\ shipment[s] = NoShipment
       /\ shipment' = [shipment EXCEPT ![s] = [order |-> o, status |-> "PENDING"]]
  /\ IF request[r].seen = "PAID"
     THEN request' = [request EXCEPT ![r] = [pc |-> "ship.write", order |-> o]]
     ELSE Finish(r)
  /\ SameStock /\ UNCHANGED <<status, history, refund, contested>>

ShipWrite(r) ==
  /\ At(r, "ship.write")
  /\ WriteStatus(request[r].order, "FULFILLED")
  /\ Finish(r)
  /\ SameStock /\ UNCHANGED ownVars

\* Any status may follow any other, whatever the order's own status.
UpdateShipment(r, u, s, st) ==
  LET o == shipment[s].order IN
  /\ request[r] = Idle
  /\ shipment[s] # NoShipment
  /\ BrandSide(u, o)
  /\ shipment' = [shipment EXCEPT ![s].status = st]
  /\ IF st = "DELIVERED"
     THEN Start(r, [pc |-> "delivered.check", order |-> o])
     ELSE UNCHANGED request
  /\ SameStock /\ UNCHANGED <<status, history, refund, contested>>

AllDelivered(o) == \A s \in ShipmentIds : shipment[s].order = o => shipment[s].status = "DELIVERED"

DeliveredCheck(r) ==
  /\ At(r, "delivered.check")
  /\ IF AllDelivered(request[r].order) THEN Goto(r, "delivered.write") ELSE Finish(r)
  /\ Reading

DeliveredWrite(r) ==
  /\ At(r, "delivered.write")
  /\ WriteStatus(request[r].order, "COMPLETED")
  /\ Finish(r)
  /\ SameStock /\ UNCHANGED ownVars

---------------------------------------------------------------------------
RefundStep(r) ==
  \/ RefundSum(r) \/ RefundCreate(r) \/ SettleMark(r) \/ SettleSum(r) \/ SettleWrite(r) \/ RejectWrite(r)
  \/ \E u \in Users, o \in OrderIds, a \in RefundAmounts : RefundBegin(r, u, o, a)
  \/ \E f \in RefundIds : RefundProcessedBegin(r, f)
                          \/ \E u \in Users : ApproveBegin(r, u, f) \/ RejectBegin(r, u, f)

ShipmentStep(r) ==
  \/ ShipCreate(r) \/ ShipWrite(r) \/ DeliveredCheck(r) \/ DeliveredWrite(r)
  \/ \E u \in Users : \/ \E o \in OrderIds : ShipBegin(r, u, o)
                      \/ \E s \in ShipmentIds, st \in ShipmentStatuses : UpdateShipment(r, u, s, st)

FulfilmentNext ==
  /\ \/ Next /\ UNCHANGED ownVars
     \/ \E r \in Requests : RefundStep(r) \/ ShipmentStep(r)
  /\ paid' = paid \cup {o \in OrderIds : status'[o] = "PAID"}

FulfilmentSpec == FulfilmentInit /\ [][FulfilmentNext]_allVars

---------------------------------------------------------------------------
(* Nothing is shipped, completed or refunded for an order whose payment    *)
(* never succeeded, however the handlers overlap: every path into these    *)
(* tables passes the guards of ShipmentsService.create or                  *)
(* RefundsService.create, whose snapshots only a paid order satisfies.     *)
NothingForUnpaid ==
  /\ \A s \in ShipmentIds : shipment[s] # NoShipment => shipment[s].order \in paid
  /\ \A f \in RefundIds : refund[f] # NoRefund => refund[f].order \in paid
  /\ \A o \in OrderIds :
       status[o] \in {"FULFILLED", "COMPLETED", "REFUNDED", "PARTIALLY_REFUNDED"} => o \in paid

(* An order is REFUNDED only when the refunds that were ever processed for *)
(* it (processedAt set) reach its subtotal: the just processed refund is   *)
(* counted once, in approve and in the refund_processed webhook alike.     *)
RefundedIsCovered ==
  \A o \in OrderIds : status[o] = "REFUNDED" =>
    Amount({f \in RefundIds : refund[f].order = o /\ refund[f].processed}) >= Subtotal(o)

(* More than the subtotal is refunded only when two refunds of the order   *)
(* were open at the same time, or one refund was decided twice: refunds    *)
(* requested and decided one after the other never exceed it.              *)
OverRefundNeedsContest ==
  \A o \in OrderIds : Refunded(o) > Subtotal(o) => o \in contested

(* What has been refunded explains what the order says: it is REFUNDED for *)
(* nothing less than its subtotal, and more than that went back only       *)
(* through refunds decided side by side.                                   *)
RefundsExplained == RefundedIsCovered /\ OverRefundNeedsContest
=============================================================================
