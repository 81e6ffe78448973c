----------------------------- MODULE EscrowProofs -----------------------------
(***************************************************************************)
(* Escrow for any payments, handlers and bounds: the types, money that     *)
(* leaves only when it may and only once, balanced books, and events that  *)
(* take effect.                                                            *)
(***************************************************************************)
EXTENDS Escrow, FiniteSetTheorems, TLAPS

---------------------------------------------------------------------------
(* The kinds of handler, told by their pc.                                 *)
HookPcs    == {"hook.lock", "hook.check", "hook.read", "hook.record",
               "succ.write", "succ.charge", "fail.write"}
PaymentPcs == {"create.row", "refund.stripe", "refund.write", "refund.record"}
ReleasePcs == {"release.check", "release", "release.write", "release.record"}

LEMMA RequestShape ==
  ASSUME TypeOK, NEW r \in Requests
  PROVE  /\ request[r] = Idle \/ request[r] \in HookRequest
              \/ request[r] \in PaymentRequest \/ request[r] \in ReleaseRequest
         /\ request[r].pc \in HookPcs <=> request[r] \in HookRequest
         /\ request[r].pc \in PaymentPcs <=> request[r] \in PaymentRequest
         /\ request[r].pc \in ReleasePcs <=> request[r] \in ReleaseRequest
         /\ request[r].pc = "idle" <=> request[r] = Idle
         /\ request[r] \in HookRequest => request[r].event \in Events
         /\ request[r] \in PaymentRequest \cup ReleaseRequest => request[r].payment \in Payments
         /\ request[r] \in ReleaseRequest => request[r].todo \subseteq Splits
  BY DEF TypeOK, Idle, HookRequest, PaymentRequest, ReleaseRequest, HookPcs, PaymentPcs, ReleasePcs

LEMMA EventParts ==
  /\ \A e \in Events : Of(e) \in Payments /\ e[2] \in {"succeeded", "failed"} /\ e = Event(Of(e), e[2])
  /\ \A p \in Payments, k \in {"succeeded", "failed"} :
       Event(p, k) \in Events /\ Of(Event(p, k)) = p /\ Event(p, k)[2] = k
  BY DEF Events, Of, Event

(* What a step does to the handler that takes it, and to no other.         *)
LEMMA AfterStart ==
  ASSUME TypeOK, NEW r \in Requests,
         NEW q \in HookRequest \cup PaymentRequest \cup ReleaseRequest, Start(r, q)
  PROVE  /\ request[r] = Idle /\ request'[r] = q
         /\ \A s \in Requests \ {r} : request'[s] = request[s]
         /\ request' \in [Requests -> {Idle} \cup HookRequest \cup PaymentRequest \cup ReleaseRequest]
  BY DEF Start, TypeOK

LEMMA AfterFinish ==
  ASSUME TypeOK, NEW r \in Requests, Finish(r)
  PROVE  /\ request'[r] = Idle /\ \A s \in Requests \ {r} : request'[s] = request[s]
         /\ request' \in [Requests -> {Idle} \cup HookRequest \cup PaymentRequest \cup ReleaseRequest]
  BY DEF Finish, TypeOK

LEMMA AfterGoto ==
  ASSUME TypeOK, NEW r \in Requests, NEW pc, Goto(r, pc),
         \/ request[r] \in HookRequest /\ pc \in HookPcs
         \/ request[r] \in PaymentRequest /\ pc \in PaymentPcs
         \/ request[r] \in ReleaseRequest /\ pc \in ReleasePcs
  PROVE  /\ request'[r].pc = pc
         /\ request[r] \in HookRequest => request'[r] \in HookRequest /\ request'[r].event = request[r].event
         /\ request[r] \in PaymentRequest =>
              request'[r] \in PaymentRequest /\ request'[r].payment = request[r].payment
         /\ request[r] \in ReleaseRequest =>
              /\ request'[r] \in ReleaseRequest /\ request'[r].payment = request[r].payment
              /\ request'[r].todo = request[r].todo
         /\ \A s \in Requests \ {r} : request'[s] = request[s]
         /\ request' \in [Requests -> {Idle} \cup HookRequest \cup PaymentRequest \cup ReleaseRequest]
  <1> DEFINE q == [request[r] EXCEPT !.pc = pc]
  <1>1. request' = [request EXCEPT ![r] = q]
    BY DEF Goto, TypeOK
  <1>2. /\ q.pc = pc
        /\ request[r] \in HookRequest => q \in HookRequest /\ q.event = request[r].event
        /\ request[r] \in PaymentRequest => q \in PaymentRequest /\ q.payment = request[r].payment
        /\ request[r] \in ReleaseRequest =>
             q \in ReleaseRequest /\ q.payment = request[r].payment /\ q.todo = request[r].todo
    BY DEF HookRequest, PaymentRequest, ReleaseRequest, HookPcs, PaymentPcs, ReleasePcs
  <1> HIDE DEF q
  <1>3. QED
    BY <1>1, <1>2 DEF TypeOK

(* A release that has dealt with one split.                                *)
LEMMA AfterSplit ==
  ASSUME TypeOK, NEW r \in Requests, NEW d, request[r] \in ReleaseRequest,
         \/ request' = [request EXCEPT ![r].todo = @ \ d] /\ At(r, "release")
         \/ request' = [request EXCEPT ![r].pc = "release", ![r].todo = @ \ d]
  PROVE  /\ request'[r] \in ReleaseRequest /\ request'[r].pc = "release"
         /\ request'[r].payment = request[r].payment /\ request'[r].todo = request[r].todo \ d
         /\ \A s \in Requests \ {r} : request'[s] = request[s]
         /\ request' \in [Requests -> {Idle} \cup HookRequest \cup PaymentRequest \cup ReleaseRequest]
  <1> DEFINE q == [request[r] EXCEPT !.pc = "release", !.todo = request[r].todo \ d]
  <1>1. q \in ReleaseRequest /\ q.pc = "release" /\ q.payment = request[r].payment
        /\ q.todo = request[r].todo \ d
    BY DEF ReleaseRequest
  <1>2. request' = [request EXCEPT ![r] = q]
    <2>1. CASE request' = [request EXCEPT ![r].pc = "release", ![r].todo = @ \ d]
      BY <2>1 DEF TypeOK
    <2>2. CASE request' = [request EXCEPT ![r].todo = @ \ d] /\ At(r, "release")
      <3>1. [request[r] EXCEPT !.todo = request[r].todo \ d] = q
        BY <2>2 DEF At, ReleaseRequest
      <3>2. request' = [request EXCEPT ![r] = [request[r] EXCEPT !.todo = request[r].todo \ d]]
        BY <2>2 DEF TypeOK
      <3>3. QED
        BY <3>1, <3>2
    <2>3. QED
      BY <2>1, <2>2
  <1> HIDE DEF q
  <1>3. QED
    BY <1>1, <1>2 DEF TypeOK

---------------------------------------------------------------------------
(* Each step keeps a handler at its kind and its event or payment, or ends *)
(* it.                                                                     *)
HookMove(r) == \/ HookLock(r) \/ HookCheck(r) \/ HookRead(r) \/ HookRecord(r)
               \/ SucceededWrite(r) \/ SucceededCharge(r) \/ FailedWrite(r)
PaymentMove(r) == CreateRow(r) \/ RefundStripe(r) \/ RefundWrite(r) \/ RefundRecord(r)
ReleaseMove(r) == \/ ReleaseCheck(r) \/ ReleaseFee(r) \/ ReleaseTransfer(r) \/ ReleaseWrite(r)
                  \/ ReleaseRecord(r) \/ ReleaseEnd(r)
Begin(r) == \/ \E p \in Payments : CreateBegin(r, p) \/ ReleaseBegin(r, p) \/ RefundBegin(r, p)
            \/ \E e \in Events : HookBegin(r, e)

LEMMA HookMoves ==
  ASSUME TypeOK, NEW r \in Requests, HookMove(r)
  PROVE  /\ request[r] \in HookRequest /\ request[r].event \in Events
         /\ request'[r] = Idle \/ (request'[r] \in HookRequest /\ request'[r].event = request[r].event)
         /\ \A s \in Requests \ {r} : request'[s] = request[s]
         /\ request' \in [Requests -> {Idle} \cup HookRequest \cup PaymentRequest \cup ReleaseRequest]
  <1>1. request[r].pc \in HookPcs
    BY DEF HookMove, HookLock, HookCheck, HookRead, HookRecord, SucceededWrite, SucceededCharge,
           FailedWrite, At, HookPcs
  <1>2. request[r] \in HookRequest /\ request[r].event \in Events
    BY <1>1, RequestShape
  <1>3. Finish(r) \/ \E pc \in HookPcs : Goto(r, pc)
    BY DEF HookMove, HookLock, HookCheck, HookRead, HookRecord, SucceededWrite, SucceededCharge,
           FailedWrite, HookPcs
  <1>4. QED
    BY <1>2, <1>3, AfterGoto, AfterFinish

LEMMA PaymentMoves ==
  ASSUME TypeOK, NEW r \in Requests, PaymentMove(r)
  PROVE  /\ request[r] \in PaymentRequest /\ request[r].payment \in Payments
         /\ request'[r] = Idle
              \/ (request'[r] \in PaymentRequest /\ request'[r].payment = request[r].payment)
         /\ \A s \in Requests \ {r} : request'[s] = request[s]
         /\ request' \in [Requests -> {Idle} \cup HookRequest \cup PaymentRequest \cup ReleaseRequest]
  <1>1. request[r].pc \in PaymentPcs
    BY DEF PaymentMove, CreateRow, RefundStripe, RefundWrite, RefundRecord, At, PaymentPcs
  <1>2. request[r] \in PaymentRequest /\ request[r].payment \in Payments
    BY <1>1, RequestShape
  <1>3. Finish(r) \/ \E pc \in PaymentPcs : Goto(r, pc)
    BY DEF PaymentMove, CreateRow, RefundStripe, RefundWrite, RefundRecord, PaymentPcs
  <1>4. QED
    BY <1>2, <1>3, AfterGoto, AfterFinish

LEMMA ReleaseMoves ==
  ASSUME TypeOK, NEW r \in Requests, ReleaseMove(r)
  PROVE  /\ request[r] \in ReleaseRequest /\ request[r].payment \in Payments
         /\ request[r].todo \subseteq Splits
         /\ \/ request'[r] = Idle
            \/ /\ request'[r] \in ReleaseRequest /\ request'[r].payment = request[r].payment
               /\ request'[r].todo \subseteq request[r].todo
         /\ \A s \in Requests \ {r} : request'[s] = request[s]
         /\ request' \in [Requests -> {Idle} \cup HookRequest \cup PaymentRequest \cup ReleaseRequest]
  <1>1. request[r].pc \in ReleasePcs
    BY DEF ReleaseMove, ReleaseCheck, ReleaseFee, ReleaseTransfer, ReleaseWrite, ReleaseRecord,
           ReleaseEnd, At, ReleasePcs
  <1>2. request[r] \in ReleaseRequest /\ request[r].payment \in Payments /\ request[r].todo \subseteq Splits
    BY <1>1, RequestShape
  <1>3. CASE Finish(r) \/ \E pc \in ReleasePcs : Goto(r, pc)
    BY <1>2, <1>3, AfterGoto, AfterFinish
  <1>4. CASE ReleaseFee(r) \/ ReleaseRecord(r)
    BY <1>2, <1>4, AfterSplit DEF ReleaseFee, ReleaseRecord
  <1>5. QED
    BY <1>3, <1>4 DEF ReleaseMove, ReleaseCheck, ReleaseTransfer, ReleaseWrite, ReleaseEnd, ReleasePcs

LEMMA Begins ==
  ASSUME TypeOK, NEW r \in Requests, Begin(r)
  PROVE  /\ request[r] = Idle
         /\ \/ \E p \in Payments : /\ CreateBegin(r, p)
                                   /\ request'[r] \in PaymentRequest /\ request'[r].payment = p
                                   /\ request'[r].pc = "create.row"
            \/ \E p \in Payments : /\ RefundBegin(r, p)
                                   /\ request'[r] \in PaymentRequest /\ request'[r].payment = p
                                   /\ request'[r].pc = "refund.stripe"
            \/ \E p \in Payments : /\ ReleaseBegin(r, p)
                                   /\ request'[r] \in ReleaseRequest /\ request'[r].payment = p
                                   /\ request'[r].pc = "release.check"
                                   /\ request'[r].todo = {s \in Splits : split[p][s] = "PENDING"}
            \/ \E e \in Events : /\ HookBegin(r, e)
                                 /\ request'[r] \in HookRequest /\ request'[r].event = e
                                 /\ request'[r].pc = "hook.lock"
         /\ \A s \in Requests \ {r} : request'[s] = request[s]
         /\ request' \in [Requests -> {Idle} \cup HookRequest \cup PaymentRequest \cup ReleaseRequest]
  <1>1. ASSUME NEW p \in Payments
        PROVE  /\ [pc |-> "create.row", payment |-> p] \in PaymentRequest
               /\ [pc |-> "refund.stripe", payment |-> p] \in PaymentRequest
               /\ [pc |-> "release.check", payment |-> p,
                   todo |-> {s \in Splits : split[p][s] = "PENDING"}] \in ReleaseRequest
    BY DEF PaymentRequest, ReleaseRequest
  <1>2. ASSUME NEW e \in Events PROVE [pc |-> "hook.lock", event |-> e] \in HookRequest
    BY DEF HookRequest
  <1>3. ASSUME NEW q \in HookRequest \cup PaymentRequest \cup ReleaseRequest, Start(r, q)
        PROVE  /\ request[r] = Idle /\ request'[r] = q
               /\ \A s \in Requests \ {r} : request'[s] = request[s]
               /\ request' \in [Requests -> {Idle} \cup HookRequest \cup PaymentRequest \cup ReleaseRequest]
    BY <1>3, AfterStart
  <1>4. CASE \E p \in Payments : CreateBegin(r, p)
    <2>1. PICK p \in Payments : CreateBegin(r, p)
      BY <1>4
    <2> DEFINE q == [pc |-> "create.row", payment |-> p]
    <2>2. Start(r, q) /\ q \in PaymentRequest
      BY <1>1, <2>1 DEF CreateBegin
    <2>3. QED
      BY <1>3, <2>1, <2>2
  <1>5. CASE \E p \in Payments : RefundBegin(r, p)
    <2>1. PICK p \in Payments : RefundBegin(r, p)
      BY <1>5
    <2> DEFINE q == [pc |-> "refund.stripe", payment |-> p]
    <2>2. Start(r, q) /\ q \in PaymentRequest
      BY <1>1, <2>1 DEF RefundBegin
    <2>3. QED
      BY <1>3, <2>1, <2>2
  <1>6. CASE \E p \in Payments : ReleaseBegin(r, p)
    <2>1. PICK p \in Payments : ReleaseBegin(r, p)
      BY <1>6
    <2> DEFINE q == [pc |-> "release.check", payment |-> p, todo |-> {s \in Splits : split[p][s] = "PENDING"}]
    <2>2. Start(r, q) /\ q \in ReleaseRequest
      BY <1>1, <2>1 DEF ReleaseBegin
    <2>3. QED
      BY <1>3, <2>1, <2>2
  <1>7. CASE \E e \in Events : HookBegin(r, e)
    <2>1. PICK e \in Events : HookBegin(r, e)
      BY <1>7
    <2> DEFINE q == [pc |-> "hook.lock", event |-> e]
    <2>2. Start(r, q) /\ q \in HookRequest
      BY <1>2, <2>1 DEF HookBegin
    <2>3. QED
      BY <1>3, <2>1, <2>2
  <1>8. QED
    BY <1>4, <1>5, <1>6, <1>7 DEF Begin

LEMMA NextCases ==
  ASSUME [Next]_vars
  PROVE  \/ UNCHANGED vars \/ World
         \/ \E r \in Requests : Begin(r) \/ HookMove(r) \/ PaymentMove(r) \/ ReleaseMove(r) \/ DieStep(r)
  BY DEF Next, CreateStep, HookStep, ReleaseStep, RefundStep, Begin, HookMove, PaymentMove, ReleaseMove

(* What a write of one field of a table does to the table.                 *)
LEMMA SplitWrite ==
  ASSUME TypeOK, NEW p \in Payments, NEW s \in Splits, Release(p, s)
  PROVE  /\ split' \in [Payments -> [Splits -> {"PENDING", "RELEASED", "REFUNDED"}]]
         /\ split'[p][s] = "RELEASED" /\ \A t \in Splits \ {s} : split'[p][t] = split[p][t]
         /\ \A q \in Payments \ {p} : split'[q] = split[q]
  <1> DEFINE f == [split[p] EXCEPT ![s] = "RELEASED"]
  <1>1. /\ f \in [Splits -> {"PENDING", "RELEASED", "REFUNDED"}]
        /\ f[s] = "RELEASED" /\ \A t \in Splits \ {s} : f[t] = split[p][t]
    BY DEF TypeOK
  <1>2. split' = [split EXCEPT ![p] = f]
    BY DEF Release, TypeOK
  <1> HIDE DEF f
  <1>3. QED
    BY <1>1, <1>2 DEF TypeOK

LEMMA BookWrite ==
  ASSUME TypeOK, NEW p \in Payments, NEW t \in Rows, Book(p, t)
  PROVE  /\ books' \in [Payments -> [Rows -> Nat]]
         /\ books'[p][t] = books[p][t] + 1 /\ \A u \in Rows \ {t} : books'[p][u] = books[p][u]
         /\ \A q \in Payments \ {p} : books'[q] = books[q]
  <1> DEFINE f == [books[p] EXCEPT ![t] = books[p][t] + 1]
  <1>1. f \in [Rows -> Nat] /\ f[t] = books[p][t] + 1 /\ \A u \in Rows \ {t} : f[u] = books[p][u]
    BY DEF TypeOK
  <1>2. books' = [books EXCEPT ![p] = f]
    BY DEF Book, TypeOK
  <1> HIDE DEF f
  <1>3. QED
    BY <1>1, <1>2 DEF TypeOK

LEMMA StripeWrite ==
  ASSUME TypeOK, NEW p \in Payments,
         \/ stripe' = [stripe EXCEPT ![p].charged = TRUE]
         \/ stripe' = [stripe EXCEPT ![p].transfers = @ + 1]
         \/ stripe' = [stripe EXCEPT ![p].refunded = TRUE]
  PROVE  /\ stripe' \in [Payments -> [charged: BOOLEAN, transfers: Nat, refunded: BOOLEAN]]
         /\ \A q \in Payments \ {p} : stripe'[q] = stripe[q]
         /\ \/ stripe'[p] = [stripe[p] EXCEPT !.charged = TRUE]
            \/ stripe'[p] = [stripe[p] EXCEPT !.transfers = @ + 1]
            \/ stripe'[p] = [stripe[p] EXCEPT !.refunded = TRUE]
  <1>1. stripe[p] \in [charged: BOOLEAN, transfers: Nat, refunded: BOOLEAN]
    BY DEF TypeOK
  <1>2. PICK q \in {[stripe[p] EXCEPT !.charged = TRUE],
                    [stripe[p] EXCEPT !.transfers = stripe[p].transfers + 1],
                    [stripe[p] EXCEPT !.refunded = TRUE]} : stripe' = [stripe EXCEPT ![p] = q]
    BY DEF TypeOK
  <1>3. q \in [charged: BOOLEAN, transfers: Nat, refunded: BOOLEAN]
    <2>1. CASE q = [stripe[p] EXCEPT !.charged = TRUE]
      BY <1>1, <2>1
    <2>2. CASE q = [stripe[p] EXCEPT !.transfers = stripe[p].transfers + 1]
      BY <1>1, <2>2
    <2>3. CASE q = [stripe[p] EXCEPT !.refunded = TRUE]
      BY <1>1, <2>3
    <2>4. QED
      BY <1>2, <2>1, <2>2, <2>3
  <1>4. QED
    BY <1>2, <1>3 DEF TypeOK

---------------------------------------------------------------------------
LEMMA EscrowInitType == Init => TypeOK
  BY EscrowConstants DEF Init, TypeOK, NoRows

LEMMA EscrowTypeStep ==
  ASSUME TypeOK, [Next]_vars
  PROVE  TypeOK'
  <1>1. CASE UNCHANGED vars
    BY <1>1 DEF TypeOK, vars, rowVars, hookVars, history
  <1>2. CASE World
    <2>1. ASSUME NEW p \in Payments, StripeDeclines(p) PROVE TypeOK'
      <3>1. emitted' \subseteq Events
        BY <2>1, EventParts DEF StripeDeclines, TypeOK
      <3>2. QED
        BY <2>1, <3>1 DEF StripeDeclines, SameRows, SameMoney, TypeOK, rowVars, history
    <2>5. ASSUME NEW p \in Payments, NEW s \in {"fulfilled", "other"}, SubjectMoves(p, s) PROVE TypeOK'
      <3>1. /\ subject' \in [Payments -> {"open", "fulfilled", "other"}]
            /\ delivered' \subseteq Payments
        BY <2>5 DEF SubjectMoves, TypeOK
      <3>2. QED
        BY <2>5, <3>1 DEF SubjectMoves, SameMoney, SameHook, TypeOK, rowVars, hookVars, history
    <2>2. ASSUME NEW p \in Payments, StripeCharges(p) PROVE TypeOK'
      <3>1. stripe' \in [Payments -> [charged: BOOLEAN, transfers: Nat, refunded: BOOLEAN]]
        BY <2>2, StripeWrite DEF StripeCharges
      <3>3. emitted' \subseteq Events
        BY <2>2, EventParts DEF StripeCharges, TypeOK
      <3>2. QED
        BY <2>2, <3>1, <3>3 DEF StripeCharges, SameRows, TypeOK, rowVars, history
    <2>3. ASSUME NEW e \in Events, LockExpires(e) \/ HookReplay(e) PROVE TypeOK'
      BY <2>3, EscrowConstants DEF LockExpires, HookReplay, Ack, SameRows, SameMoney, TypeOK, rowVars, history
    <2>6. QED
      BY <1>2, <2>1, <2>2, <2>3, <2>5 DEF World
  <1>3. ASSUME NEW r \in Requests, Begin(r) PROVE TypeOK'
    <2>1. request' \in [Requests -> {Idle} \cup HookRequest \cup PaymentRequest \cup ReleaseRequest]
      BY <1>3, Begins
    <2>2. /\ overlapped' \subseteq Payments
          /\ UNCHANGED <<subject, rowVars, delivered, stripe, published, books, hookVars,
                         lost, untold, crossed, forsaken, expired, faults>>
      BY <1>3 DEF Begin, CreateBegin, RefundBegin, ReleaseBegin, HookBegin, Overlap, SameRows,
         SameMoney, SameHook, TypeOK, history
    <2>3. QED
      BY <2>1, <2>2 DEF TypeOK, rowVars, hookVars
  <1>4. ASSUME NEW r \in Requests, HookMove(r) PROVE TypeOK'
    <2>1. /\ Of(request[r].event) \in Payments /\ request[r].event \in Events
          /\ request' \in [Requests -> {Idle} \cup HookRequest \cup PaymentRequest \cup ReleaseRequest]
      BY <1>4, HookMoves, EventParts
    <2>2. CASE SucceededWrite(r) \/ FailedWrite(r)
      <3>1. status' \in [Payments -> Statuses \cup {"none"}]
        BY <2>1, <2>2 DEF SucceededWrite, FailedWrite, TypeOK, Statuses
      <3>3. published' \in [Payments -> Nat]
        <4>1. published \in [Payments -> Nat]
          BY DEF TypeOK
        <4>2. QED
          BY <2>1, <2>2, <4>1 DEF SucceededWrite, FailedWrite, SameMoney
      <3>4. crossed' \subseteq Payments
        BY <2>1, <2>2 DEF SucceededWrite, FailedWrite, TypeOK, history
      <3>2. QED
        BY <2>1, <2>2, <3>1, <3>3, <3>4 DEF SucceededWrite, FailedWrite, SameMoney, SameHook, TypeOK, hookVars, history
    <2>3. CASE SucceededCharge(r)
      <3>1. books' \in [Payments -> [Rows -> Nat]]
        BY <2>1, <2>3, BookWrite DEF SucceededCharge, Rows
      <3>2. QED
        BY <2>1, <2>3, <3>1 DEF SucceededCharge, SameRows, SameHook, TypeOK, rowVars, hookVars, history
    <2>4. CASE HookLock(r) \/ HookCheck(r) \/ HookRead(r) \/ HookRecord(r)
      <3>1. recorded' \subseteq Events /\ acked' \subseteq Events
        BY <2>1, <2>4 DEF HookLock, HookCheck, HookRead, HookRecord, Ack, SameHook, TypeOK, hookVars
      <3>2. lock' \in [Events -> Requests \cup {"free", "dead"}]
        <4>0. lock \in [Events -> Requests \cup {"free", "dead"}]
          BY DEF TypeOK
        <4>1. CASE HookLock(r)
          <5>1. lock' = lock \/ lock' = [lock EXCEPT ![request[r].event] = r]
            BY <4>1 DEF HookLock
          <5>2. QED
            BY <2>1, <4>0, <5>1
        <4>2. CASE HookRecord(r)
          BY <2>1, <4>0, <4>2 DEF HookRecord, FreeLock
        <4>3. CASE HookCheck(r) \/ HookRead(r)
          BY <4>0, <4>3 DEF HookCheck, HookRead, FreeLock, SameHook, hookVars
        <4>4. QED
          BY <2>4, <4>1, <4>2, <4>3
      <3>3. UNCHANGED <<subject, status, split, stripe, published, books, emitted, delivered, history>>
        BY <2>4 DEF HookLock, HookCheck, HookRead, HookRecord, SameRows, SameMoney, SameHook, rowVars, hookVars
      <3>4. QED
        BY <2>1, <3>1, <3>2, <3>3 DEF TypeOK, history
    <2>5. QED
      BY <1>4, <2>2, <2>3, <2>4 DEF HookMove
  <1>5. ASSUME NEW r \in Requests, PaymentMove(r) PROVE TypeOK'
    <2>1. /\ request[r].payment \in Payments
          /\ request' \in [Requests -> {Idle} \cup HookRequest \cup PaymentRequest \cup ReleaseRequest]
      BY <1>5, PaymentMoves
    <2>2. CASE CreateRow(r) \/ RefundWrite(r)
      <3>1. status' \in [Payments -> Statuses \cup {"none"}]
        <4>1. status \in [Payments -> Statuses \cup {"none"}]
          BY DEF TypeOK
        <4>2. QED
          BY <2>1, <2>2, <4>1 DEF CreateRow, RefundWrite, Statuses
      <3>3. split' \in [Payments -> [Splits -> {"PENDING", "RELEASED", "REFUNDED"}]]
        <4>1. split \in [Payments -> [Splits -> {"PENDING", "RELEASED", "REFUNDED"}]]
          BY DEF TypeOK
        <4>2. QED
          BY <2>1, <2>2, <4>1 DEF CreateRow, RefundWrite
      <3>2. QED
        BY <2>1, <2>2, <3>1, <3>3 DEF CreateRow, RefundWrite, SameMoney, SameHook, TypeOK, hookVars, history
    <2>3. CASE RefundStripe(r)
      <3>1. stripe' \in [Payments -> [charged: BOOLEAN, transfers: Nat, refunded: BOOLEAN]]
        BY <2>1, <2>3, StripeWrite DEF RefundStripe
      <3>2. QED
        BY <2>1, <2>3, <3>1 DEF RefundStripe, SameRows, SameHook, TypeOK, rowVars, hookVars, history
    <2>4. CASE RefundRecord(r)
      <3>1. books' \in [Payments -> [Rows -> Nat]]
        BY <2>1, <2>4, BookWrite DEF RefundRecord, Rows
      <3>2. QED
        BY <2>1, <2>4, <3>1 DEF RefundRecord, SameRows, SameHook, TypeOK, rowVars, hookVars, history
    <2>5. QED
      BY <1>5, <2>2, <2>3, <2>4 DEF PaymentMove
  <1>6. ASSUME NEW r \in Requests, ReleaseMove(r) PROVE TypeOK'
    <2>1. /\ request[r].payment \in Payments
          /\ request' \in [Requests -> {Idle} \cup HookRequest \cup PaymentRequest \cup ReleaseRequest]
      BY <1>6, ReleaseMoves
    <2>2. CASE ReleaseCheck(r) \/ ReleaseEnd(r)
      BY <2>1, <2>2 DEF ReleaseCheck, ReleaseEnd, SameRows, SameMoney, SameHook, TypeOK, rowVars,
         hookVars, history
    <2>3. CASE ReleaseFee(r) \/ ReleaseWrite(r)
      <3>1. split' \in [Payments -> [Splits -> {"PENDING", "RELEASED", "REFUNDED"}]]
        BY <2>1, <2>3, SplitWrite DEF ReleaseFee, ReleaseWrite, Splits
      <3>2. QED
        BY <2>1, <2>3, <3>1 DEF ReleaseFee, ReleaseWrite, SameMoney, SameHook, TypeOK, hookVars, history
    <2>4. CASE ReleaseTransfer(r)
      <3>1. stripe' \in [Payments -> [charged: BOOLEAN, transfers: Nat, refunded: BOOLEAN]]
        BY <2>1, <2>4, StripeWrite DEF ReleaseTransfer
      <3>2. QED
        BY <2>1, <2>4, <3>1 DEF ReleaseTransfer, SameRows, SameHook, TypeOK, rowVars, hookVars, history
    <2>5. CASE ReleaseRecord(r)
      <3>1. books' \in [Payments -> [Rows -> Nat]]
        BY <2>1, <2>5, BookWrite DEF ReleaseRecord, Rows
      <3>2. QED
        BY <2>1, <2>5, <3>1 DEF ReleaseRecord, SameRows, SameHook, TypeOK, rowVars, hookVars, history
    <2>6. QED
      BY <1>6, <2>2, <2>3, <2>4, <2>5 DEF ReleaseMove
  <1>7. ASSUME NEW r \in Requests, NEW left \in {"free", "dead"}, Die(r, left) PROVE TypeOK'
    <2>1. request' \in [Requests -> {Idle} \cup HookRequest \cup PaymentRequest \cup ReleaseRequest]
      BY <1>7, AfterFinish DEF Die
    <2>2. lost' \in [Payments -> [Rows -> Nat]]
      BY <1>7 DEF Die, TypeOK
    <2>3. untold' \subseteq Payments
      <3>1. request[r].pc \in {"release.write", "refund.write"} => request[r].payment \in Payments
        BY RequestShape DEF PaymentPcs, ReleasePcs
      <3>2. QED
        BY <1>7, <3>1 DEF Die, TypeOK
    <2>4. /\ lock' \in [Events -> Requests \cup {"free", "dead"}]
          /\ forsaken' \subseteq Events /\ faults' \in 0..MaxFaults
      BY <1>7, EscrowConstants DEF Die, TypeOK
    <2>5. QED
      BY <1>7, <2>1, <2>2, <2>3, <2>4 DEF Die, SameRows, SameMoney, TypeOK, rowVars
  <1>8. QED
    BY <1>1, <1>2, <1>3, <1>4, <1>5, <1>6, <1>7, NextCases DEF DieStep

(* Every variable of the escrow keeps its type.                            *)
THEOREM EscrowTypeCorrect == Spec => []TypeOK
  <1>1. TypeOK /\ [Next]_vars => TypeOK'
    BY EscrowTypeStep
  <1>2. QED
    BY <1>1, EscrowInitType, PTL DEF Spec

---------------------------------------------------------------------------
(* Why nothing leaves early: what a charge, an event and a fulfilment      *)
(* leave behind stays, and a handler that got past a guard did so when it  *)
(* held.                                                                   *)
Money(p) ==
  /\ Event(p, "succeeded") \in emitted => stripe[p].charged
  /\ subject[p] = "fulfilled" => p \in delivered
  /\ status[p] = "SUCCEEDED" \/ stripe[p].refunded => stripe[p].charged
  /\ stripe[p].transfers > 0 => stripe[p].charged /\ p \in delivered

Honest(r) ==
  /\ request[r] \in HookRequest => request[r].event \in emitted
  /\ request[r].pc \in {"succ.write", "succ.charge"} => request[r].event[2] = "succeeded"
  /\ \A p \in Payments : InRelease(r, p) \/ InRefund(r, p) => stripe[p].charged
  /\ request[r].pc \in {"release", "release.write", "release.record"}
       => request[r].payment \in delivered

MoneyInv == (\A p \in Payments : Money(p)) /\ (\A r \in Requests : Honest(r))

LEMMA HonestFrame ==
  ASSUME NEW r \in Requests, Honest(r), request'[r] = request[r], TypeOK, TypeOK',
         emitted \subseteq emitted', delivered \subseteq delivered',
         \A p \in Payments : stripe[p].charged => stripe'[p].charged
  PROVE  Honest(r)'
  BY RequestShape DEF Honest, InRelease, InRefund, At, ReleasePcs

(* A step that writes neither Stripe's side nor the subject, nor a         *)
(* success.                                                                *)
LEMMA MoneyFrame ==
  ASSUME MoneyInv, TypeOK, TypeOK', NEW r \in Requests, Honest(r)',
         \A s \in Requests \ {r} : request'[s] = request[s],
         emitted' = emitted, delivered' = delivered, subject' = subject, stripe' = stripe,
         \A p \in Payments : status'[p] = "SUCCEEDED" => stripe[p].charged
  PROVE  MoneyInv'
  <1>1. ASSUME NEW s \in Requests PROVE Honest(s)'
    BY <1>1, HonestFrame DEF MoneyInv
  <1>2. ASSUME NEW p \in Payments PROVE Money(p)'
    BY <1>2 DEF MoneyInv, Money
  <1>3. QED
    BY <1>1, <1>2 DEF MoneyInv

LEMMA MoneyWorld ==
  ASSUME MoneyInv, TypeOK, TypeOK', World
  PROVE  MoneyInv'
  <1>1. ASSUME request' = request, emitted \subseteq emitted', delivered \subseteq delivered',
               \A p \in Payments : stripe[p].charged => stripe'[p].charged,
               \A p \in Payments : Money(p)'
        PROVE  MoneyInv'
    BY <1>1, HonestFrame DEF MoneyInv
  <1>2. ASSUME NEW p \in Payments, StripeDeclines(p) PROVE MoneyInv'
    <2>1. \A q \in Payments : Event(q, "succeeded") \in emitted' <=> Event(q, "succeeded") \in emitted
      BY <1>2 DEF StripeDeclines, Event
    <2>2. \A q \in Payments : Money(q)'
      BY <1>2, <2>1 DEF StripeDeclines, SameRows, SameMoney, MoneyInv, Money, rowVars
    <2>3. QED
      BY <1>1, <1>2, <2>2 DEF StripeDeclines, SameRows, SameMoney
  <1>3. ASSUME NEW p \in Payments, StripeCharges(p) PROVE MoneyInv'
    <2>1. /\ stripe'[p].charged
          /\ stripe'[p].transfers = stripe[p].transfers /\ stripe'[p].refunded = stripe[p].refunded
          /\ \A q \in Payments \ {p} : stripe'[q] = stripe[q]
      <3>1. stripe[p] \in [charged: BOOLEAN, transfers: Nat, refunded: BOOLEAN]
        BY DEF TypeOK
      <3>2. stripe' = [stripe EXCEPT ![p] = [stripe[p] EXCEPT !.charged = TRUE]]
        BY <1>3 DEF StripeCharges, TypeOK
      <3>3. QED
        BY <3>1, <3>2 DEF TypeOK
    <2>2. \A q \in Payments \ {p} : Event(q, "succeeded") \in emitted' => Event(q, "succeeded") \in emitted
      BY <1>3 DEF StripeCharges, Event
    <2>3. \A q \in Payments : Money(q)'
      BY <1>3, <2>1, <2>2 DEF StripeCharges, SameRows, MoneyInv, Money, rowVars
    <2>4. QED
      BY <1>1, <1>3, <2>1, <2>3 DEF StripeCharges, SameRows
  <1>4. ASSUME NEW p \in Payments, NEW s \in {"fulfilled", "other"}, SubjectMoves(p, s) PROVE MoneyInv'
    <2>1. \A q \in Payments : Money(q)'
      BY <1>4 DEF SubjectMoves, SameMoney, SameHook, MoneyInv, Money, TypeOK, rowVars, hookVars
    <2>2. QED
      BY <1>1, <1>4, <2>1 DEF SubjectMoves, SameMoney, SameHook, hookVars
  <1>5. ASSUME NEW e \in Events, LockExpires(e) \/ HookReplay(e) PROVE MoneyInv'
    <2>1. UNCHANGED <<request, emitted, delivered, subject, status, stripe>>
      BY <1>5 DEF LockExpires, HookReplay, SameRows, SameMoney, rowVars
    <2>2. QED
      BY <1>1, <2>1 DEF MoneyInv, Money
  <1>6. QED
    BY <1>2, <1>3, <1>4, <1>5 DEF World

LEMMA MoneyBegin ==
  ASSUME MoneyInv, TypeOK, TypeOK', NEW r \in Requests, Begin(r)
  PROVE  MoneyInv'
  <1>1. UNCHANGED <<emitted, delivered, subject, status, stripe>>
    BY DEF Begin, CreateBegin, ReleaseBegin, RefundBegin, HookBegin, SameRows, SameMoney, SameHook,
       rowVars, hookVars
  <1>2. \A p \in Payments : ReleaseBegin(r, p) \/ RefundBegin(r, p) => stripe[p].charged
    BY DEF MoneyInv, Money, ReleaseBegin, RefundBegin
  <1>3. \A e \in Events : HookBegin(r, e) => e \in emitted
    BY DEF HookBegin
  <1>4. Honest(r)'
    BY <1>1, <1>2, <1>3, Begins, RequestShape DEF Honest, InRelease, InRefund, At, HookRequest,
       PaymentRequest, ReleaseRequest
  <1>5. QED
    BY <1>1, <1>4, Begins, MoneyFrame DEF MoneyInv, Money

LEMMA IdleShape ==
  Idle \notin HookRequest /\ Idle \notin PaymentRequest /\ Idle \notin ReleaseRequest /\ Idle.pc = "idle"
  BY DEF Idle, HookRequest, PaymentRequest, ReleaseRequest

LEMMA KindsApart ==
  /\ \A q \in HookRequest : q \notin PaymentRequest /\ q \notin ReleaseRequest
  /\ \A q \in PaymentRequest : q \notin ReleaseRequest
  BY DEF HookRequest, PaymentRequest, ReleaseRequest

LEMMA MoneyHook ==
  ASSUME MoneyInv, TypeOK, TypeOK', NEW r \in Requests, HookMove(r)
  PROVE  MoneyInv'
  <1>1. /\ request[r] \in HookRequest /\ request[r].event \in emitted
        /\ request[r].event \in Events
        /\ request'[r] = Idle \/ (request'[r] \in HookRequest /\ request'[r].event = request[r].event)
        /\ \A s \in Requests \ {r} : request'[s] = request[s]
    BY HookMoves DEF MoneyInv, Honest
  <1>2. UNCHANGED <<emitted, delivered, subject, stripe>>
    BY DEF HookMove, HookLock, HookCheck, HookRead, HookRecord, SucceededWrite, SucceededCharge,
       FailedWrite, SameRows, SameMoney, SameHook, rowVars, hookVars
  <1>3. request'[r].pc \in {"succ.write", "succ.charge"} => request[r].event[2] = "succeeded"
    <2>1. CASE Finish(r)
      BY <2>1, AfterFinish, IdleShape
    <2>2. CASE \E pc \in {"hook.check", "hook.read", "hook.record", "fail.write"} : Goto(r, pc)
      BY <1>1, <2>2, AfterGoto DEF HookPcs
    <2>3. CASE SucceededWrite(r)
      BY <2>3 DEF SucceededWrite, At, MoneyInv, Honest
    <2>4. CASE HookRead(r) /\ request[r].event[2] = "succeeded"
      BY <2>4
    <2>5. QED
      BY <2>1, <2>2, <2>3, <2>4 DEF HookMove, HookLock, HookCheck, HookRead, HookRecord,
         SucceededCharge, FailedWrite
  <1>4. Honest(r)'
    BY <1>1, <1>2, <1>3, IdleShape, KindsApart, RequestShape
       DEF Honest, InRelease, InRefund, ReleasePcs, HookRequest, Idle
  <1>5. \A p \in Payments : status'[p] = "SUCCEEDED" => stripe[p].charged
    <2>1. CASE SucceededWrite(r)
      <3>1. Event(Of(request[r].event), "succeeded") \in emitted
        BY <1>1, <2>1, EventParts DEF SucceededWrite, At, MoneyInv, Honest
      <3>2. stripe[Of(request[r].event)].charged
        BY <1>1, <3>1, EventParts DEF MoneyInv, Money
      <3>3. QED
        BY <2>1, <3>2 DEF SucceededWrite, MoneyInv, Money, TypeOK
    <2>2. CASE FailedWrite(r)
      BY <2>2 DEF FailedWrite, MoneyInv, Money, TypeOK
    <2>3. CASE UNCHANGED status
      BY <2>3 DEF MoneyInv, Money
    <2>4. QED
      BY <2>1, <2>2, <2>3 DEF HookMove, HookLock, HookCheck, HookRead, HookRecord, SucceededCharge,
         SameRows, rowVars
  <1>6. QED
    BY <1>1, <1>2, <1>4, <1>5, MoneyFrame

LEMMA MoneyPayment ==
  ASSUME MoneyInv, TypeOK, TypeOK', NEW r \in Requests, PaymentMove(r)
  PROVE  MoneyInv'
  <1>1. /\ request[r] \in PaymentRequest /\ request[r].payment \in Payments
        /\ request'[r] = Idle
             \/ (request'[r] \in PaymentRequest /\ request'[r].payment = request[r].payment)
        /\ \A s \in Requests \ {r} : request'[s] = request[s]
    BY PaymentMoves
  <1>2. UNCHANGED <<emitted, delivered, subject>>
    BY DEF PaymentMove, CreateRow, RefundStripe, RefundWrite, RefundRecord, SameRows, SameHook, hookVars
  <1>3. ~CreateRow(r) => stripe[request[r].payment].charged
    BY <1>1 DEF PaymentMove, RefundStripe, RefundWrite, RefundRecord, At, MoneyInv, Honest, InRefund
  <1>4. CreateRow(r) => request'[r] = Idle
    BY AfterFinish DEF CreateRow
  <1>5. \A p \in Payments : /\ stripe'[p].charged = stripe[p].charged
                            /\ stripe'[p].transfers = stripe[p].transfers
                            /\ stripe'[p].refunded => stripe[p].refunded \/ stripe[p].charged
    <2>1. CASE UNCHANGED stripe
      BY <2>1
    <2>2. CASE RefundStripe(r)
      <3> DEFINE q == request[r].payment
      <3>1. stripe[q] \in [charged: BOOLEAN, transfers: Nat, refunded: BOOLEAN]
        BY <1>1 DEF TypeOK
      <3>2. stripe' = [stripe EXCEPT ![q] = [stripe[q] EXCEPT !.refunded = TRUE]]
        BY <1>1, <2>2 DEF RefundStripe, TypeOK
      <3>3. stripe[q].charged
        BY <1>3, <2>2 DEF RefundStripe, CreateRow, At
      <3>4. QED
        BY <1>1, <3>1, <3>2, <3>3 DEF TypeOK
    <2>3. QED
      BY <2>1, <2>2 DEF PaymentMove, CreateRow, RefundWrite, RefundRecord, SameMoney
  <1>6. Honest(r)'
    BY <1>1, <1>3, <1>4, <1>5, IdleShape, KindsApart DEF Honest, InRelease, InRefund, PaymentRequest
  <1>7. \A p \in Payments : status'[p] = "SUCCEEDED" => status[p] = "SUCCEEDED"
    BY <1>1 DEF PaymentMove, CreateRow, RefundStripe, RefundWrite, RefundRecord, SameRows, TypeOK, rowVars
  <1>8. ASSUME NEW s \in Requests PROVE Honest(s)'
    BY <1>1, <1>2, <1>5, <1>6, <1>8, HonestFrame DEF MoneyInv
  <1>9. ASSUME NEW p \in Payments PROVE Money(p)'
    BY <1>2, <1>5, <1>7 DEF MoneyInv, Money
  <1>10. QED
    BY <1>8, <1>9 DEF MoneyInv

LEMMA MoneyRelease ==
  ASSUME MoneyInv, TypeOK, TypeOK', NEW r \in Requests, ReleaseMove(r)
  PROVE  MoneyInv'
  <1> DEFINE q == request[r].payment
  <1>1. /\ request[r] \in ReleaseRequest /\ request[r].payment \in Payments
        /\ \/ request'[r] = Idle
           \/ request'[r] \in ReleaseRequest /\ request'[r].payment = request[r].payment
        /\ \A s \in Requests \ {r} : request'[s] = request[s]
    BY ReleaseMoves
  <1>2. UNCHANGED <<emitted, delivered, subject, status>>
    BY DEF ReleaseMove, ReleaseCheck, ReleaseFee, ReleaseTransfer, ReleaseWrite, ReleaseRecord,
       ReleaseEnd, SameRows, SameHook, rowVars, hookVars
  <1>3. stripe[q].charged
    BY <1>1 DEF MoneyInv, Honest, InRelease
  <1>4. request'[r] # Idle => q \in delivered
    <2>1. CASE ReleaseCheck(r)
      BY <1>1, <2>1, AfterFinish DEF ReleaseCheck, MoneyInv, Money
    <2>2. CASE ~ReleaseCheck(r)
      BY <2>2 DEF ReleaseMove, ReleaseFee, ReleaseTransfer, ReleaseWrite, ReleaseRecord, ReleaseEnd,
         At, MoneyInv, Honest
    <2>3. QED
      BY <2>1, <2>2
  <1>5. \A p \in Payments : /\ stripe'[p].charged = stripe[p].charged
                            /\ stripe'[p].refunded = stripe[p].refunded
                            /\ stripe'[p].transfers > 0 =>
                                 stripe[p].transfers > 0 \/ (stripe[p].charged /\ p \in delivered)
    <2>1. CASE UNCHANGED stripe
      BY <2>1
    <2>2. CASE ReleaseTransfer(r)
      <3>1. stripe[q] \in [charged: BOOLEAN, transfers: Nat, refunded: BOOLEAN]
        BY <1>1 DEF TypeOK
      <3>2. stripe' = [stripe EXCEPT ![q] = [stripe[q] EXCEPT !.transfers = stripe[q].transfers + 1]]
        BY <1>1, <2>2 DEF ReleaseTransfer, TypeOK
      <3>3. q \in delivered
        BY <2>2 DEF ReleaseTransfer, At, MoneyInv, Honest
      <3>4. QED
        BY <1>1, <1>3, <3>1, <3>2, <3>3 DEF TypeOK
    <2>3. QED
      BY <2>1, <2>2 DEF ReleaseMove, ReleaseCheck, ReleaseFee, ReleaseWrite, ReleaseRecord, ReleaseEnd,
         SameMoney
  <1>6. Honest(r)'
    BY <1>1, <1>2, <1>3, <1>4, <1>5, IdleShape, KindsApart DEF Honest, InRelease, InRefund, ReleaseRequest
  <1>7. ASSUME NEW s \in Requests PROVE Honest(s)'
    BY <1>1, <1>2, <1>5, <1>6, <1>7, HonestFrame DEF MoneyInv
  <1>8. ASSUME NEW p \in Payments PROVE Money(p)'
    BY <1>2, <1>5 DEF MoneyInv, Money
  <1>9. QED
    BY <1>7, <1>8 DEF MoneyInv

LEMMA MoneyInvariant == Spec => []MoneyInv
  <1>1. Init => MoneyInv
    <2> SUFFICES ASSUME Init PROVE MoneyInv
      OBVIOUS
    <2>1. \A p \in Payments : Money(p)
      BY DEF Init, Money
    <2>2. \A r \in Requests : Honest(r)
      BY IdleShape DEF Init, Honest, InRelease, InRefund
    <2>3. QED
      BY <2>1, <2>2 DEF MoneyInv
  <1>2. TypeOK /\ TypeOK' /\ MoneyInv /\ [Next]_vars => MoneyInv'
    <2> SUFFICES ASSUME TypeOK, TypeOK', MoneyInv, [Next]_vars PROVE MoneyInv'
      OBVIOUS
    <2>1. CASE UNCHANGED vars
      <3>1. UNCHANGED <<request, emitted, delivered, subject, status, stripe>>
        BY <2>1 DEF vars, rowVars, hookVars
      <3>2. \A r \in Requests : Honest(r)'
        BY <3>1, HonestFrame DEF MoneyInv
      <3>3. QED
        BY <3>1, <3>2 DEF MoneyInv, Money
    <2>2. ASSUME NEW r \in Requests, DieStep(r) PROVE MoneyInv'
      <3>1. /\ UNCHANGED <<emitted, delivered, subject, status, stripe>>
            /\ request'[r] = Idle /\ \A s \in Requests \ {r} : request'[s] = request[s]
        BY <2>2, AfterFinish DEF DieStep, Die, SameRows, SameMoney, rowVars
      <3>2. Honest(r)'
        BY <3>1, IdleShape DEF Honest, InRelease, InRefund
      <3>3. QED
        BY <3>1, <3>2, MoneyFrame DEF MoneyInv, Money
    <2>3. QED
      BY <2>1, <2>2, NextCases, MoneyWorld, MoneyBegin, MoneyHook, MoneyPayment, MoneyRelease
  <1>3. QED
    BY <1>1, <1>2, EscrowTypeCorrect, PTL DEF Spec

(* Escrowed money leaves only for a payment that Stripe charged and whose  *)
(* order or deal was fulfilled.                                            *)
THEOREM NeverTooEarly == Spec => []NothingLeavesEarly
  <1>1. MoneyInv => NothingLeavesEarly
    BY DEF MoneyInv, Money, NothingLeavesEarly
  <1>2. QED
    BY <1>1, MoneyInvariant, PTL

---------------------------------------------------------------------------
(* Why money does not leave twice.  A handler that moves a payment is on   *)
(* its own unless the payment counts as overlapped; what it did at Stripe  *)
(* shows in the split, or it is about to, or it died and the payment       *)
(* counts as untold.  The guards of the next one then refuse, also when a  *)
(* late event has made the payment SUCCEEDED again.                        *)
Mover(r, p) == InRelease(r, p) \/ InRefund(r, p)

Calm(p) ==
  p \notin overlapped \cup untold =>
    /\ \A r, s \in Requests : Mover(r, p) /\ Mover(s, p) => r = s
    /\ stripe[p].transfers <= 1
    /\ stripe[p].transfers > 0 => \/ split[p]["share"] = "RELEASED"
                                  \/ \E r \in Requests : InRelease(r, p) /\ At(r, "release.write")
    /\ stripe[p].refunded => /\ stripe[p].transfers = 0
                             /\ \/ split[p]["share"] = "REFUNDED"
                                \/ \E r \in Requests : InRefund(r, p) /\ At(r, "refund.write")
    /\ \A r \in Requests : InRefund(r, p) => stripe[p].transfers = 0
    /\ \A r \in Requests : InRelease(r, p) =>
         /\ "share" \in request[r].todo => ~stripe[p].refunded
         /\ At(r, "release.write") => "share" \in request[r].todo
         /\ (~At(r, "release.write") /\ ~At(r, "release.record") /\ "share" \in request[r].todo)
              => stripe[p].transfers = 0

CalmInv == \A p \in Payments : Calm(p)

LEMMA CalmFrame ==
  ASSUME NEW p \in Payments, Calm(p), stripe'[p] = stripe[p], split'[p] = split[p],
         overlapped \subseteq overlapped', untold \subseteq untold',
         \A s \in Requests : request'[s] = request[s] \/ ~Mover(s, p)',
         \A s \in Requests : Mover(s, p) /\ request[s].pc \in {"release.write", "refund.write"}
                               => request'[s] = request[s] \/ p \in untold'
  PROVE  Calm(p)'
  <1> SUFFICES ASSUME p \notin overlapped' \cup untold' PROVE Calm(p)'
    BY DEF Calm
  <1>1. \A s \in Requests : /\ request'[s] = request[s] \/ (~InRelease(s, p)' /\ ~InRefund(s, p)')
                            /\ request'[s] = request[s] => /\ InRelease(s, p)' <=> InRelease(s, p)
                                                           /\ InRefund(s, p)' <=> InRefund(s, p)
    BY DEF Mover, InRelease, InRefund, At
  <1>2. \A s \in Requests : /\ InRelease(s, p) /\ At(s, "release.write") => request'[s] = request[s]
                            /\ InRefund(s, p) /\ At(s, "refund.write") => request'[s] = request[s]
    BY DEF Mover, At
  <1>3. p \notin overlapped \cup untold
    OBVIOUS
  <1>4. QED
    BY <1>1, <1>2, <1>3 DEF Calm, Mover, At

(* Steps that no handler moving the payment takes.                         *)
LEMMA CalmElsewhere ==
  ASSUME CalmInv, TypeOK, TypeOK',
         \/ World
         \/ \E r \in Requests : HookMove(r) \/ CreateRow(r) \/ \E p \in Payments : CreateBegin(r, p)
         \/ \E r \in Requests, e \in Events : HookBegin(r, e)
  PROVE  CalmInv'
  <1>1. /\ split' = split /\ overlapped' = overlapped /\ untold' = untold
        /\ stripe' = stripe \/ \E p \in Payments : StripeCharges(p)
    BY DEF World, StripeDeclines, StripeCharges, SubjectMoves, LockExpires, HookReplay,
       HookMove, HookLock, HookCheck, HookRead, HookRecord, SucceededWrite, SucceededCharge,
       FailedWrite, CreateRow, CreateBegin, HookBegin, SameRows, SameMoney, rowVars, history
  <1>2. \A p \in Payments : /\ stripe'[p].transfers = stripe[p].transfers
                            /\ stripe'[p].refunded = stripe[p].refunded
    <2>1. ASSUME NEW q \in Payments, StripeCharges(q)
          PROVE  \A p \in Payments : /\ stripe'[p].transfers = stripe[p].transfers
                                     /\ stripe'[p].refunded = stripe[p].refunded
      <3>1. stripe[q] \in [charged: BOOLEAN, transfers: Nat, refunded: BOOLEAN]
        BY DEF TypeOK
      <3>2. stripe' = [stripe EXCEPT ![q] = [stripe[q] EXCEPT !.charged = TRUE]]
        BY <2>1 DEF StripeCharges, TypeOK
      <3>3. QED
        BY <3>1, <3>2 DEF TypeOK
    <2>2. QED
      BY <1>1, <2>1
  <1>3. \A s \in Requests, p \in Payments :
           request'[s] = request[s] \/ (~Mover(s, p) /\ ~Mover(s, p)')
    <2>1. CASE World
      BY <2>1 DEF World, StripeDeclines, StripeCharges, SubjectMoves, LockExpires, HookReplay
    <2>2. ASSUME NEW r \in Requests, HookMove(r)
          PROVE  \A s \in Requests, p \in Payments :
                   request'[s] = request[s] \/ (~Mover(s, p) /\ ~Mover(s, p)')
      BY <2>2, HookMoves, IdleShape, KindsApart DEF Mover, InRelease, InRefund
    <2>3. ASSUME NEW r \in Requests, CreateRow(r)
          PROVE  \A s \in Requests, p \in Payments :
                   request'[s] = request[s] \/ (~Mover(s, p) /\ ~Mover(s, p)')
      BY <2>3, AfterFinish, PaymentMoves, IdleShape, KindsApart
         DEF CreateRow, PaymentMove, Mover, InRelease, InRefund
    <2>4. ASSUME NEW r \in Requests, NEW p \in Payments, CreateBegin(r, p)
          PROVE  \A s \in Requests, q \in Payments :
                   request'[s] = request[s] \/ (~Mover(s, q) /\ ~Mover(s, q)')
      <3>1. /\ [pc |-> "create.row", payment |-> p] \in PaymentRequest
            /\ [pc |-> "create.row", payment |-> p].pc = "create.row"
        BY DEF PaymentRequest
      <3>2. /\ request[r] = Idle /\ request'[r] = [pc |-> "create.row", payment |-> p]
            /\ \A s \in Requests \ {r} : request'[s] = request[s]
        BY <2>4, <3>1, AfterStart DEF CreateBegin
      <3>3. QED
        BY <3>1, <3>2, IdleShape, KindsApart DEF Mover, InRelease, InRefund, At
    <2>5. ASSUME NEW r \in Requests, NEW e \in Events, HookBegin(r, e)
          PROVE  \A s \in Requests, q \in Payments :
                   request'[s] = request[s] \/ (~Mover(s, q) /\ ~Mover(s, q)')
      <3>1. [pc |-> "hook.lock", event |-> e] \in HookRequest
        BY DEF HookRequest
      <3>2. /\ request[r] = Idle /\ request'[r] = [pc |-> "hook.lock", event |-> e]
            /\ \A s \in Requests \ {r} : request'[s] = request[s]
        BY <2>5, <3>1, AfterStart DEF HookBegin
      <3>3. QED
        BY <3>1, <3>2, IdleShape, KindsApart DEF Mover, InRelease, InRefund
    <2>6. QED
      BY <2>1, <2>2, <2>3, <2>4, <2>5
  <1>4. ASSUME NEW p \in Payments PROVE Calm(p)'
    <2>1. \A s \in Requests : /\ InRelease(s, p)' <=> InRelease(s, p)
                              /\ InRefund(s, p)' <=> InRefund(s, p)
                              /\ Mover(s, p)' <=> Mover(s, p)
                              /\ Mover(s, p) => request'[s] = request[s]
      BY <1>3 DEF Mover, InRelease, InRefund, At
    <2>2. Calm(p)
      BY DEF CalmInv
    <2>3. QED
      BY <1>1, <1>2, <2>1, <2>2 DEF Calm, Mover, At
  <1>5. QED
    BY <1>4 DEF CalmInv

(* A release or refund that begins while another is there is an overlap;   *)
(* on its own it finds what was left behind.                               *)
LEMMA CalmBegin ==
  ASSUME CalmInv, TypeOK, TypeOK', NEW r \in Requests, NEW p \in Payments,
         ReleaseBegin(r, p) \/ RefundBegin(r, p)
  PROVE  CalmInv'
  <1>1. UNCHANGED <<stripe, split, untold>>
    BY DEF ReleaseBegin, RefundBegin, SameRows, SameMoney, rowVars
  <1>2. overlapped' = IF \E s \in Requests : Mover(s, p) THEN overlapped \cup {p} ELSE overlapped
    BY DEF ReleaseBegin, RefundBegin, Overlap, Mover
  <1>3. Begin(r)
    BY DEF Begin
  <1>4. request[r] = Idle /\ \A s \in Requests \ {r} : request'[s] = request[s]
    BY <1>3, Begins
  <1>5. \/ /\ request'[r] \in PaymentRequest /\ request'[r].payment = p
           /\ request'[r].pc = "refund.stripe" /\ split[p]["share"] # "RELEASED"
        \/ /\ request'[r] \in ReleaseRequest /\ request'[r].payment = p
           /\ request'[r].pc = "release.check"
           /\ "share" \in request'[r].todo => split[p]["share"] = "PENDING"
    <2>1. CASE RefundBegin(r, p)
      <3>1. [pc |-> "refund.stripe", payment |-> p] \in PaymentRequest
        BY DEF PaymentRequest
      <3>2. request'[r] = [pc |-> "refund.stripe", payment |-> p]
        BY <2>1, <3>1, AfterStart DEF RefundBegin
      <3>3. QED
        BY <2>1, <3>1, <3>2 DEF RefundBegin, Splits
    <2>2. CASE ReleaseBegin(r, p)
      <3> DEFINE q == [pc |-> "release.check", payment |-> p,
                       todo |-> {s \in Splits : split[p][s] = "PENDING"}]
      <3>1. q \in ReleaseRequest
        BY DEF ReleaseRequest
      <3>2. request'[r] = q
        BY <2>2, <3>1, AfterStart DEF ReleaseBegin
      <3>3. QED
        BY <3>1, <3>2
    <2>3. QED
      BY <2>1, <2>2
  <1>6. ASSUME NEW q \in Payments \ {p} PROVE Calm(q)'
    <2>1. ~Mover(r, q)' /\ ~Mover(r, q)
      BY <1>4, <1>5, <1>6, IdleShape, KindsApart DEF Mover, InRelease, InRefund
    <2>2. Calm(q)
      BY <1>6 DEF CalmInv
    <2>3. QED
      BY <1>1, <1>2, <1>4, <2>1, <2>2, CalmFrame
  <1>7. Calm(p)'
    <2> SUFFICES ASSUME p \notin overlapped' \cup untold' PROVE Calm(p)'
      BY DEF Calm
    <2>1. p \notin overlapped \cup untold /\ \A s \in Requests : ~Mover(s, p)
      BY <1>1, <1>2
    <2>2. \A s \in Requests : Mover(s, p)' => s = r
      BY <1>4, <2>1 DEF Mover, InRelease, InRefund, At
    <2>3. /\ stripe[p].transfers <= 1
          /\ stripe[p].transfers > 0 => split[p]["share"] = "RELEASED"
          /\ stripe[p].refunded => stripe[p].transfers = 0 /\ split[p]["share"] = "REFUNDED"
      BY <2>1 DEF CalmInv, Calm, Mover
    <2>4. stripe[p].transfers \in Nat
      BY DEF TypeOK
    <2>5. QED
      BY <1>1, <1>5, <2>1, <2>2, <2>3, <2>4, KindsApart DEF Calm, Mover, InRelease, InRefund, At
  <1>8. QED
    BY <1>6, <1>7 DEF CalmInv

(* What a handler that moves a payment knows when nothing overlaps it.     *)
LEMMA Alone ==
  ASSUME CalmInv, NEW r \in Requests, NEW p \in Payments, Mover(r, p),
         p \notin overlapped \cup untold
  PROVE  /\ \A s \in Requests : Mover(s, p) => s = r
         /\ stripe[p].transfers <= 1
         /\ stripe[p].transfers > 0 => \/ split[p]["share"] = "RELEASED"
                                       \/ InRelease(r, p) /\ At(r, "release.write")
         /\ stripe[p].refunded => /\ stripe[p].transfers = 0
                                  /\ \/ split[p]["share"] = "REFUNDED"
                                     \/ InRefund(r, p) /\ At(r, "refund.write")
         /\ InRefund(r, p) => stripe[p].transfers = 0
         /\ InRelease(r, p) =>
              /\ "share" \in request[r].todo => ~stripe[p].refunded
              /\ At(r, "release.write") => "share" \in request[r].todo
              /\ (~At(r, "release.write") /\ ~At(r, "release.record") /\ "share" \in request[r].todo)
                   => stripe[p].transfers = 0
  <1>1. Calm(p)
    BY DEF CalmInv
  <1>2. \A s \in Requests : Mover(s, p) => s = r
    BY <1>1 DEF Calm
  <1>3. QED
    BY <1>1, <1>2 DEF Calm, Mover

(* What is left to show of a step of such a handler.                       *)
LEMMA CalmOwn ==
  ASSUME CalmInv, TypeOK, TypeOK', NEW r \in Requests, NEW p \in Payments, Mover(r, p),
         \A s \in Requests \ {r} : request'[s] = request[s],
         \A q \in Payments \ {p} : ~Mover(r, q)' /\ stripe'[q] = stripe[q] /\ split'[q] = split[q],
         overlapped' = overlapped, untold \subseteq untold',
         p \notin overlapped \cup untold' =>
           /\ stripe'[p].transfers <= 1
           /\ stripe'[p].transfers > 0 => \/ split'[p]["share"] = "RELEASED"
                                          \/ InRelease(r, p)' /\ At(r, "release.write")'
           /\ stripe'[p].refunded => /\ stripe'[p].transfers = 0
                                     /\ \/ split'[p]["share"] = "REFUNDED"
                                        \/ InRefund(r, p)' /\ At(r, "refund.write")'
           /\ InRefund(r, p)' => stripe'[p].transfers = 0
           /\ InRelease(r, p)' =>
                /\ "share" \in request'[r].todo => ~stripe'[p].refunded
                /\ At(r, "release.write")' => "share" \in request'[r].todo
                /\ (~At(r, "release.write")' /\ ~At(r, "release.record")' /\ "share" \in request'[r].todo)
                     => stripe'[p].transfers = 0
  PROVE  CalmInv'
  <1>1. ASSUME NEW q \in Payments \ {p} PROVE Calm(q)'
    <2>1. ~Mover(r, q)
      BY <1>1, KindsApart DEF Mover, InRelease, InRefund
    <2>2. Calm(q)
      BY <1>1 DEF CalmInv
    <2>3. QED
      BY <1>1, <2>1, <2>2, CalmFrame
  <1>2. Calm(p)'
    <2> SUFFICES ASSUME p \notin overlapped' \cup untold' PROVE Calm(p)'
      BY DEF Calm
    <2>1. \A s \in Requests : Mover(s, p) => s = r
      BY Alone
    <2>2. \A s \in Requests : Mover(s, p)' => s = r
      BY <2>1 DEF Mover, InRelease, InRefund, At
    <2>3. QED
      BY <2>2 DEF Calm, Mover
  <1>3. QED
    BY <1>1, <1>2 DEF CalmInv

LEMMA CalmRefund ==
  ASSUME CalmInv, TypeOK, TypeOK', NEW r \in Requests,
         RefundStripe(r) \/ RefundWrite(r) \/ RefundRecord(r)
  PROVE  CalmInv'
  <1>1. PICK p \in Payments : p = request[r].payment
    BY PaymentMoves DEF PaymentMove
  <1>2. /\ request[r] \in PaymentRequest
        /\ request'[r] = Idle \/ (request'[r] \in PaymentRequest /\ request'[r].payment = p)
        /\ \A s \in Requests \ {r} : request'[s] = request[s]
    BY <1>1, PaymentMoves DEF PaymentMove
  <1>3. InRefund(r, p) /\ Mover(r, p) /\ ~InRelease(r, p) /\ ~InRelease(r, p)'
    BY <1>1, <1>2, IdleShape, KindsApart
       DEF RefundStripe, RefundWrite, RefundRecord, At, InRefund, InRelease, Mover
  <1>4. \A q \in Payments \ {p} : ~Mover(r, q)'
    BY <1>2, IdleShape, KindsApart DEF Mover, InRelease, InRefund
  <1>5. overlapped' = overlapped /\ untold' = untold
    BY DEF RefundStripe, RefundWrite, RefundRecord, history
  <1>6. stripe[p] \in [charged: BOOLEAN, transfers: Nat, refunded: BOOLEAN]
    BY DEF TypeOK
  <1>7. CASE RefundStripe(r)
    <2>1. /\ stripe'[p] = [stripe[p] EXCEPT !.refunded = TRUE] /\ split' = split
          /\ \A q \in Payments \ {p} : stripe'[q] = stripe[q]
      <3>1. stripe' = [stripe EXCEPT ![p] = [stripe[p] EXCEPT !.refunded = TRUE]] /\ split' = split
        BY <1>1, <1>7 DEF RefundStripe, SameRows, rowVars, TypeOK
      <3>2. QED
        BY <3>1 DEF TypeOK
    <2>2. stripe'[p].transfers = stripe[p].transfers /\ stripe'[p].refunded
      BY <1>6, <2>1
    <2>3. ~At(r, "refund.write") /\ At(r, "refund.stripe")
      BY <1>7 DEF RefundStripe, At
    <2>4. ~stripe[p].refunded => InRefund(r, p)' /\ At(r, "refund.write")'
      <3>1. ~stripe[p].refunded => Goto(r, "refund.write")
        BY <1>1, <1>7 DEF RefundStripe
      <3>2. QED
        BY <1>1, <1>2, <3>1, AfterGoto DEF InRefund, At, PaymentPcs
    <2>5. p \notin overlapped \cup untold =>
            stripe[p].transfers = 0 /\ (stripe[p].refunded => split[p]["share"] = "REFUNDED")
      BY <1>3, <2>3, Alone
    <2>6. QED
      BY <1>2, <1>3, <1>4, <1>5, <1>6, <2>1, <2>2, <2>4, <2>5, CalmOwn
  <1>8. CASE RefundWrite(r)
    <2>1. stripe' = stripe /\ split' = [split EXCEPT ![p] = [s \in Splits |-> "REFUNDED"]]
      BY <1>1, <1>8 DEF RefundWrite, SameMoney
    <2>2. split'[p]["share"] = "REFUNDED" /\ \A q \in Payments \ {p} : split'[q] = split[q]
      BY <2>1 DEF TypeOK, Splits
    <2>3. p \notin overlapped \cup untold => stripe[p].transfers = 0
      BY <1>3, Alone
    <2>4. QED
      BY <1>2, <1>3, <1>4, <1>5, <2>1, <2>2, <2>3, CalmOwn
  <1>9. CASE RefundRecord(r)
    <2>1. stripe' = stripe /\ split' = split /\ request'[r] = Idle
      BY <1>9, AfterFinish DEF RefundRecord, SameRows, rowVars
    <2>2. At(r, "refund.record")
      BY <1>9 DEF RefundRecord
    <2>3. ~InRefund(r, p)'
      BY <2>1, IdleShape DEF InRefund
    <2>4. ~At(r, "release.write") /\ ~At(r, "refund.write")
      BY <2>2 DEF At
    <2>5. QED
      BY <1>2, <1>3, <1>4, <1>5, <1>6, <2>1, <2>3, <2>4, Alone, CalmOwn
  <1>10. QED
    BY <1>7, <1>8, <1>9

LEMMA CalmRelease ==
  ASSUME CalmInv, TypeOK, TypeOK', NEW r \in Requests, ReleaseMove(r)
  PROVE  CalmInv'
  <1>1. PICK p \in Payments : p = request[r].payment
    BY ReleaseMoves
  <1>2. /\ request[r] \in ReleaseRequest /\ request[r].todo \subseteq Splits
        /\ \/ request'[r] = Idle
           \/ /\ request'[r] \in ReleaseRequest /\ request'[r].payment = p
              /\ request'[r].todo \subseteq request[r].todo
        /\ \A s \in Requests \ {r} : request'[s] = request[s]
    BY <1>1, ReleaseMoves
  <1>3. InRelease(r, p) /\ Mover(r, p) /\ ~InRefund(r, p) /\ ~InRefund(r, p)'
    BY <1>1, <1>2, IdleShape, KindsApart DEF InRefund, InRelease, Mover
  <1>4. \A q \in Payments \ {p} : ~Mover(r, q)'
    BY <1>2, IdleShape, KindsApart DEF Mover, InRelease, InRefund
  <1>5. overlapped' = overlapped /\ untold' = untold
    BY DEF ReleaseMove, ReleaseCheck, ReleaseFee, ReleaseTransfer, ReleaseWrite, ReleaseRecord,
       ReleaseEnd, history
  <1>6. stripe[p] \in [charged: BOOLEAN, transfers: Nat, refunded: BOOLEAN]
    BY DEF TypeOK
  <1>7. p \notin overlapped \cup untold =>
         /\ ~At(r, "release.write") /\ stripe[p].transfers > 0 => split[p]["share"] = "RELEASED"
         /\ stripe[p].transfers <= 1
         /\ stripe[p].refunded => stripe[p].transfers = 0 /\ split[p]["share"] = "REFUNDED"
         /\ "share" \in request[r].todo => ~stripe[p].refunded
         /\ At(r, "release.write") => "share" \in request[r].todo
         /\ (~At(r, "release.write") /\ ~At(r, "release.record") /\ "share" \in request[r].todo)
              => stripe[p].transfers = 0
    BY <1>3, Alone
  <1>8. CASE ReleaseCheck(r) \/ ReleaseEnd(r)
    <2>1. stripe' = stripe /\ split' = split
      BY <1>8 DEF ReleaseCheck, ReleaseEnd, SameRows, SameMoney, rowVars
    <2>2. ~At(r, "release.write") /\ ~At(r, "release.record")
      BY <1>8 DEF ReleaseCheck, ReleaseEnd, At
    <2>3. request'[r] # Idle => ~At(r, "release.write")' /\ ~At(r, "release.record")'
      <3>1. request'[r] # Idle => Goto(r, "release")
        BY <1>8, AfterFinish DEF ReleaseCheck, ReleaseEnd
      <3>2. QED
        BY <1>2, <3>1, AfterGoto DEF At, ReleasePcs
    <2>4. request'[r] = Idle => ~InRelease(r, p)'
      BY IdleShape DEF InRelease
    <2>5. QED
      BY <1>2, <1>3, <1>4, <1>5, <1>6, <1>7, <2>1, <2>2, <2>3, <2>4, CalmOwn
  <1>9. CASE ReleaseFee(r)
    <2>1. Release(p, "fee") /\ stripe' = stripe /\ ~At(r, "release.write") /\ ~At(r, "release.record")
      BY <1>1, <1>9 DEF ReleaseFee, SameMoney, At
    <2>2. /\ split'[p]["share"] = split[p]["share"]
          /\ \A q \in Payments \ {p} : split'[q] = split[q]
      BY <2>1, SplitWrite DEF Splits
    <2>3. request'[r].pc = "release" /\ request'[r].todo = request[r].todo \ {"fee"}
      BY <1>2, <1>9, AfterSplit DEF ReleaseFee
    <2>4. QED
      BY <1>2, <1>3, <1>4, <1>5, <1>6, <1>7, <2>1, <2>2, <2>3, CalmOwn DEF At
  <1>10. CASE ReleaseTransfer(r)
    <2>1. /\ stripe'[p] = [stripe[p] EXCEPT !.transfers = stripe[p].transfers + 1] /\ split' = split
          /\ \A q \in Payments \ {p} : stripe'[q] = stripe[q]
      <3>1. stripe' = [stripe EXCEPT ![p] = [stripe[p] EXCEPT !.transfers = stripe[p].transfers + 1]]
        BY <1>1, <1>10 DEF ReleaseTransfer, TypeOK
      <3>2. QED
        BY <1>10, <3>1 DEF ReleaseTransfer, SameRows, rowVars, TypeOK
    <2>2. stripe'[p].transfers = stripe[p].transfers + 1 /\ stripe'[p].refunded = stripe[p].refunded
      BY <1>6, <2>1
    <2>3. /\ At(r, "release.write")' /\ InRelease(r, p)' /\ request'[r].todo = request[r].todo
          /\ "share" \in request[r].todo /\ ~At(r, "release.write") /\ ~At(r, "release.record")
      BY <1>1, <1>2, <1>10, AfterGoto DEF ReleaseTransfer, At, InRelease, ReleasePcs
    <2>4. QED
      BY <1>2, <1>3, <1>4, <1>5, <1>6, <1>7, <2>1, <2>2, <2>3, CalmOwn DEF At
  <1>11. CASE ReleaseWrite(r)
    <2>1. Release(p, "share") /\ stripe' = stripe /\ At(r, "release.write")
      BY <1>1, <1>11 DEF ReleaseWrite, SameMoney
    <2>2. /\ split'[p]["share"] = "RELEASED"
          /\ \A q \in Payments \ {p} : split'[q] = split[q]
      BY <2>1, SplitWrite DEF Splits
    <2>3. request'[r].pc = "release.record" /\ request'[r].todo = request[r].todo
      BY <1>2, <1>11, AfterGoto DEF ReleaseWrite, ReleasePcs
    <2>4. QED
      BY <1>2, <1>3, <1>4, <1>5, <1>6, <1>7, <2>1, <2>2, <2>3, CalmOwn DEF At
  <1>12. CASE ReleaseRecord(r)
    <2>1. stripe' = stripe /\ split' = split /\ At(r, "release.record") /\ ~At(r, "release.write")
      BY <1>12 DEF ReleaseRecord, SameRows, rowVars, At
    <2>2. request'[r].pc = "release" /\ request'[r].todo = request[r].todo \ {"share"}
      BY <1>2, <1>12, AfterSplit DEF ReleaseRecord
    <2>3. QED
      BY <1>2, <1>3, <1>4, <1>5, <1>6, <1>7, <2>1, <2>2, CalmOwn DEF At
  <1>13. QED
    BY <1>8, <1>9, <1>10, <1>11, <1>12 DEF ReleaseMove

LEMMA CalmDie ==
  ASSUME CalmInv, TypeOK, TypeOK', NEW r \in Requests, DieStep(r)
  PROVE  CalmInv'
  <1>1. /\ UNCHANGED <<stripe, split, overlapped>> /\ request'[r] = Idle
        /\ \A s \in Requests \ {r} : request'[s] = request[s]
        /\ untold' = IF request[r].pc \in {"release.write", "refund.write"}
                     THEN untold \cup {request[r].payment} ELSE untold
    BY AfterFinish DEF DieStep, Die, SameRows, SameMoney, rowVars
  <1>2. ASSUME NEW p \in Payments PROVE Calm(p)'
    <2>1. ~Mover(r, p)'
      BY <1>1, IdleShape DEF Mover, InRelease, InRefund
    <2>2. Mover(r, p) => request[r].payment = p
      BY DEF Mover, InRelease, InRefund
    <2>3. Calm(p)
      BY DEF CalmInv
    <2>4. QED
      BY <1>1, <2>1, <2>2, <2>3, CalmFrame
  <1>3. QED
    BY <1>2 DEF CalmInv

LEMMA CalmInvariant == Spec => []CalmInv
  <1>1. Init => CalmInv
    BY IdleShape DEF Init, CalmInv, Calm, Mover, InRelease, InRefund
  <1>2. TypeOK /\ TypeOK' /\ CalmInv /\ [Next]_vars => CalmInv'
    <2> SUFFICES ASSUME TypeOK, TypeOK', CalmInv, [Next]_vars PROVE CalmInv'
      OBVIOUS
    <2>1. CASE UNCHANGED vars
      <3>1. UNCHANGED <<request, stripe, split, overlapped, untold>>
        BY <2>1 DEF vars, rowVars, history
      <3>2. \A p \in Payments : Calm(p)'
        BY <3>1, CalmFrame DEF CalmInv
      <3>3. QED
        BY <3>2 DEF CalmInv
    <2>2. QED
      BY <2>1, NextCases, CalmElsewhere, CalmBegin, CalmRefund, CalmRelease, CalmDie
         DEF Begin, PaymentMove
  <1>3. QED
    BY <1>1, <1>2, EscrowTypeCorrect, PTL DEF Spec

(* A payment leaves twice only after two handlers overlapped, or one died  *)
(* between its Stripe call and the write that tells of it: no late or      *)
(* repeated event, and no retry of a finished release, pays again.         *)
THEOREM PaidTwiceExplained == Spec => []PaidTwiceNeedsOverlap
  <1>1. TypeOK /\ CalmInv => PaidTwiceNeedsOverlap
    <2> SUFFICES ASSUME TypeOK, CalmInv, NEW p \in Payments, p \notin overlapped \cup untold
                 PROVE  ~(stripe[p].transfers > 1 \/ (stripe[p].refunded /\ stripe[p].transfers > 0))
      BY DEF PaidTwiceNeedsOverlap
    <2>1. /\ stripe[p].transfers <= 1 /\ stripe[p].refunded => stripe[p].transfers = 0
      BY DEF CalmInv, Calm
    <2>2. stripe[p].transfers \in Nat
      BY DEF TypeOK
    <2>3. QED
      BY <2>1, <2>2 DEF CalmInv, Calm
  <1>2. QED
    BY <1>1, CalmInvariant, EscrowTypeCorrect, PTL

---------------------------------------------------------------------------
(* Why the books balance: a handler owes a row from the moment the money   *)
(* moved, or the success was published, until it wrote the row or died.    *)
Owes(r, p, t) == <<p, t>> \in Unbooked(r)

LEMMA OwesIs ==
  ASSUME NEW r, NEW p, NEW t
  PROVE  Owes(r, p, t) <=>
           \/ At(r, "succ.charge") /\ p = Of(request[r].event) /\ t = "CHARGE"
           \/ /\ request[r].pc \in {"release.write", "release.record"}
              /\ p = request[r].payment /\ t = "TRANSFER"
           \/ /\ request[r].pc \in {"refund.write", "refund.record"}
              /\ p = request[r].payment /\ t = "REFUND"
  <1>1. CASE At(r, "succ.charge")
    BY <1>1 DEF Owes, Unbooked, At
  <1>2. CASE request[r].pc \in {"release.write", "release.record"}
    BY <1>2 DEF Owes, Unbooked, At
  <1>3. CASE request[r].pc \in {"refund.write", "refund.record"}
    BY <1>3 DEF Owes, Unbooked, At
  <1>4. CASE ~At(r, "succ.charge") /\ request[r].pc \notin {"release.write", "release.record"}
             /\ request[r].pc \notin {"refund.write", "refund.record"}
    BY <1>4 DEF Owes, Unbooked
  <1>5. QED
    BY <1>1, <1>2, <1>3, <1>4

LEMMA HappenedIs ==
  ASSUME NEW p
  PROVE  /\ Happened(p, "CHARGE") = published[p]
         /\ Happened(p, "TRANSFER") = stripe[p].transfers
         /\ Happened(p, "REFUND") = IF stripe[p].refunded THEN 1 ELSE 0
  BY DEF Happened

LEMMA PendingStep ==
  ASSUME NEW r \in Requests, \A s \in Requests \ {r} : request'[s] = request[s], NEW p, NEW t
  PROVE  /\ Pending(p, t) \in Nat
         /\ (Owes(r, p, t) <=> Owes(r, p, t)') => Pending(p, t)' = Pending(p, t)
         /\ ~Owes(r, p, t) /\ Owes(r, p, t)' => Pending(p, t)' = Pending(p, t) + 1
         /\ Owes(r, p, t) /\ ~Owes(r, p, t)' => Pending(p, t)' = Pending(p, t) - 1
  <1> DEFINE S == {s \in Requests : Owes(s, p, t)}
             T == {s \in Requests : Owes(s, p, t)'}
  <1>1. Pending(p, t) = Cardinality(S) /\ Pending(p, t)' = Cardinality(T)
    BY DEF Pending, Owes
  <1>2. IsFiniteSet(S)
    BY EscrowConstants, FS_Subset
  <1>3. \A s \in Requests \ {r} : Owes(s, p, t)' <=> Owes(s, p, t)
    BY DEF Owes, Unbooked, At
  <1>4. /\ (Owes(r, p, t) <=> Owes(r, p, t)') => T = S
        /\ ~Owes(r, p, t) /\ Owes(r, p, t)' => r \notin S /\ T = S \cup {r}
        /\ Owes(r, p, t) /\ ~Owes(r, p, t)' => r \in S /\ T = S \ {r}
    BY <1>3
  <1> HIDE DEF S, T
  <1>5. Cardinality(S) \in Nat
    BY <1>2, FS_CardinalityType
  <1>6. r \notin S => Cardinality(S \cup {r}) = Cardinality(S) + 1
    BY <1>2, FS_AddElement
  <1>7. r \in S => Cardinality(S \ {r}) = Cardinality(S) - 1
    BY <1>2, FS_RemoveElement
  <1>8. QED
    BY <1>1, <1>4, <1>5, <1>6, <1>7

(* One step of one handler, seen by one kind of row of one payment.        *)
Unmoved(r, p, t)  == /\ Happened(p, t)' = Happened(p, t) /\ books'[p][t] = books[p][t]
                     /\ lost'[p][t] = lost[p][t] /\ (Owes(r, p, t)' <=> Owes(r, p, t))
Incurred(r, p, t) == /\ Happened(p, t)' = Happened(p, t) + 1 /\ books'[p][t] = books[p][t]
                     /\ lost'[p][t] = lost[p][t] /\ ~Owes(r, p, t) /\ Owes(r, p, t)'
Booked(r, p, t)   == /\ Happened(p, t)' = Happened(p, t) /\ books'[p][t] = books[p][t] + 1
                     /\ lost'[p][t] = lost[p][t] /\ Owes(r, p, t) /\ ~Owes(r, p, t)'
Dropped(r, p, t)  == /\ Happened(p, t)' = Happened(p, t) /\ books'[p][t] = books[p][t]
                     /\ lost'[p][t] = lost[p][t] + 1 /\ Owes(r, p, t) /\ ~Owes(r, p, t)'

LEMMA BalanceFrame ==
  ASSUME TypeOK, TypeOK', BooksBalance, NEW r \in Requests,
         \A s \in Requests \ {r} : request'[s] = request[s],
         \A p \in Payments, t \in Rows :
           Unmoved(r, p, t) \/ Incurred(r, p, t) \/ Booked(r, p, t) \/ Dropped(r, p, t)
  PROVE  BooksBalance'
  <1> SUFFICES ASSUME NEW p \in Payments, NEW t \in Rows
               PROVE  Happened(p, t)' = books'[p][t] + Pending(p, t)' + lost'[p][t]
    BY DEF BooksBalance
  <1>1. Happened(p, t) = books[p][t] + Pending(p, t) + lost[p][t]
    BY DEF BooksBalance
  <1>2. books[p][t] \in Nat /\ lost[p][t] \in Nat
    BY DEF TypeOK
  <1>3. /\ Pending(p, t) \in Nat
        /\ (Owes(r, p, t) <=> Owes(r, p, t)') => Pending(p, t)' = Pending(p, t)
        /\ ~Owes(r, p, t) /\ Owes(r, p, t)' => Pending(p, t)' = Pending(p, t) + 1
        /\ Owes(r, p, t) /\ ~Owes(r, p, t)' => Pending(p, t)' = Pending(p, t) - 1
    BY PendingStep
  <1>4. CASE Unmoved(r, p, t)
    BY <1>1, <1>2, <1>3, <1>4 DEF Unmoved
  <1>5. CASE Incurred(r, p, t)
    BY <1>1, <1>2, <1>3, <1>5 DEF Incurred
  <1>6. CASE Booked(r, p, t)
    BY <1>1, <1>2, <1>3, <1>6 DEF Booked
  <1>7. CASE Dropped(r, p, t)
    BY <1>1, <1>2, <1>3, <1>7 DEF Dropped
  <1>8. QED
    BY <1>4, <1>5, <1>6, <1>7

(* Steps that move no money and write no row.                              *)
LEMMA BalanceIdle ==
  ASSUME TypeOK, TypeOK', BooksBalance, books' = books, lost' = lost, published' = published,
         \A p \in Payments : /\ stripe'[p].transfers = stripe[p].transfers
                             /\ stripe'[p].refunded = stripe[p].refunded,
         \/ request' = request
         \/ \E r \in Requests : /\ \A s \in Requests \ {r} : request'[s] = request[s]
                                /\ \A p \in Payments, t \in Rows : Owes(r, p, t)' <=> Owes(r, p, t)
  PROVE  BooksBalance'
  <1>1. \A p \in Payments, t \in Rows : Happened(p, t)' = Happened(p, t)
    BY DEF Happened
  <1>2. CASE request' = request
    <2>1. \A p \in Payments, t \in Rows : Pending(p, t)' = Pending(p, t)
      BY <1>2 DEF Pending, Unbooked, At
    <2>2. QED
      BY <1>1, <2>1 DEF BooksBalance
  <1>3. ASSUME NEW r \in Requests, \A s \in Requests \ {r} : request'[s] = request[s],
               \A p \in Payments, t \in Rows : Owes(r, p, t)' <=> Owes(r, p, t)
        PROVE  BooksBalance'
    BY <1>1, <1>3, BalanceFrame DEF Unmoved
  <1>4. QED
    BY <1>2, <1>3

OwingPcs == {"succ.charge", "release.write", "release.record", "refund.write", "refund.record"}

LEMMA OwesNothing ==
  ASSUME NEW r, request[r].pc \notin OwingPcs
  PROVE  \A p, t : ~Owes(r, p, t)
  BY OwesIs DEF OwingPcs, At

LEMMA OwesNothingNext ==
  ASSUME NEW r, request'[r].pc \notin OwingPcs
  PROVE  \A p, t : ~Owes(r, p, t)'
  BY DEF OwingPcs, At, Owes, Unbooked

LEMMA BalanceWorld ==
  ASSUME TypeOK, TypeOK', BooksBalance, World
  PROVE  BooksBalance'
  <1>1. ASSUME NEW p \in Payments, StripeCharges(p) PROVE BooksBalance'
    <2>1. \A q \in Payments : /\ stripe'[q].transfers = stripe[q].transfers
                              /\ stripe'[q].refunded = stripe[q].refunded
      <3>1. stripe[p] \in [charged: BOOLEAN, transfers: Nat, refunded: BOOLEAN]
        BY DEF TypeOK
      <3>2. stripe' = [stripe EXCEPT ![p] = [stripe[p] EXCEPT !.charged = TRUE]]
        BY <1>1 DEF StripeCharges, TypeOK
      <3>3. QED
        BY <3>1, <3>2 DEF TypeOK
    <2>2. QED
      BY <1>1, <2>1, BalanceIdle DEF StripeCharges, history
  <1>2. CASE UNCHANGED <<books, lost, published, stripe, request>>
    BY <1>2, BalanceIdle
  <1>3. QED
    BY <1>1, <1>2 DEF World, StripeDeclines, SubjectMoves, LockExpires, HookReplay, SameMoney, history

LEMMA BalanceQuiet ==
  ASSUME TypeOK, TypeOK', BooksBalance, NEW r \in Requests,
         \/ Begin(r) \/ HookLock(r) \/ HookCheck(r) \/ HookRead(r) \/ HookRecord(r) \/ FailedWrite(r)
         \/ CreateRow(r) \/ ReleaseCheck(r) \/ ReleaseFee(r) \/ ReleaseEnd(r)
  PROVE  BooksBalance'
  <1>1. UNCHANGED <<books, lost, published, stripe>>
    BY DEF Begin, CreateBegin, ReleaseBegin, RefundBegin, HookBegin, HookLock, HookCheck, HookRead,
       HookRecord, FailedWrite, CreateRow, ReleaseCheck, ReleaseFee, ReleaseEnd, SameMoney, history
  <1>2. \A s \in Requests \ {r} : request'[s] = request[s]
    BY Begins, HookMoves, PaymentMoves, ReleaseMoves DEF HookMove, PaymentMove, ReleaseMove
  <1>3. request[r].pc \notin OwingPcs
    BY Begins, IdleShape DEF HookLock, HookCheck, HookRead, HookRecord, FailedWrite, CreateRow,
       ReleaseCheck, ReleaseFee, ReleaseEnd, At, OwingPcs
  <1>4. request'[r].pc \notin OwingPcs
    <2>1. CASE Begin(r)
      BY <2>1, Begins DEF OwingPcs
    <2>2. CASE Finish(r)
      BY <2>2, AfterFinish, IdleShape DEF OwingPcs
    <2>3. CASE HookLock(r) \/ HookCheck(r) \/ HookRead(r) \/ FailedWrite(r)
      <3>1. Finish(r) \/ \E pc \in {"hook.check", "hook.read", "hook.record", "succ.write", "fail.write"} :
                           Goto(r, pc)
        BY <2>3 DEF HookLock, HookCheck, HookRead, FailedWrite
      <3>2. request[r] \in HookRequest
        BY <2>3, HookMoves DEF HookMove
      <3>3. QED
        BY <2>2, <3>1, <3>2, AfterGoto DEF HookPcs, OwingPcs
    <2>4. CASE ReleaseCheck(r) \/ ReleaseFee(r)
      <3>1. request[r] \in ReleaseRequest
        BY <2>4, ReleaseMoves DEF ReleaseMove
      <3>2. CASE ReleaseCheck(r)
        BY <2>2, <3>1, <3>2, AfterGoto DEF ReleaseCheck, ReleasePcs, OwingPcs
      <3>3. CASE ReleaseFee(r)
        BY <3>1, <3>3, AfterSplit DEF ReleaseFee, OwingPcs
      <3>4. QED
        BY <2>4, <3>2, <3>3
    <2>5. QED
      BY <2>1, <2>2, <2>3, <2>4 DEF HookRecord, CreateRow, ReleaseEnd
  <1>5. QED
    BY <1>1, <1>2, <1>3, <1>4, OwesNothing, OwesNothingNext, BalanceIdle

LEMMA BalanceHook ==
  ASSUME TypeOK, TypeOK', BooksBalance, NEW r \in Requests, SucceededWrite(r) \/ SucceededCharge(r)
  PROVE  BooksBalance'
  <1>1. PICK e \in Events : e = request[r].event
    BY HookMoves DEF HookMove
  <1>2. /\ request[r] \in HookRequest /\ Of(e) \in Payments
        /\ \A s \in Requests \ {r} : request'[s] = request[s]
    BY <1>1, HookMoves, EventParts DEF HookMove
  <1>3. stripe' = stripe /\ lost' = lost
    BY DEF SucceededWrite, SucceededCharge, history
  <1>4. CASE SucceededWrite(r)
    <2>1. request[r].pc \notin OwingPcs /\ Goto(r, "succ.charge")
      BY <1>4 DEF SucceededWrite, At, OwingPcs
    <2>2. request'[r].pc = "succ.charge" /\ request'[r].event = e
      BY <1>1, <1>2, <2>1, AfterGoto DEF HookPcs
    <2>3. /\ published'[Of(e)] = published[Of(e)] + 1 /\ books' = books
          /\ \A q \in Payments \ {Of(e)} : published'[q] = published[q]
      BY <1>1, <1>2, <1>4 DEF SucceededWrite, TypeOK
    <2>4. \A p, t : Owes(r, p, t)' <=> (p = Of(e) /\ t = "CHARGE")
      BY <2>2 DEF Owes, Unbooked, At, Of
    <2>5. \A p, t : ~Owes(r, p, t)
      BY <2>1, OwesNothing
    <2>6. ASSUME NEW p \in Payments, NEW t \in Rows PROVE Unmoved(r, p, t) \/ Incurred(r, p, t)
      <3>1. CASE p = Of(e) /\ t = "CHARGE"
        <4>1. Happened(p, t)' = Happened(p, t) + 1
          BY <2>3, <3>1 DEF Happened
        <4>2. QED
          BY <1>3, <2>3, <2>4, <2>5, <3>1, <4>1 DEF Incurred
      <3>2. CASE ~(p = Of(e) /\ t = "CHARGE")
        <4>1. Happened(p, t)' = Happened(p, t)
          BY <1>3, <2>3, <3>2 DEF Happened, Rows
        <4>2. QED
          BY <1>3, <2>3, <2>4, <2>5, <3>2, <4>1 DEF Unmoved
      <3>3. QED
        BY <3>1, <3>2
    <2>7. QED
      BY <1>2, <2>6, BalanceFrame
  <1>5. CASE SucceededCharge(r)
    <2>1. At(r, "succ.charge") /\ Goto(r, "hook.record") /\ Book(Of(e), "CHARGE") /\ published' = published
      BY <1>1, <1>5 DEF SucceededCharge
    <2>2. request'[r].pc \notin OwingPcs
      BY <1>2, <2>1, AfterGoto DEF HookPcs, OwingPcs
    <2>3. \A p, t : ~Owes(r, p, t)' /\ (Owes(r, p, t) <=> (p = Of(e) /\ t = "CHARGE"))
      BY <1>1, <2>1, <2>2, OwesNothingNext, OwesIs DEF At
    <2>4. /\ books'[Of(e)]["CHARGE"] = books[Of(e)]["CHARGE"] + 1
          /\ \A u \in Rows \ {"CHARGE"} : books'[Of(e)][u] = books[Of(e)][u]
          /\ \A q \in Payments \ {Of(e)} : books'[q] = books[q]
      BY <1>2, <2>1, BookWrite DEF Rows
    <2>5. \A p \in Payments, t \in Rows : Happened(p, t)' = Happened(p, t)
      BY <1>3, <2>1 DEF Happened
    <2>6. \A p \in Payments, t \in Rows : Unmoved(r, p, t) \/ Booked(r, p, t)
      BY <1>3, <2>3, <2>4, <2>5 DEF Unmoved, Booked
    <2>7. QED
      BY <1>2, <2>6, BalanceFrame
  <1>6. QED
    BY <1>4, <1>5

(* The release and the refund go the same way, row by row.                 *)
LEMMA BalanceMove ==
  ASSUME TypeOK, TypeOK', BooksBalance, NEW r \in Requests, NEW p \in Payments,
         NEW k \in {"TRANSFER", "REFUND"}, lost' = lost, published' = published,
         request[r].payment = p, \A s \in Requests \ {r} : request'[s] = request[s],
         \A q \in Payments \ {p} : stripe'[q] = stripe[q],
         \/ /\ request[r].pc \notin OwingPcs /\ books' = books
            /\ \A q \in Payments, t \in Rows : Owes(r, q, t)' <=> (q = p /\ t = k)
            /\ Happened(p, k)' = Happened(p, k) + 1
            /\ \A t \in Rows \ {k} : Happened(p, t)' = Happened(p, t)
         \/ /\ request'[r].pc \notin OwingPcs /\ Book(p, k)
            /\ \A q \in Payments, t \in Rows : Owes(r, q, t) <=> (q = p /\ t = k)
            /\ stripe' = stripe
  PROVE  BooksBalance'
  <1>1. \A q \in Payments \ {p}, t \in Rows : Happened(q, t)' = Happened(q, t)
    BY DEF Happened
  <1>2. CASE /\ request[r].pc \notin OwingPcs /\ books' = books
             /\ \A q \in Payments, t \in Rows : Owes(r, q, t)' <=> (q = p /\ t = k)
             /\ Happened(p, k)' = Happened(p, k) + 1
             /\ \A t \in Rows \ {k} : Happened(p, t)' = Happened(p, t)
    <2>1. \A q \in Payments, t \in Rows : Unmoved(r, q, t) \/ Incurred(r, q, t)
      BY <1>1, <1>2, OwesNothing DEF Unmoved, Incurred
    <2>2. QED
      BY <2>1, BalanceFrame
  <1>3. CASE /\ request'[r].pc \notin OwingPcs /\ Book(p, k)
             /\ \A q \in Payments, t \in Rows : Owes(r, q, t) <=> (q = p /\ t = k)
             /\ stripe' = stripe
    <2>1. \A q \in Payments, t \in Rows : Happened(q, t)' = Happened(q, t)
      BY <1>3 DEF Happened
    <2>2. /\ books'[p][k] = books[p][k] + 1 /\ \A u \in Rows \ {k} : books'[p][u] = books[p][u]
          /\ \A q \in Payments \ {p} : books'[q] = books[q]
      BY <1>3, BookWrite DEF Rows
    <2>3. \A q \in Payments, t \in Rows : Unmoved(r, q, t) \/ Booked(r, q, t)
      BY <1>3, <2>1, <2>2, OwesNothingNext DEF Unmoved, Booked
    <2>4. QED
      BY <2>3, BalanceFrame
  <1>4. QED
    BY <1>2, <1>3

LEMMA BalanceRelease ==
  ASSUME TypeOK, TypeOK', BooksBalance, NEW r \in Requests,
         ReleaseTransfer(r) \/ ReleaseWrite(r) \/ ReleaseRecord(r)
  PROVE  BooksBalance'
  <1>1. PICK p \in Payments : p = request[r].payment
    BY ReleaseMoves DEF ReleaseMove
  <1>2. request[r] \in ReleaseRequest /\ \A s \in Requests \ {r} : request'[s] = request[s]
    BY ReleaseMoves DEF ReleaseMove
  <1>3. lost' = lost /\ published' = published
    BY DEF ReleaseTransfer, ReleaseWrite, ReleaseRecord, SameMoney, history
  <1>4. CASE ReleaseTransfer(r)
    <2>1. request'[r].pc = "release.write" /\ request'[r].payment = p /\ request[r].pc \notin OwingPcs
      BY <1>1, <1>2, <1>4, AfterGoto DEF ReleaseTransfer, At, ReleasePcs, OwingPcs
    <2>2. \A q \in Payments, t \in Rows : Owes(r, q, t)' <=> (q = p /\ t = "TRANSFER")
      BY <2>1 DEF Owes, Unbooked, At
    <2>3. /\ stripe'[p].transfers = stripe[p].transfers + 1 /\ stripe'[p].refunded = stripe[p].refunded
          /\ \A q \in Payments \ {p} : stripe'[q] = stripe[q]
      <3>1. stripe[p] \in [charged: BOOLEAN, transfers: Nat, refunded: BOOLEAN]
        BY DEF TypeOK
      <3>2. stripe' = [stripe EXCEPT ![p] = [stripe[p] EXCEPT !.transfers = stripe[p].transfers + 1]]
        BY <1>1, <1>4 DEF ReleaseTransfer, TypeOK
      <3>3. QED
        BY <3>1, <3>2 DEF TypeOK
    <2>4. /\ Happened(p, "TRANSFER")' = Happened(p, "TRANSFER") + 1
          /\ \A t \in Rows \ {"TRANSFER"} : Happened(p, t)' = Happened(p, t)
      BY <1>3, <2>3 DEF Happened, Rows
    <2>5. books' = books
      BY <1>4 DEF ReleaseTransfer
    <2>6. QED
      BY <1>1, <1>2, <1>3, <2>1, <2>2, <2>3, <2>4, <2>5, BalanceMove
  <1>5. CASE ReleaseWrite(r)
    <2>1. /\ request'[r].pc = "release.record" /\ request'[r].payment = p
          /\ request[r].pc = "release.write"
      BY <1>1, <1>2, <1>5, AfterGoto DEF ReleaseWrite, At, ReleasePcs
    <2>2. \A q \in Payments, t \in Rows : Owes(r, q, t)' <=> Owes(r, q, t)
      BY <1>1, <2>1 DEF Owes, Unbooked, At
    <2>3. QED
      BY <1>2, <1>3, <1>5, <2>2, BalanceIdle DEF ReleaseWrite, SameMoney
  <1>6. CASE ReleaseRecord(r)
    <2>1. request'[r].pc \notin OwingPcs
      BY <1>2, <1>6, AfterSplit DEF ReleaseRecord, OwingPcs
    <2>2. \A q \in Payments, t \in Rows : Owes(r, q, t) <=> (q = p /\ t = "TRANSFER")
      BY <1>1, <1>6, OwesIs DEF ReleaseRecord, At
    <2>3. Book(p, "TRANSFER") /\ stripe' = stripe
      BY <1>1, <1>6 DEF ReleaseRecord
    <2>4. QED
      BY <1>1, <1>2, <1>3, <2>1, <2>2, <2>3, BalanceMove
  <1>7. QED
    BY <1>4, <1>5, <1>6

LEMMA BalanceRefund ==
  ASSUME TypeOK, TypeOK', BooksBalance, NEW r \in Requests,
         RefundStripe(r) \/ RefundWrite(r) \/ RefundRecord(r)
  PROVE  BooksBalance'
  <1>1. PICK p \in Payments : p = request[r].payment
    BY PaymentMoves DEF PaymentMove
  <1>2. request[r] \in PaymentRequest /\ \A s \in Requests \ {r} : request'[s] = request[s]
    BY PaymentMoves DEF PaymentMove
  <1>3. lost' = lost /\ published' = published
    BY DEF RefundStripe, RefundWrite, RefundRecord, SameMoney, history
  <1>4. CASE RefundStripe(r)
    <2>1. request[r].pc \notin OwingPcs /\ books' = books
      BY <1>4 DEF RefundStripe, At, OwingPcs
    <2>2. /\ stripe'[p].transfers = stripe[p].transfers /\ stripe'[p].refunded
          /\ \A q \in Payments \ {p} : stripe'[q] = stripe[q]
      <3>1. stripe[p] \in [charged: BOOLEAN, transfers: Nat, refunded: BOOLEAN]
        BY DEF TypeOK
      <3>2. stripe' = [stripe EXCEPT ![p] = [stripe[p] EXCEPT !.refunded = TRUE]]
        BY <1>1, <1>4 DEF RefundStripe, TypeOK
      <3>3. QED
        BY <3>1, <3>2 DEF TypeOK
    <2>3. CASE stripe[p].refunded
      <3>1. request'[r].pc \notin OwingPcs
        BY <1>1, <1>4, <2>3, AfterFinish, IdleShape DEF RefundStripe, OwingPcs
      <3>2. \A q \in Payments : /\ stripe'[q].transfers = stripe[q].transfers
                                /\ stripe'[q].refunded = stripe[q].refunded
        BY <2>2, <2>3 DEF TypeOK
      <3>3. QED
        BY <1>2, <1>3, <2>1, <3>1, <3>2, OwesNothing, OwesNothingNext, BalanceIdle
    <2>4. CASE ~stripe[p].refunded
      <3>1. request'[r].pc = "refund.write" /\ request'[r].payment = p
        BY <1>1, <1>2, <1>4, <2>4, AfterGoto DEF RefundStripe, PaymentPcs
      <3>2. \A q \in Payments, t \in Rows : Owes(r, q, t)' <=> (q = p /\ t = "REFUND")
        BY <3>1 DEF Owes, Unbooked, At
      <3>3. /\ Happened(p, "REFUND")' = Happened(p, "REFUND") + 1
            /\ \A t \in Rows \ {"REFUND"} : Happened(p, t)' = Happened(p, t)
        BY <1>3, <2>2, <2>4 DEF Happened, Rows
      <3>4. QED
        BY <1>1, <1>2, <1>3, <2>1, <2>2, <3>2, <3>3, BalanceMove
    <2>5. QED
      BY <2>3, <2>4
  <1>5. CASE RefundWrite(r)
    <2>1. /\ request'[r].pc = "refund.record" /\ request'[r].payment = p
          /\ request[r].pc = "refund.write"
      BY <1>1, <1>2, <1>5, AfterGoto DEF RefundWrite, At, PaymentPcs
    <2>2. \A q \in Payments, t \in Rows : Owes(r, q, t)' <=> Owes(r, q, t)
      BY <1>1, <2>1 DEF Owes, Unbooked, At
    <2>3. QED
      BY <1>2, <1>3, <1>5, <2>2, BalanceIdle DEF RefundWrite, SameMoney
  <1>6. CASE RefundRecord(r)
    <2>1. request'[r].pc \notin OwingPcs
      BY <1>6, AfterFinish, IdleShape DEF RefundRecord, OwingPcs
    <2>2. \A q \in Payments, t \in Rows : Owes(r, q, t) <=> (q = p /\ t = "REFUND")
      BY <1>1, <1>6, OwesIs DEF RefundRecord, At
    <2>3. Book(p, "REFUND") /\ stripe' = stripe
      BY <1>1, <1>6 DEF RefundRecord
    <2>4. QED
      BY <1>1, <1>2, <1>3, <2>1, <2>2, <2>3, BalanceMove
  <1>7. QED
    BY <1>4, <1>5, <1>6

LEMMA BalanceDie ==
  ASSUME TypeOK, TypeOK', BooksBalance, NEW r \in Requests, DieStep(r)
  PROVE  BooksBalance'
  <1>1. /\ UNCHANGED <<stripe, published, books>> /\ request'[r] = Idle
        /\ \A s \in Requests \ {r} : request'[s] = request[s]
    BY AfterFinish DEF DieStep, Die, SameMoney
  <1>2. \A p \in Payments, t \in Rows :
           lost'[p][t] = IF Owes(r, p, t) THEN lost[p][t] + 1 ELSE lost[p][t]
    BY DEF DieStep, Die, Owes
  <1>3. \A p, t : ~Owes(r, p, t)'
    BY <1>1, IdleShape, OwesNothingNext DEF OwingPcs
  <1>4. \A p \in Payments, t \in Rows : Happened(p, t)' = Happened(p, t)
    BY <1>1 DEF Happened
  <1>5. \A p \in Payments, t \in Rows : Unmoved(r, p, t) \/ Dropped(r, p, t)
    BY <1>1, <1>2, <1>3, <1>4 DEF Unmoved, Dropped
  <1>6. QED
    BY <1>1, <1>5, BalanceFrame

(* The transactions table balances with what Stripe did and what was       *)
(* published, but for the rows that live handlers owe and dead ones lost.  *)
THEOREM BooksAlwaysBalance == Spec => []BooksBalance
  <1>1. Init => BooksBalance
    <2> SUFFICES ASSUME Init, NEW p \in Payments, NEW t \in Rows
                 PROVE  Happened(p, t) = books[p][t] + Pending(p, t) + lost[p][t]
      BY DEF BooksBalance
    <2>1. \A r \in Requests : ~Owes(r, p, t)
      BY IdleShape, OwesNothing DEF Init, OwingPcs
    <2>2. {r \in Requests : <<p, t>> \in Unbooked(r)} = {}
      BY <2>1 DEF Owes
    <2>3. Pending(p, t) = 0
      BY <2>2, FS_EmptySet DEF Pending
    <2>4. Happened(p, t) = 0 /\ books[p][t] = 0 /\ lost[p][t] = 0
      BY DEF Init, Happened, NoRows, Rows
    <2>5. QED
      BY <2>3, <2>4
  <1>2. TypeOK /\ TypeOK' /\ BooksBalance /\ [Next]_vars => BooksBalance'
    <2> SUFFICES ASSUME TypeOK, TypeOK', BooksBalance, [Next]_vars PROVE BooksBalance'
      OBVIOUS
    <2>1. CASE UNCHANGED vars
      <3>1. UNCHANGED <<books, lost, published, stripe, request>>
        BY <2>1 DEF vars, history
      <3>2. QED
        BY <3>1, BalanceIdle
    <2>2. QED
      BY <2>1, NextCases, BalanceWorld, BalanceQuiet, BalanceHook, BalanceRelease, BalanceRefund,
         BalanceDie DEF HookMove, PaymentMove, ReleaseMove
  <1>3. QED
    BY <1>1, <1>2, EscrowTypeCorrect, PTL DEF Spec

---------------------------------------------------------------------------
(* Why events take effect.  The lock of an event names the handler at work *)
(* on it, and only that one unless the lock expired; what a handler is     *)
(* about to do fits what the payment's row and the outbox already say.     *)
Tended(e) ==
  /\ \A r \in Requests : lock[e] = r => Handling(r, e)
  /\ lock[e] = "dead" => e \in forsaken
  /\ e \notin expired => \A r \in Requests : Handling(r, e) => lock[e] = r
  /\ e \in acked => e \in recorded \cup forsaken \/ \E r \in Requests : Handling(r, e)

Finishing(r, e) == Handling(r, e) /\ request[r].pc \in {"succ.charge", "hook.record"}

Effective(p) ==
  /\ status[p] = "SUCCEEDED" => published[p] > 0
  /\ Event(p, "succeeded") \in recorded => published[p] > 0
  /\ published[p] > 0 => status[p] = "SUCCEEDED" \/ p \in crossed \/ stripe[p].refunded
  /\ Event(p, "succeeded") \notin forsaken \cup expired =>
       /\ published[p] <= 1
       /\ published[p] = 1 => \/ Event(p, "succeeded") \in recorded
                              \/ \E r \in Requests : Finishing(r, Event(p, "succeeded"))

Careful(r) ==
  /\ request[r].pc = "fail.write" =>
       /\ request[r].event[2] = "failed"
       /\ published[Of(request[r].event)] > 0 =>
            Of(request[r].event) \in crossed \/ stripe[Of(request[r].event)].refunded
  /\ (request[r].pc \in {"succ.charge", "hook.record"} /\ request[r].event[2] = "succeeded")
       => published[Of(request[r].event)] > 0
  /\ (request[r].pc \in {"hook.read", "succ.write"} /\ request[r].event[2] = "succeeded"
       /\ request[r].event \notin forsaken \cup expired)
       => published[Of(request[r].event)] = 0
  /\ request[r].pc \in {"refund.write", "refund.record"} => stripe[request[r].payment].refunded

EffectInv == /\ \A e \in Events : Tended(e)
             /\ \A p \in Payments : Effective(p)
             /\ \A r \in Requests : Careful(r)

LEMMA TendedFrame ==
  ASSUME NEW e \in Events, Tended(e), lock'[e] = lock[e], e \in acked' => e \in acked,
         recorded \subseteq recorded', forsaken \subseteq forsaken', expired \subseteq expired',
         \A s \in Requests : Handling(s, e)' <=> Handling(s, e)
  PROVE  Tended(e)'
  BY DEF Tended

LEMMA EffectiveFrame ==
  ASSUME NEW p \in Payments, Effective(p), published'[p] = published[p],
         status'[p] = "SUCCEEDED" => status[p] = "SUCCEEDED",
         status[p] = "SUCCEEDED" => status'[p] = "SUCCEEDED" \/ p \in crossed' \/ stripe'[p].refunded
                                    \/ ~(published[p] > 0),
         stripe[p].refunded => stripe'[p].refunded,
         crossed \subseteq crossed', forsaken \subseteq forsaken', expired \subseteq expired',
         Event(p, "succeeded") \in recorded' <=> Event(p, "succeeded") \in recorded,
         \A s \in Requests : Finishing(s, Event(p, "succeeded")) =>
                               \/ Finishing(s, Event(p, "succeeded"))'
                               \/ Event(p, "succeeded") \in forsaken'
  PROVE  Effective(p)'
  BY DEF Effective

LEMMA CarefulFrame ==
  ASSUME TypeOK, NEW r \in Requests, Careful(r), request'[r] = request[r],
         published' = published \/ ~(request[r] \in HookRequest),
         crossed \subseteq crossed', forsaken \subseteq forsaken', expired \subseteq expired',
         \A p \in Payments : stripe[p].refunded => stripe'[p].refunded
  PROVE  Careful(r)'
  BY RequestShape, EventParts DEF Careful, HookPcs, PaymentPcs

(* Steps that touch no handler of an event.                                *)
LEMMA EffectElsewhere ==
  ASSUME TypeOK, TypeOK', EffectInv,
         UNCHANGED <<lock, acked, recorded, forsaken, expired, published, crossed>>,
         \A s \in Requests : request'[s] = request[s] \/ Careful(s)',
         \A s \in Requests, e \in Events : Handling(s, e)' <=> Handling(s, e),
         \A s \in Requests, e \in Events : Finishing(s, e) => Finishing(s, e)',
         \A p \in Payments : /\ stripe[p].refunded => stripe'[p].refunded
                             /\ status'[p] = "SUCCEEDED" => status[p] = "SUCCEEDED"
                             /\ status[p] = "SUCCEEDED" =>
                                  status'[p] = "SUCCEEDED" \/ stripe'[p].refunded
  PROVE  EffectInv'
  <1>1. \A e \in Events : Tended(e)'
    BY TendedFrame DEF EffectInv
  <1>2. \A p \in Payments : Effective(p)'
    BY EventParts, EffectiveFrame DEF EffectInv
  <1>3. \A s \in Requests : Careful(s)'
    BY CarefulFrame DEF EffectInv
  <1>4. QED
    BY <1>1, <1>2, <1>3 DEF EffectInv

LEMMA EffectWorld ==
  ASSUME TypeOK, TypeOK', EffectInv, World
  PROVE  EffectInv'
  <1>1. /\ UNCHANGED <<recorded, published, crossed, forsaken, status, request>>
        /\ expired \subseteq expired'
    BY DEF World, StripeDeclines, StripeCharges, SubjectMoves, LockExpires, HookReplay, SameRows,
       SameMoney, SameHook, rowVars, hookVars, history
  <1>2. \A p \in Payments : stripe[p].refunded => stripe'[p].refunded
    <2>1. ASSUME NEW q \in Payments, StripeCharges(q)
          PROVE  \A p \in Payments : stripe'[p].refunded = stripe[p].refunded
      <3>1. stripe[q] \in [charged: BOOLEAN, transfers: Nat, refunded: BOOLEAN]
        BY DEF TypeOK
      <3>2. stripe' = [stripe EXCEPT ![q] = [stripe[q] EXCEPT !.charged = TRUE]]
        BY <2>1 DEF StripeCharges, TypeOK
      <3>3. QED
        BY <3>1, <3>2 DEF TypeOK
    <2>2. (\E q \in Payments : StripeCharges(q)) \/ stripe' = stripe
      BY DEF World, StripeDeclines, SubjectMoves, LockExpires, HookReplay, SameMoney
    <2>3. QED
      BY <2>1, <2>2
  <1>3. \A s \in Requests, e \in Events : /\ Handling(s, e)' <=> Handling(s, e)
                                          /\ Finishing(s, e)' <=> Finishing(s, e)
    BY <1>1 DEF Handling, Finishing, At
  <1>4. ASSUME NEW e \in Events PROVE Tended(e)'
    <2>1. ASSUME NEW f \in Events, LockExpires(f) PROVE Tended(e)'
      <3>1. CASE e # f
        BY <1>1, <1>3, <2>1, <3>1, TendedFrame DEF LockExpires, EffectInv, TypeOK
      <3>2. CASE e = f
        <4>1. /\ lock'[e] = "free" /\ acked' = acked
              /\ lock[e] \in Requests => e \in expired'
          BY <2>1, <3>2 DEF LockExpires, TypeOK
        <4>2. Tended(e)
          BY DEF EffectInv
        <4>3. "free" \notin Requests
          BY EscrowConstants
        <4>4. QED
          BY <1>1, <1>3, <4>1, <4>2, <4>3 DEF Tended
      <3>3. QED
        BY <3>1, <3>2
    <2>2. ASSUME NEW f \in Events, HookReplay(f) PROVE Tended(e)'
      <3>1. lock' = lock /\ expired' = expired /\ (e \in acked' => e \in acked \/ e \in recorded)
        BY <2>2 DEF HookReplay, Ack, history
      <3>2. Tended(e)
        BY DEF EffectInv
      <3>3. QED
        BY <1>1, <1>3, <3>1, <3>2 DEF Tended
    <2>3. CASE UNCHANGED <<lock, acked>>
      BY <1>1, <1>3, <2>3, TendedFrame DEF EffectInv
    <2>4. QED
      BY <2>1, <2>2, <2>3 DEF World, StripeDeclines, StripeCharges, SubjectMoves, SameHook, hookVars
  <1>5. \A p \in Payments : Effective(p)'
    BY <1>1, <1>2, <1>3, EventParts, EffectiveFrame DEF EffectInv
  <1>6. \A s \in Requests : Careful(s)'
    BY <1>1, <1>2, CarefulFrame DEF EffectInv
  <1>7. QED
    BY <1>4, <1>5, <1>6 DEF EffectInv

LEMMA EffectOthers ==
  ASSUME TypeOK, TypeOK', EffectInv, NEW r \in Requests,
         Begin(r) \/ PaymentMove(r) \/ ReleaseMove(r)
  PROVE  EffectInv'
  <1>1. UNCHANGED <<lock, acked, recorded, forsaken, expired, published, crossed>>
    BY DEF Begin, CreateBegin, ReleaseBegin, RefundBegin, HookBegin, PaymentMove, CreateRow,
       RefundStripe, RefundWrite, RefundRecord, ReleaseMove, ReleaseCheck, ReleaseFee,
       ReleaseTransfer, ReleaseWrite, ReleaseRecord, ReleaseEnd, SameMoney, SameHook, hookVars, history
  <1>2. \A s \in Requests \ {r} : request'[s] = request[s]
    BY Begins, PaymentMoves, ReleaseMoves
  <1>3. \A e \in Events : ~Handling(r, e) /\ ~Handling(r, e)'
    <2>1. CASE Begin(r)
      BY <2>1, Begins, IdleShape, KindsApart DEF Handling, At
    <2>2. CASE PaymentMove(r)
      BY <2>2, PaymentMoves, IdleShape, KindsApart DEF Handling
    <2>3. CASE ReleaseMove(r)
      BY <2>3, ReleaseMoves, IdleShape, KindsApart DEF Handling
    <2>4. QED
      BY <2>1, <2>2, <2>3
  <1>4. \A s \in Requests, e \in Events : /\ Handling(s, e)' <=> Handling(s, e)
                                          /\ Finishing(s, e)' <=> Finishing(s, e)
    BY <1>2, <1>3 DEF Handling, Finishing, At
  <1>5. \A p \in Payments : /\ stripe[p].refunded => stripe'[p].refunded
                            /\ (RefundStripe(r) /\ request[r].payment = p) => stripe'[p].refunded
    <2>1. CASE UNCHANGED stripe
      <3>1. ~RefundStripe(r) \/ stripe[request[r].payment].refunded
        <4>1. ASSUME RefundStripe(r) PROVE stripe[request[r].payment].refunded
          <5>1. request[r].payment \in Payments
            BY <4>1, PaymentMoves DEF PaymentMove
          <5>2. stripe' = [stripe EXCEPT ![request[r].payment] =
                             [stripe[request[r].payment] EXCEPT !.refunded = TRUE]]
            BY <4>1, <5>1 DEF RefundStripe, TypeOK
          <5>3. stripe[request[r].payment] \in [charged: BOOLEAN, transfers: Nat, refunded: BOOLEAN]
            BY <5>1 DEF TypeOK
          <5>4. QED
            BY <2>1, <5>1, <5>2, <5>3 DEF TypeOK
        <4>2. QED
          BY <4>1
      <3>2. QED
        BY <2>1, <3>1
    <2>2. CASE RefundStripe(r)
      <3> DEFINE q == request[r].payment
      <3>1. q \in Payments
        BY <2>2, PaymentMoves DEF PaymentMove
      <3>2. stripe' = [stripe EXCEPT ![q] = [stripe[q] EXCEPT !.refunded = TRUE]]
        BY <2>2, <3>1 DEF RefundStripe, TypeOK
      <3>3. stripe[q] \in [charged: BOOLEAN, transfers: Nat, refunded: BOOLEAN]
        BY <3>1 DEF TypeOK
      <3>4. QED
        BY <3>1, <3>2, <3>3 DEF TypeOK
    <2>3. CASE ReleaseTransfer(r)
      <3> DEFINE q == request[r].payment
      <3>1. q \in Payments
        BY <2>3, ReleaseMoves DEF ReleaseMove
      <3>2. stripe' = [stripe EXCEPT ![q] = [stripe[q] EXCEPT !.transfers = stripe[q].transfers + 1]]
        BY <2>3, <3>1 DEF ReleaseTransfer, TypeOK
      <3>3. stripe[q] \in [charged: BOOLEAN, transfers: Nat, refunded: BOOLEAN]
        BY <3>1 DEF TypeOK
      <3>4. ~RefundStripe(r)
        BY <2>3 DEF ReleaseTransfer, RefundStripe, At
      <3>5. QED
        BY <3>1, <3>2, <3>3, <3>4 DEF TypeOK
    <2>4. QED
      BY <2>1, <2>2, <2>3
         DEF Begin, CreateBegin, ReleaseBegin, RefundBegin, HookBegin, PaymentMove, CreateRow, RefundWrite,
         RefundRecord, ReleaseMove, ReleaseCheck, ReleaseFee, ReleaseWrite, ReleaseRecord, ReleaseEnd,
         SameMoney
  <1>6. Careful(r)'
    <2>1. request'[r].pc \notin {"fail.write", "succ.charge", "hook.record", "hook.read", "succ.write"}
      <3>1. request'[r] \in PaymentRequest \cup ReleaseRequest \/ request'[r] = Idle
              \/ request'[r].pc = "hook.lock"
        BY Begins, PaymentMoves, ReleaseMoves
      <3>2. QED
        BY <3>1, IdleShape DEF PaymentRequest, ReleaseRequest
    <2>2. request'[r].pc \in {"refund.write", "refund.record"} => stripe'[request'[r].payment].refunded
      <3>1. SUFFICES ASSUME request'[r].pc \in {"refund.write", "refund.record"}
                     PROVE  stripe'[request'[r].payment].refunded
        OBVIOUS
      <3>2. PaymentMove(r)
        <4>1. request'[r] \in PaymentRequest
          BY <3>1, RequestShape, Begins, PaymentMoves, ReleaseMoves, IdleShape
             DEF PaymentRequest, ReleaseRequest
        <4>2. ~ReleaseMove(r)
          BY <4>1, ReleaseMoves, IdleShape, KindsApart
        <4>3. ~Begin(r)
          BY <3>1, <4>1, Begins
        <4>4. QED
          BY <4>2, <4>3
      <3>3. /\ request[r] \in PaymentRequest /\ request[r].payment \in Payments
            /\ request'[r].payment = request[r].payment
        BY <3>1, <3>2, PaymentMoves, IdleShape
      <3>4. CASE RefundStripe(r)
        BY <1>5, <3>3, <3>4
      <3>5. CASE RefundWrite(r)
        BY <1>5, <3>3, <3>5 DEF RefundWrite, At, EffectInv, Careful
      <3>6. CASE CreateRow(r) \/ RefundRecord(r)
        BY <3>1, <3>6, AfterFinish, IdleShape DEF CreateRow, RefundRecord
      <3>7. QED
        BY <3>2, <3>4, <3>5, <3>6 DEF PaymentMove
    <2>3. QED
      BY <2>1, <2>2 DEF Careful
  <1>7. \A p \in Payments : /\ status'[p] = "SUCCEEDED" => status[p] = "SUCCEEDED"
                            /\ status[p] = "SUCCEEDED" => status'[p] = "SUCCEEDED" \/ stripe'[p].refunded
    <2>1. CASE CreateRow(r)
      BY <2>1, PaymentMoves DEF CreateRow, PaymentMove, TypeOK
    <2>2. CASE RefundWrite(r)
      <3>1. request[r].payment \in Payments /\ stripe[request[r].payment].refunded
        BY <2>2, PaymentMoves DEF PaymentMove, RefundWrite, At, EffectInv, Careful
      <3>2. QED
        BY <1>5, <2>2, <3>1 DEF RefundWrite, TypeOK
    <2>3. CASE status' = status
      BY <2>3
    <2>4. QED
      BY <2>1, <2>2, <2>3
         DEF Begin, CreateBegin, ReleaseBegin, RefundBegin, HookBegin, PaymentMove, RefundStripe,
         RefundRecord, ReleaseMove, ReleaseCheck, ReleaseFee, ReleaseTransfer, ReleaseWrite, ReleaseRecord,
         ReleaseEnd, SameRows, rowVars
  <1>8. QED
    BY <1>1, <1>2, <1>4, <1>5, <1>6, <1>7, EffectElsewhere

---------------------------------------------------------------------------
(* A step of the handler of an event: what is left to show.                *)
LEMMA EffectHandler ==
  ASSUME TypeOK, TypeOK', EffectInv, NEW r \in Requests, NEW e \in Events,
         request[r] \in HookRequest, request[r].event = e,
         request'[r] = Idle \/ (request'[r] \in HookRequest /\ request'[r].event = e),
         \A s \in Requests \ {r} : request'[s] = request[s],
         \A f \in Events \ {e} : /\ lock'[f] = lock[f] /\ (f \in acked' => f \in acked)
                                 /\ (f \in recorded' <=> f \in recorded),
         recorded \subseteq recorded', forsaken \subseteq forsaken', expired' = expired,
         crossed \subseteq crossed', UNCHANGED stripe,
         \A p \in Payments \ {Of(e)} : published'[p] = published[p] /\ status'[p] = status[p],
         Tended(e)', Effective(Of(e))',
         \A s \in Requests : (s = r \/ published' # published) => Careful(s)',
         \A p \in Payments : p # Of(e) => (p \in crossed' <=> p \in crossed)
  PROVE  EffectInv'
  <1>1. \A f \in Events \ {e}, s \in Requests : /\ Handling(s, f)' <=> Handling(s, f)
                                                /\ Finishing(s, f)' <=> Finishing(s, f)
    BY IdleShape DEF Handling, Finishing, At
  <1>2. ASSUME NEW f \in Events \ {e} PROVE Tended(f)'
    <2>1. Tended(f)
      BY DEF EffectInv
    <2>2. QED
      BY <1>1, <2>1, TendedFrame
  <1>3. ASSUME NEW p \in Payments \ {Of(e)} PROVE Effective(p)'
    <2>1. Effective(p) /\ Event(p, "succeeded") \in Events \ {e}
      BY EventParts DEF EffectInv
    <2>2. QED
      BY <1>1, <2>1, EffectiveFrame
  <1>4. ASSUME NEW s \in Requests PROVE Careful(s)'
    <2>1. CASE s = r \/ published' # published
      BY <2>1
    <2>2. CASE s # r /\ published' = published
      <3>1. Careful(s)
        BY DEF EffectInv
      <3>2. QED
        BY <2>2, <3>1, CarefulFrame
    <2>3. QED
      BY <2>1, <2>2
  <1>5. Of(e) \in Payments
    BY EventParts
  <1>6. QED
    BY <1>2, <1>3, <1>4, <1>5 DEF EffectInv

LEMMA Solo ==
  ASSUME EffectInv, NEW e \in Events, e \notin expired, NEW r \in Requests, Handling(r, e)
  PROVE  lock[e] = r /\ \A s \in Requests : Handling(s, e) => s = r
  BY DEF EffectInv, Tended

(* The handler takes the lock, finds the event recorded, or reads the      *)
(* payment: nothing of the payment changes.                                *)
LEMMA EffectGuards ==
  ASSUME TypeOK, TypeOK', EffectInv, NEW r \in Requests, HookLock(r) \/ HookCheck(r) \/ HookRead(r)
  PROVE  EffectInv'
  <1>1. PICK e \in Events : e = request[r].event
    BY HookMoves DEF HookMove
  <1>2. /\ request[r] \in HookRequest
        /\ request'[r] = Idle \/ (request'[r] \in HookRequest /\ request'[r].event = e)
        /\ \A s \in Requests \ {r} : request'[s] = request[s]
        /\ Of(e) \in Payments /\ e[2] \in {"succeeded", "failed"}
        /\ e[2] = "succeeded" => e = Event(Of(e), "succeeded")
    BY <1>1, HookMoves, EventParts DEF HookMove
  <1>3. UNCHANGED <<recorded, forsaken, expired, crossed, stripe, published, status>>
    BY DEF HookLock, HookCheck, HookRead, SameRows, SameMoney, SameHook, rowVars, hookVars, history
  <1>4. Tended(e) /\ Effective(Of(e)) /\ Careful(r)
    BY <1>2 DEF EffectInv
  <1>5. \A s \in Requests \ {r}, f \in Events : Handling(s, f)' <=> Handling(s, f)
    BY <1>2 DEF Handling, At
  <1>6. /\ request'[r] = Idle => ~Handling(r, e)'
        /\ (request'[r] # Idle /\ request'[r].pc # "hook.lock") => Handling(r, e)'
    BY <1>2, IdleShape DEF Handling, At
  <1>7. ~Finishing(r, e) /\ \A f \in Events \ {e} : ~Finishing(r, f)
    BY <1>1 DEF Finishing, Handling, HookLock, HookCheck, HookRead, At
  <1>8. Effective(Of(e))'
    <2>1. \A s \in Requests, f \in Events : Finishing(s, f) => Finishing(s, f)'
      BY <1>2, <1>5, <1>7 DEF Finishing
    <2>2. QED
      BY <1>2, <1>3, <1>4, <2>1, EventParts, EffectiveFrame
  <1>9. CASE HookLock(r) /\ lock[e] = "free"
    <2>1. /\ request'[r].pc = "hook.check" /\ acked' = acked
          /\ lock' = [lock EXCEPT ![e] = r]
      BY <1>1, <1>2, <1>9, AfterGoto DEF HookLock, HookPcs
    <2>2. lock'[e] = r /\ \A f \in Events \ {e} : lock'[f] = lock[f]
      BY <2>1 DEF TypeOK
    <2>3. Handling(r, e)'
      BY <1>2, <2>1, IdleShape DEF Handling, At
    <2>4. Tended(e)'
      <3>1. \A s \in Requests : e \notin expired => ~Handling(s, e)
        BY <1>4, <1>9, EscrowConstants DEF Tended
      <3>2. r # "dead"
        BY EscrowConstants
      <3>3. QED
        BY <1>3, <1>4, <1>5, <2>1, <2>2, <2>3, <3>1, <3>2 DEF Tended
    <2>5. Careful(r)'
      BY <2>1 DEF Careful
    <2>6. QED
      BY <1>1, <1>2, <1>3, <1>8, <2>1, <2>2, <2>4, <2>5, EffectHandler
  <1>10. CASE HookLock(r) /\ lock[e] # "free"
    <2>1. request'[r] = Idle /\ acked' = acked \cup {e} /\ lock' = lock /\ ~Handling(r, e)
      BY <1>1, <1>10, AfterFinish DEF HookLock, Ack, Handling
    <2>2. Tended(e)'
      <3>1. e \in forsaken \/ \E s \in Requests : Handling(s, e)
        BY <1>4, <1>10 DEF Tended, TypeOK
      <3>2. \A s \in Requests : Handling(s, e)' <=> Handling(s, e)
        BY <1>5, <1>6, <2>1
      <3>3. QED
        BY <1>3, <1>4, <2>1, <3>1, <3>2 DEF Tended
    <2>3. Careful(r)'
      BY <2>1, IdleShape DEF Careful
    <2>4. QED
      BY <1>1, <1>2, <1>3, <1>8, <2>1, <2>2, <2>3, EffectHandler
  <1>11. CASE HookCheck(r) /\ e \in recorded
    <2>1. /\ request'[r] = Idle /\ acked' = acked \cup {e} /\ Handling(r, e)
          /\ lock' = IF lock[e] = r THEN [lock EXCEPT ![e] = "free"] ELSE lock
      BY <1>1, <1>2, <1>11, AfterFinish DEF HookCheck, Ack, FreeLock, Handling, At
    <2>2. /\ lock'[e] = IF lock[e] = r THEN "free" ELSE lock[e]
          /\ \A f \in Events \ {e} : lock'[f] = lock[f]
      BY <2>1 DEF TypeOK
    <2>3. Tended(e)'
      BY <1>3, <1>4, <1>5, <1>6, <1>11, <2>1, <2>2, Solo, EscrowConstants DEF Tended
    <2>4. Careful(r)'
      BY <2>1, IdleShape DEF Careful
    <2>5. QED
      BY <1>1, <1>2, <1>3, <1>8, <2>1, <2>2, <2>3, <2>4, EffectHandler
  <1>12. CASE HookCheck(r) /\ e \notin recorded
    <2>1. /\ request'[r].pc = "hook.read" /\ acked' = acked /\ lock' = lock
          /\ request'[r] \in HookRequest /\ request'[r].event = e
      BY <1>1, <1>2, <1>12, AfterGoto DEF HookCheck, HookPcs
    <2>2. Handling(r, e) /\ Handling(r, e)' /\ ~Finishing(r, e)
      BY <1>1, <1>2, <1>12, <2>1 DEF HookCheck, Handling, Finishing, At
    <2>3. Tended(e)'
      <3>1. \A s \in Requests : Handling(s, e)' <=> Handling(s, e)
        BY <1>5, <2>2
      <3>2. QED
        BY <1>3, <1>4, <2>1, <3>1, TendedFrame
    <2>4. Careful(r)'
      <3>1. (e[2] = "succeeded" /\ e \notin forsaken \cup expired) => published[Of(e)] = 0
        <4>1. SUFFICES ASSUME e[2] = "succeeded", e \notin forsaken \cup expired
                       PROVE  published[Of(e)] = 0
          OBVIOUS
        <4>2. \A s \in Requests : ~Finishing(s, e)
          BY <2>2, <4>1, Solo DEF Finishing
        <4>3. published[Of(e)] <= 1 /\ published[Of(e)] # 1
          BY <1>2, <1>4, <1>12, <4>1, <4>2 DEF Effective
        <4>4. published[Of(e)] \in Nat
          BY <1>2 DEF TypeOK
        <4>5. QED
          BY <4>3, <4>4
      <3>2. QED
        BY <1>3, <2>1, <3>1 DEF Careful
    <2>5. QED
      BY <1>1, <1>2, <1>3, <1>8, <2>1, <2>3, <2>4, EffectHandler
  <1>13. CASE HookRead(r)
    <2>1. /\ request'[r].pc = IF status[Of(e)] = "SUCCEEDED" THEN "hook.record"
                              ELSE IF e[2] = "succeeded" THEN "succ.write" ELSE "fail.write"
          /\ acked' = acked /\ lock' = lock /\ At(r, "hook.read")
          /\ request'[r] \in HookRequest /\ request'[r].event = e
      BY <1>1, <1>2, <1>13, AfterGoto DEF HookRead, SameHook, hookVars, HookPcs
    <2>2. Handling(r, e) /\ Handling(r, e)'
      BY <1>1, <1>2, <2>1 DEF Handling, At
    <2>3. Tended(e)'
      <3>1. \A s \in Requests : Handling(s, e)' <=> Handling(s, e)
        BY <1>5, <2>2
      <3>2. QED
        BY <1>3, <1>4, <2>1, <3>1, TendedFrame
    <2>4. Careful(r)'
      BY <1>1, <1>2, <1>3, <1>4, <2>1 DEF Careful, Effective, At
    <2>5. QED
      BY <1>1, <1>2, <1>3, <1>8, <2>1, <2>3, <2>4, EffectHandler
  <1>14. QED
    BY <1>9, <1>10, <1>11, <1>12, <1>13

(* The success is written: whoever still holds a decline of this payment   *)
(* is crossed, and no other handler of the event is about to write it.     *)
LEMMA EffectSuccess ==
  ASSUME TypeOK, TypeOK', MoneyInv, EffectInv, NEW r \in Requests, SucceededWrite(r)
  PROVE  EffectInv'
  <1>1. PICK e \in Events : e = request[r].event
    BY HookMoves DEF HookMove
  <1> DEFINE p == Of(e)
  <1>2. /\ request[r] \in HookRequest /\ request[r].pc = "succ.write"
        /\ request'[r] \in HookRequest /\ request'[r].event = e /\ request'[r].pc = "succ.charge"
        /\ \A s \in Requests \ {r} : request'[s] = request[s]
    BY <1>1, HookMoves, AfterGoto DEF HookMove, SucceededWrite, At, HookPcs
  <1>3. p \in Payments /\ e[2] = "succeeded" /\ e = Event(p, "succeeded")
    BY <1>1, <1>2, EventParts DEF MoneyInv, Honest
  <1>4. /\ UNCHANGED <<recorded, acked, lock, forsaken, expired, stripe>>
        /\ status' = [status EXCEPT ![p] = "SUCCEEDED"]
        /\ published' = [published EXCEPT ![p] = published[p] + 1]
        /\ crossed' = IF \E s \in Requests : At(s, "fail.write") /\ Of(request[s].event) = p
                      THEN crossed \cup {p} ELSE crossed
    BY <1>1 DEF SucceededWrite, SameHook, hookVars
  <1>5. /\ published[p] \in Nat /\ published'[p] = published[p] + 1 /\ published'[p] > 0
        /\ \A q \in Payments \ {p} : published'[q] = published[q]
        /\ status'[p] = "SUCCEEDED" /\ \A q \in Payments \ {p} : status'[q] = status[q]
    <2>1. published \in [Payments -> Nat] /\ status \in [Payments -> Statuses \cup {"none"}]
      BY DEF TypeOK
    <2>2. QED
      BY <1>3, <1>4, <2>1
  <1>6. Handling(r, e) /\ Finishing(r, e)'
    BY <1>1, <1>2, IdleShape DEF Handling, Finishing, At
  <1>7. \A s \in Requests : Handling(s, e)' <=> Handling(s, e)
    BY <1>1, <1>2, IdleShape DEF Handling, At
  <1>8. Tended(e)'
    BY <1>4, <1>7, TendedFrame DEF EffectInv
  <1>9. Effective(p)'
    <2>1. e \notin forsaken \cup expired => published[p] = 0
      BY <1>1, <1>2, <1>3 DEF EffectInv, Careful
    <2>2. e \notin forsaken \cup expired => published'[p] <= 1
      BY <1>5, <2>1
    <2>3. QED
      BY <1>3, <1>4, <1>5, <1>6, <2>2 DEF Effective
  <1>10. ASSUME NEW s \in Requests PROVE Careful(s)'
    <2>1. CASE s = r
      BY <1>2, <1>3, <1>5, <2>1 DEF Careful
    <2>2. CASE s # r /\ request[s] \in HookRequest
      <3>1. request'[s] = request[s] /\ Careful(s) /\ request[s].event \in Events
        BY <1>2, <2>2, RequestShape DEF EffectInv
      <3> DEFINE q == Of(request[s].event)
      <3>2. q \in Payments
        BY <3>1, EventParts
      <3>3. ASSUME request[s].pc = "fail.write"
            PROVE  /\ request[s].event[2] = "failed"
                   /\ published'[q] > 0 => q \in crossed' \/ stripe[q].refunded
        BY <1>4, <1>5, <3>1, <3>2, <3>3 DEF Careful, At
      <3>4. published[q] > 0 => published'[q] > 0
        BY <1>5, <3>2
      <3>5. ASSUME request[s].pc \in {"hook.read", "succ.write"}, request[s].event[2] = "succeeded",
                   request[s].event \notin forsaken \cup expired
            PROVE  published'[q] = 0
        <4>1. Handling(s, request[s].event)
          BY <2>2, <3>5 DEF Handling, At
        <4>2. request[s].event # e
          BY <1>6, <2>2, <3>1, <3>5, <4>1, Solo
        <4>3. q # p
          BY <1>3, <3>1, <3>5, <4>2, EventParts
        <4>4. QED
          BY <1>5, <3>1, <3>2, <3>5, <4>3 DEF Careful
      <3>6. ~(request[s].pc \in {"refund.write", "refund.record"})
        BY <2>2 DEF HookRequest
      <3>7. QED
        BY <1>4, <3>1, <3>3, <3>4, <3>5, <3>6 DEF Careful
    <2>3. CASE s # r /\ request[s] \notin HookRequest
      BY <1>2, <1>4, <2>3, CarefulFrame DEF EffectInv
    <2>4. QED
      BY <2>1, <2>2, <2>3
  <1>11. \A q \in Payments : q # p => (q \in crossed' <=> q \in crossed)
    BY <1>4
  <1>12. crossed \subseteq crossed'
    BY <1>4
  <1>13. QED
    BY <1>1, <1>2, <1>4, <1>5, <1>8, <1>9, <1>10, <1>11, <1>12, EffectHandler

(* The CHARGE row, and the FAILED status of a decline: the handler goes on *)
(* to record its event.                                                    *)
LEMMA EffectCharge ==
  ASSUME TypeOK, TypeOK', MoneyInv, EffectInv, NEW r \in Requests,
         SucceededCharge(r) \/ FailedWrite(r)
  PROVE  EffectInv'
  <1>1. PICK e \in Events : e = request[r].event
    BY HookMoves DEF HookMove
  <1> DEFINE p == Of(e)
  <1>2. /\ request[r] \in HookRequest /\ request[r].pc \in {"succ.charge", "fail.write"}
        /\ request'[r] \in HookRequest /\ request'[r].event = e /\ request'[r].pc = "hook.record"
        /\ \A s \in Requests \ {r} : request'[s] = request[s]
    BY <1>1, HookMoves, AfterGoto DEF HookMove, SucceededCharge, FailedWrite, At, HookPcs
  <1>3. /\ p \in Payments /\ e = Event(p, e[2])
        /\ request[r].pc = "succ.charge" => e[2] = "succeeded"
        /\ request[r].pc = "fail.write" => e[2] = "failed"
    BY <1>1, <1>2, EventParts DEF MoneyInv, Honest, EffectInv, Careful
  <1>4. UNCHANGED <<recorded, acked, lock, forsaken, expired, stripe, published, crossed>>
    BY DEF SucceededCharge, FailedWrite, SameHook, SameMoney, hookVars, history
  <1>5. /\ \A q \in Payments \ {p} : status'[q] = status[q]
        /\ request[r].pc = "succ.charge" => status'[p] = status[p]
        /\ request[r].pc = "fail.write" => status'[p] = "FAILED"
    <2>1. status \in [Payments -> Statuses \cup {"none"}]
      BY DEF TypeOK
    <2>2. QED
      BY <1>1, <1>3, <2>1 DEF SucceededCharge, FailedWrite, At, SameRows, rowVars
  <1>6. /\ \A s \in Requests : Handling(s, e)' <=> Handling(s, e)
        /\ \A s \in Requests : Finishing(s, Event(p, "succeeded")) => Finishing(s, Event(p, "succeeded"))'
    BY <1>1, <1>2, IdleShape DEF Handling, Finishing, At
  <1>7. Tended(e)'
    BY <1>4, <1>6, TendedFrame DEF EffectInv
  <1>8. Effective(p)'
    <2>1. Effective(p) /\ Careful(r)
      BY <1>3 DEF EffectInv
    <2>2. status'[p] = "SUCCEEDED" => status[p] = "SUCCEEDED"
      BY <1>2, <1>5
    <2>3. status[p] = "SUCCEEDED" => \/ status'[p] = "SUCCEEDED" \/ p \in crossed' \/ stripe'[p].refunded
                                     \/ ~(published[p] > 0)
      BY <1>1, <1>2, <1>4, <1>5, <2>1 DEF Careful
    <2>4. QED
      BY <1>3, <1>4, <1>6, <2>1, <2>2, <2>3, EffectiveFrame
  <1>9. Careful(r)'
    <2>1. Careful(r)
      BY DEF EffectInv
    <2>2. QED
      BY <1>1, <1>2, <1>3, <1>4, <2>1 DEF Careful
  <1>10. QED
    BY <1>1, <1>2, <1>4, <1>5, <1>7, <1>8, <1>9, EffectHandler

(* The event is recorded and answered, unless its unique key refuses.      *)
LEMMA EffectRecord ==
  ASSUME TypeOK, TypeOK', EffectInv, NEW r \in Requests, HookRecord(r)
  PROVE  EffectInv'
  <1>1. PICK e \in Events : e = request[r].event
    BY HookMoves DEF HookMove
  <1> DEFINE p == Of(e)
  <1>2. /\ request[r] \in HookRequest /\ request[r].pc = "hook.record" /\ request'[r] = Idle
        /\ \A s \in Requests \ {r} : request'[s] = request[s]
    BY <1>1, HookMoves, AfterFinish DEF HookMove, HookRecord, At
  <1>3. p \in Payments /\ e[2] \in {"succeeded", "failed"} /\ e = Event(p, e[2])
    BY <1>1, EventParts
  <1>4. /\ UNCHANGED <<forsaken, expired, stripe, published, status, crossed>>
        /\ e \in recorded' /\ recorded' = recorded \cup {e}
        /\ acked' \subseteq acked \cup {e}
        /\ lock' = IF lock[e] = r THEN [lock EXCEPT ![e] = "free"] ELSE lock
    BY <1>1 DEF HookRecord, Ack, FreeLock, SameRows, SameMoney, rowVars, history
  <1>5. /\ lock'[e] = IF lock[e] = r THEN "free" ELSE lock[e]
        /\ \A f \in Events \ {e} : lock'[f] = lock[f]
    BY <1>4 DEF TypeOK
  <1>6. /\ ~Handling(r, e)' /\ Handling(r, e)
        /\ \A s \in Requests \ {r} : Handling(s, e)' <=> Handling(s, e)
    BY <1>1, <1>2, IdleShape DEF Handling, At
  <1>7. Tended(e)'
    BY <1>4, <1>5, <1>6, Solo, EscrowConstants DEF EffectInv, Tended
  <1>8. Effective(p)'
    <2>1. Effective(p) /\ Careful(r)
      BY <1>3 DEF EffectInv
    <2>2. CASE e[2] = "succeeded"
      <3>1. published[p] > 0 /\ e = Event(p, "succeeded")
        BY <1>1, <1>2, <1>3, <2>1, <2>2 DEF Careful
      <3>2. QED
        BY <1>4, <2>1, <3>1 DEF Effective
    <2>3. CASE e[2] # "succeeded"
      <3>1. Event(p, "succeeded") # e
        BY <1>3, <2>3, EventParts
      <3>2. \A s \in Requests : Finishing(s, Event(p, "succeeded")) => Finishing(s, Event(p, "succeeded"))'
        BY <1>1, <1>2, <3>1 DEF Finishing, Handling, At
      <3>3. QED
        BY <1>3, <1>4, <2>1, <3>1, <3>2, EffectiveFrame
    <2>4. QED
      BY <2>2, <2>3
  <1>9. Careful(r)'
    BY <1>2, IdleShape DEF Careful
  <1>10. \A f \in Events \ {e} : /\ f \in acked' => f \in acked
                                 /\ f \in recorded' <=> f \in recorded
    BY <1>4
  <1>11. QED
    BY <1>1, <1>2, <1>3, <1>4, <1>5, <1>7, <1>8, <1>9, <1>10, EffectHandler

(* A handler that dies forsakes its event, and may leave its lock behind.  *)
LEMMA EffectDie ==
  ASSUME TypeOK, TypeOK', EffectInv, NEW r \in Requests, NEW left \in {"free", "dead"}, Die(r, left)
  PROVE  EffectInv'
  <1>1. /\ request'[r] = Idle /\ \A s \in Requests \ {r} : request'[s] = request[s]
    BY AfterFinish DEF Die
  <1>2. UNCHANGED <<acked, recorded, expired, published, crossed, stripe, status>>
    BY DEF Die, SameRows, SameMoney, rowVars
  <1>3. /\ forsaken' = forsaken \cup {e \in Events : Handling(r, e)}
        /\ lock' = [e \in Events |-> IF Handling(r, e) /\ lock[e] = r THEN left ELSE lock[e]]
    BY DEF Die
  <1>4. \A e \in Events : /\ ~Handling(r, e)'
                          /\ \A s \in Requests \ {r} : /\ Handling(s, e)' <=> Handling(s, e)
                                                       /\ Finishing(s, e)' <=> Finishing(s, e)
    BY <1>1, IdleShape DEF Handling, Finishing, At
  <1>5. ASSUME NEW e \in Events PROVE Tended(e)'
    <2>1. Tended(e)
      BY DEF EffectInv
    <2>2. left \notin Requests
      BY EscrowConstants
    <2>3. CASE Handling(r, e)
      <3>1. e \in forsaken' /\ lock'[e] = IF lock[e] = r THEN left ELSE lock[e]
        BY <1>3, <2>3
      <3>2. \A s \in Requests : lock'[e] = s => Handling(s, e)'
        BY <1>4, <2>1, <2>2, <3>1 DEF Tended
      <3>3. e \notin expired => \A s \in Requests : ~Handling(s, e)'
        BY <1>4, <2>3, Solo
      <3>4. QED
        BY <1>2, <3>1, <3>2, <3>3 DEF Tended
    <2>4. CASE ~Handling(r, e)
      <3>1. lock'[e] = lock[e] /\ \A s \in Requests : Handling(s, e)' <=> Handling(s, e)
        BY <1>3, <1>4, <2>4
      <3>2. QED
        BY <1>2, <1>3, <2>1, <3>1, TendedFrame
    <2>5. QED
      BY <2>3, <2>4
  <1>6. ASSUME NEW p \in Payments PROVE Effective(p)'
    <2>1. Effective(p) /\ Event(p, "succeeded") \in Events
      BY EventParts DEF EffectInv
    <2>2. \A s \in Requests : Finishing(s, Event(p, "succeeded")) =>
            Finishing(s, Event(p, "succeeded"))' \/ Event(p, "succeeded") \in forsaken'
      BY <1>3, <1>4, <2>1 DEF Finishing
    <2>3. QED
      BY <1>2, <1>3, <2>1, <2>2, EffectiveFrame
  <1>7. ASSUME NEW s \in Requests PROVE Careful(s)'
    <2>1. CASE s = r
      BY <1>1, <2>1, IdleShape DEF Careful
    <2>2. CASE s # r
      BY <1>1, <1>2, <1>3, <2>2, CarefulFrame DEF EffectInv
    <2>3. QED
      BY <2>1, <2>2
  <1>8. QED
    BY <1>5, <1>6, <1>7 DEF EffectInv

LEMMA EffectInvariant == Spec => []EffectInv
  <1>1. Init => EffectInv
    <2> SUFFICES ASSUME Init PROVE EffectInv
      OBVIOUS
    <2>1. \A r \in Requests : request[r] = Idle
      BY DEF Init
    <2>2. \A r \in Requests, e \in Events : ~Handling(r, e)
      BY <2>1, IdleShape DEF Handling
    <2>3. \A e \in Events : Tended(e)
      BY <2>2, EscrowConstants DEF Init, Tended
    <2>4. \A p \in Payments : Effective(p)
      BY DEF Init, Effective
    <2>5. \A r \in Requests : Careful(r)
      BY <2>1, IdleShape DEF Careful
    <2>6. QED
      BY <2>3, <2>4, <2>5 DEF EffectInv
  <1>2. TypeOK /\ TypeOK' /\ MoneyInv /\ EffectInv /\ [Next]_vars => EffectInv'
    <2> SUFFICES ASSUME TypeOK, TypeOK', MoneyInv, EffectInv, [Next]_vars PROVE EffectInv'
      OBVIOUS
    <2>1. CASE UNCHANGED vars
      <3>1. UNCHANGED <<lock, acked, recorded, forsaken, expired, published, crossed, request, status, stripe>>
        BY <2>1 DEF vars, rowVars, hookVars, history
      <3>2. QED
        BY <3>1, EffectElsewhere DEF Handling, Finishing, At
    <2>2. CASE World
      BY <2>2, EffectWorld
    <2>3. ASSUME NEW r \in Requests, Begin(r) \/ PaymentMove(r) \/ ReleaseMove(r) PROVE EffectInv'
      BY <2>3, EffectOthers
    <2>4. ASSUME NEW r \in Requests, HookMove(r) PROVE EffectInv'
      BY <2>4, EffectGuards, EffectSuccess, EffectCharge, EffectRecord DEF HookMove
    <2>5. ASSUME NEW r \in Requests, DieStep(r) PROVE EffectInv'
      BY <2>5, EffectDie DEF DieStep
    <2>6. QED
      BY <2>1, <2>2, <2>3, <2>4, <2>5, NextCases
  <1>3. QED
    BY <1>1, <1>2, EscrowTypeCorrect, MoneyInvariant, PTL DEF Spec

(* An event answered 200 is recorded, in hand or forsaken by a handler that*)
(* died; a recorded success has its outbox row, and has two only after a   *)
(* death or an expired lock; a decline takes a published success back only *)
(* across a charge being written, or after the refund                      *)
(* (WebhookService.handle, RedisLockService.withLock).                     *)
THEOREM EventsHandled == Spec => []EventsTakeEffect
  <1>1. ASSUME TypeOK, EffectInv PROVE EventsTakeEffect
    <2>1. AckedIsHandled
      BY <1>1 DEF AckedIsHandled, EffectInv, Tended, TypeOK
    <2>2. SuccessPublished
      <3>1. ASSUME NEW p \in Payments
            PROVE  /\ Event(p, "succeeded") \in recorded => published[p] > 0
                   /\ published[p] > 1 => Event(p, "succeeded") \in forsaken \cup expired
        <4>1. Effective(p) /\ published[p] \in Nat
          BY <1>1 DEF EffectInv, TypeOK
        <4>2. QED
          BY <4>1 DEF Effective
      <3>2. QED
        BY <3>1 DEF SuccessPublished
    <2>3. SuccessSurvives
      BY <1>1 DEF SuccessSurvives, EffectInv, Effective
    <2>4. QED
      BY <2>1, <2>2, <2>3 DEF EventsTakeEffect
  <1>2. QED
    BY <1>1, EscrowTypeCorrect, EffectInvariant, PTL
=============================================================================
