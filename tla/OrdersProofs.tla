----------------------------- MODULE OrdersProofs -----------------------------
(***************************************************************************)
(* Orders for every value of the constants: first what Checkout keeps (its *)
(* types, the stock ledger, the two facts about returned goods, the bound  *)
(* on overselling), then what Fulfilment adds (its types, that nothing     *)
(* leaves for an unpaid order, that refunds and shipments, which share the *)
(* slots and the status column, leave Checkout's facts alone, and what     *)
(* explains the refunds).                                                  *)
(*                                                                         *)
(* The slots hold other handlers too in the systems Checkout is part of,   *)
(* so its lemmas leave open what a slot may carry (T): the handlers of     *)
(* Checkout and any whose program counters are not theirs.  All that is    *)
(* shown of refunds and shipments follows from one description of what     *)
(* such a handler may do in a step (Lawful).                               *)
(***************************************************************************)
EXTENDS Fulfilment, Sums, FiniteSetTheorems, TLAPS

---------------------------------------------------------------------------
HeadPcs    == {"checkout.verify", "checkout.commit", "adjust.commit",
               "cancel.restock", "cancel.write", "paid.write"}
Carries(T) == HeadRequests \subseteq T /\ \A q \in T : q.pc \in HeadPcs => q \in HeadRequests

Typed(T) ==
  /\ cart \in [Buyers -> Lines]
  /\ stock \in [Variants -> Int] /\ ledger \in [Variants -> Int]
  /\ status \in [OrderIds -> Statuses \cup {"none"}]
  /\ items \in [OrderIds -> Lines]
  /\ buyer \in [OrderIds -> Buyers \cup {NoOne}]
  /\ request \in [Requests -> T] /\ Carries(T)
  /\ returned \in [OrderIds -> Nat] /\ drifted \subseteq Variants
  /\ doubtful \subseteq OrderIds

LEMMA Alone == TypeOK <=> Typed(HeadRequests)
  BY DEF TypeOK, Typed, Carries

(* The request of a slot, told by its pc: the record a handler's steps     *)
(* read is the record its first step wrote.                                *)
LEMMA RequestShape ==
  ASSUME NEW T, Typed(T), NEW r \in Requests
  PROVE  /\ request[r] \in T
         /\ request[r].pc \in {"checkout.verify", "checkout.commit"} => request[r] \in CheckoutRequest
         /\ request[r].pc = "adjust.commit" => request[r] \in AdjustRequest
         /\ request[r].pc \in {"cancel.restock", "cancel.write", "paid.write"}
              => request[r] \in OrderRequest
  <1>1. request[r] \in T /\ (request[r].pc \in HeadPcs => request[r] \in HeadRequests)
    BY DEF Typed, Carries
  <1>2. QED
    BY <1>1 DEF HeadPcs, HeadRequests, Idle, CheckoutRequest, AdjustRequest, OrderRequest

(* A step that writes a well-formed record into one slot keeps the type.   *)
LEMMA SlotType ==
  ASSUME NEW T, Typed(T), NEW r \in Requests, NEW q \in HeadRequests,
         request' = [request EXCEPT ![r] = q]
  PROVE  request' \in [Requests -> T]
  BY DEF Typed, Carries

LEMMA FinishType ==
  ASSUME NEW T, Typed(T), NEW r \in Requests, Finish(r)
  PROVE  request' \in [Requests -> T]
  <1>1. Idle \in HeadRequests
    BY DEF HeadRequests
  <1>2. QED
    BY <1>1, SlotType DEF Finish

(* A handler that goes on keeps its record but for the pc.                 *)
LEMMA GotoType ==
  ASSUME NEW T, Typed(T), NEW r \in Requests, NEW pc, Goto(r, pc),
         \/ request[r] \in CheckoutRequest /\ pc \in {"checkout.verify", "checkout.commit"}
         \/ request[r] \in OrderRequest /\ pc \in {"cancel.restock", "cancel.write", "paid.write"}
  PROVE  request' \in [Requests -> T]
  <1>1. request' = [request EXCEPT ![r] = [request[r] EXCEPT !.pc = pc]]
    BY DEF Goto, Typed
  <1>2. [request[r] EXCEPT !.pc = pc] \in HeadRequests
    BY DEF HeadRequests, CheckoutRequest, OrderRequest
  <1>3. QED
    BY <1>1, <1>2, SlotType

---------------------------------------------------------------------------
LEMMA InitType == Init => TypeOK
  <1>1. NoLines \in Lines /\ Idle \in HeadRequests
    BY CheckoutConstants DEF NoLines, Lines, HeadRequests
  <1>2. QED
    BY <1>1, CheckoutConstants DEF Init, TypeOK

LEMMA CartType ==
  ASSUME NEW T, Typed(T), CartStep
  PROVE  Typed(T)'
  <1>1. ASSUME NEW u \in Buyers, ClearCart(u)
        PROVE  Typed(T)'
    <2>1. NoLines \in Lines
      BY CheckoutConstants DEF NoLines, Lines
    <2>2. QED
      BY <1>1, <2>1 DEF ClearCart, Typed, orderVars, history
  <1>2. ASSUME NEW u \in Buyers, NEW v \in Variants, NEW q \in 0..MaxQuantity, SetCartLine(u, v, q)
        PROVE  Typed(T)'
    <2>1. cart' \in [Buyers -> Lines]
      BY <1>2 DEF SetCartLine, Typed, Lines
    <2>2. QED
      BY <1>2, <2>1 DEF SetCartLine, Typed, orderVars, history
  <1>3. QED
    BY <1>1, <1>2 DEF CartStep

(* The orders a checkout inserts: the lines of one brand are a cart.       *)
LEMMA BrandLinesType ==
  ASSUME NEW lines \in Lines, NEW b
  PROVE  BrandLines(lines, b) \in Lines
  BY CheckoutConstants DEF BrandLines, Lines

LEMMA CheckoutType ==
  ASSUME NEW T, Typed(T), NEW r \in Requests, CheckoutStep(r)
  PROVE  Typed(T)'
  <1>1. ASSUME NEW u \in Buyers, CheckoutBegin(r, u)
        PROVE  Typed(T)'
    <2>1. [pc |-> "checkout.verify", user |-> u, lines |-> cart[u]] \in HeadRequests
      BY <1>1 DEF Typed, HeadRequests, CheckoutRequest
    <2>2. request' \in [Requests -> T]
      BY <1>1, <2>1, SlotType DEF CheckoutBegin, Start
    <2>3. QED
      BY <1>1, <2>2 DEF CheckoutBegin, Typed, orderVars, history
  <1>2. CASE CheckoutVerify(r)
    <2>1. request[r] \in CheckoutRequest
      BY <1>2, RequestShape DEF CheckoutVerify, At
    <2>2. request' \in [Requests -> T]
      BY <1>2, <2>1, GotoType, FinishType DEF CheckoutVerify
    <2>3. QED
      BY <1>2, <2>2 DEF CheckoutVerify, Typed, orderVars, history
  <1>3. CASE CheckoutCommit(r)
    <2> DEFINE lines == request[r].lines
               u     == request[r].user
    <2>1. lines \in Lines /\ u \in Buyers
      BY <1>3, RequestShape DEF CheckoutCommit, At, CheckoutRequest
    <2>2. PICK id \in Injection(BrandsIn(lines), FreeIds) :
            LET new(o) == \E b \in BrandsIn(lines) : id[b] = o
                brand(o) == CHOOSE b \in BrandsIn(lines) : id[b] = o IN
            /\ status' = [o \in OrderIds |-> IF new(o) THEN "PENDING_PAYMENT" ELSE status[o]]
            /\ items' = [o \in OrderIds |-> IF new(o) THEN BrandLines(lines, brand(o)) ELSE items[o]]
            /\ buyer' = [o \in OrderIds |-> IF new(o) THEN u ELSE buyer[o]]
      BY <1>3 DEF CheckoutCommit
    <2>3. status' \in [OrderIds -> Statuses \cup {"none"}]
      BY <2>2 DEF Typed, Statuses
    <2>4. items' \in [OrderIds -> Lines]
      BY <2>1, <2>2, BrandLinesType DEF Typed
    <2>5. buyer' \in [OrderIds -> Buyers \cup {NoOne}]
      BY <2>1, <2>2 DEF Typed
    <2>6. stock' \in [Variants -> Int] /\ ledger' \in [Variants -> Int]
      BY <1>3, <2>1, CheckoutConstants DEF CheckoutCommit, Typed, Lines
    <2>7. cart' \in [Buyers -> Lines]
      BY <1>3, <2>1, CheckoutConstants DEF CheckoutCommit, Typed, Lines, NoLines
    <2>8. request' \in [Requests -> T]
      BY <1>3, FinishType DEF CheckoutCommit
    <2>9. returned' \in [OrderIds -> Nat] /\ drifted' \subseteq Variants /\ doubtful' \subseteq OrderIds
      BY <1>3 DEF CheckoutCommit, Typed, history
    <2>10. QED
      BY <2>3, <2>4, <2>5, <2>6, <2>7, <2>8, <2>9 DEF Typed
  <1>4. QED
    BY <1>1, <1>2, <1>3 DEF CheckoutStep

LEMMA AdjustType ==
  ASSUME NEW T, Typed(T), NEW r \in Requests, AdjustStep(r)
  PROVE  Typed(T)'
  <1>1. ASSUME NEW u \in Users, NEW v \in Variants, NEW d \in Adjustments, AdjustBegin(r, u, v, d)
        PROVE  Typed(T)'
    <2>1. stock[v] + d \in Nat
      BY <1>1, CheckoutConstants DEF AdjustBegin, Typed
    <2>2. [pc |-> "adjust.commit", variant |-> v, delta |-> d, newStock |-> stock[v] + d] \in HeadRequests
      BY <2>1 DEF HeadRequests, AdjustRequest
    <2>3. request' \in [Requests -> T]
      BY <1>1, <2>2, SlotType DEF AdjustBegin, Start
    <2>4. QED
      BY <1>1, <2>3 DEF AdjustBegin, Typed, orderVars, history
  <1>2. CASE AdjustCommit(r)
    <2>1. request[r] \in AdjustRequest
      BY <1>2, RequestShape DEF AdjustCommit, At
    <2>2. request' \in [Requests -> T]
      BY <1>2, FinishType DEF AdjustCommit
    <2>3. /\ request[r].variant \in Variants
          /\ request[r].delta \in Int /\ request[r].newStock \in Int
      <3>1. request[r].variant \in Variants /\ request[r].delta \in Adjustments
            /\ request[r].newStock \in Nat
        BY <2>1 DEF AdjustRequest
      <3>2. Adjustments \subseteq Int
        BY CheckoutConstants
      <3>3. request[r].delta \in Int
        BY <3>1, <3>2
      <3>4. request[r].newStock \in Int
        BY <3>1
      <3>5. QED
        BY <3>1, <3>3, <3>4
    <2>4. stock' \in [Variants -> Int] /\ ledger' \in [Variants -> Int]
      BY <1>2, <2>3 DEF AdjustCommit, Typed
    <2>5. drifted' \subseteq Variants
      BY <1>2, <2>3 DEF AdjustCommit, Typed
    <2>6. QED
      BY <1>2, <2>2, <2>4, <2>5 DEF AdjustCommit, Typed, orderVars
  <1>3. QED
    BY <1>1, <1>2 DEF AdjustStep

(* What a cancellation, a restock and a status write leave well typed.     *)
LEMMA StartCancellingType ==
  ASSUME NEW T, Typed(T), NEW r \in Requests, NEW o \in OrderIds, StartCancelling(r, o)
  PROVE  Typed(T)'
  <1>1. [pc |-> "cancel.restock", order |-> o] \in HeadRequests
    BY DEF HeadRequests, OrderRequest
  <1>2. request' \in [Requests -> T]
    BY <1>1, SlotType DEF StartCancelling, Start
  <1>3. QED
    BY <1>2 DEF StartCancelling, Doubt, Typed, orderVars

LEMMA WriteStatusType ==
  ASSUME NEW T, Typed(T), NEW o \in OrderIds, NEW s \in Statuses, WriteStatus(o, s)
  PROVE  /\ status' \in [OrderIds -> Statuses \cup {"none"}]
         /\ returned' \in [OrderIds -> Nat] /\ drifted' \subseteq Variants
         /\ doubtful' \subseteq OrderIds
  BY DEF WriteStatus, Doubt, Typed

LEMMA CancelType ==
  ASSUME NEW T, Typed(T), NEW r \in Requests, CancelStep(r)
  PROVE  Typed(T)'
  <1>1. ASSUME NEW o \in OrderIds,
               PaymentFailedBegin(r, o) \/ \E u \in Users : CancelBegin(r, u, o)
        PROVE  Typed(T)'
    BY <1>1, StartCancellingType DEF PaymentFailedBegin, CancelBegin
  <1>2. CASE RestockOrder(r)
    <2> DEFINE o == request[r].order
    <2>1. request[r] \in OrderRequest /\ o \in OrderIds
      BY <1>2, RequestShape DEF RestockOrder, At, OrderRequest
    <2>2. request' \in [Requests -> T]
      BY <1>2, <2>1, GotoType DEF RestockOrder
    <2>3. items[o] \in [Variants -> Int]
      BY <2>1, CheckoutConstants DEF Typed, Lines
    <2>4. stock' \in [Variants -> Int] /\ ledger' \in [Variants -> Int]
      BY <1>2, <2>3 DEF RestockOrder, Typed
    <2>5. returned' \in [OrderIds -> Nat]
      BY <1>2, <2>1 DEF RestockOrder, Typed
    <2>6. QED
      BY <1>2, <2>2, <2>4, <2>5 DEF RestockOrder, Typed, orderVars
  <1>3. CASE CancelWrite(r)
    <2>1. request[r].order \in OrderIds
      BY <1>3, RequestShape DEF CancelWrite, At, OrderRequest
    <2>2. request' \in [Requests -> T]
      BY <1>3, FinishType DEF CancelWrite
    <2>3. WriteStatus(request[r].order, "CANCELLED") /\ "CANCELLED" \in Statuses
      BY <1>3 DEF CancelWrite, Statuses
    <2>4. QED
      BY <1>3, <2>1, <2>2, <2>3, WriteStatusType DEF CancelWrite, Typed
  <1>4. QED
    BY <1>1, <1>2, <1>3 DEF CancelStep

LEMMA PaidType ==
  ASSUME NEW T, Typed(T), NEW r \in Requests, PaidStep(r)
  PROVE  Typed(T)'
  <1>1. ASSUME NEW o \in OrderIds, PaymentSucceededBegin(r, o)
        PROVE  Typed(T)'
    <2>1. [pc |-> "paid.write", order |-> o] \in HeadRequests
      BY DEF HeadRequests, OrderRequest
    <2>2. request' \in [Requests -> T]
      BY <1>1, <2>1, SlotType DEF PaymentSucceededBegin, Start
    <2>3. QED
      BY <1>1, <2>2 DEF PaymentSucceededBegin, Typed, orderVars, history
  <1>2. CASE PaidWrite(r)
    <2>1. request[r].order \in OrderIds
      BY <1>2, RequestShape DEF PaidWrite, At, OrderRequest
    <2>2. request' \in [Requests -> T]
      BY <1>2, FinishType DEF PaidWrite
    <2>3. WriteStatus(request[r].order, "PAID") /\ "PAID" \in Statuses
      BY <1>2 DEF PaidWrite, Statuses
    <2>4. QED
      BY <1>2, <2>1, <2>2, <2>3, WriteStatusType DEF PaidWrite, Typed
  <1>3. QED
    BY <1>1, <1>2 DEF PaidStep

LEMMA DieType ==
  ASSUME NEW T, Typed(T), NEW r \in Requests, Die(r)
  PROVE  Typed(T)'
  <1>1. request' \in [Requests -> T]
    BY FinishType DEF Die
  <1>2. doubtful' \subseteq OrderIds
    BY RequestShape DEF Die, At, OrderRequest, Typed
  <1>3. QED
    BY <1>1, <1>2 DEF Die, Typed, orderVars

LEMMA StepType ==
  ASSUME NEW T, Typed(T), [Next]_vars
  PROVE  Typed(T)'
  <1>1. CASE UNCHANGED vars
    BY <1>1 DEF vars, orderVars, history, Typed
  <1>2. CASE Next
    BY <1>2, CartType, CheckoutType, AdjustType, CancelType, PaidType, DieType DEF Next
  <1>3. QED
    BY <1>1, <1>2

(* Every variable keeps its type: the rows of the cart, stock, movements   *)
(* and orders, and the record each handler carries between its steps.      *)
THEOREM TypeCorrect == Spec => []TypeOK
  <1>1. Init => Typed(HeadRequests)
    BY InitType, Alone
  <1>2. Typed(HeadRequests) /\ [Next]_vars => Typed(HeadRequests)'
    BY StepType
  <1>3. QED
    BY <1>1, <1>2, Alone, PTL DEF Spec

---------------------------------------------------------------------------
LEMMA LedgerStep ==
  ASSUME NEW T, Typed(T), StockMatchesLedger, [Next]_vars
  PROVE  StockMatchesLedger'
  <1>1. CASE UNCHANGED <<stock, ledger, drifted>>
    BY <1>1 DEF StockMatchesLedger
  <1>2. ASSUME NEW r \in Requests, CheckoutCommit(r)
        PROVE  StockMatchesLedger'
    <2>1. request[r].lines \in Lines
      BY <1>2, RequestShape DEF CheckoutCommit, At, CheckoutRequest
    <2>2. \A v \in Variants : stock'[v] = stock[v] - request[r].lines[v]
                            /\ ledger'[v] = ledger[v] - request[r].lines[v]
      BY <1>2 DEF CheckoutCommit
    <2>3. drifted' = drifted
      BY <1>2 DEF CheckoutCommit, history
    <2>4. QED
      BY <2>2, <2>3 DEF StockMatchesLedger
  <1>3. ASSUME NEW r \in Requests, AdjustCommit(r)
        PROVE  StockMatchesLedger'
    <2> DEFINE v == request[r].variant
               d == request[r].delta
    <2>1. v \in Variants
      BY <1>3, RequestShape DEF AdjustCommit, At, AdjustRequest
    <2>2. \A w \in Variants \ {v} : stock'[w] = stock[w] /\ ledger'[w] = ledger[w]
      BY <1>3 DEF AdjustCommit, Typed
    <2>3. stock'[v] = request[r].newStock /\ ledger'[v] = ledger[v] + d
      BY <1>3, <2>1 DEF AdjustCommit, Typed
    <2>4. drifted \subseteq drifted' /\ (request[r].newStock = stock[v] + d \/ v \in drifted')
      BY <1>3 DEF AdjustCommit
    <2>5. QED
      BY <2>2, <2>3, <2>4 DEF StockMatchesLedger
  <1>4. ASSUME NEW r \in Requests, RestockOrder(r)
        PROVE  StockMatchesLedger'
    <2>1. \A v \in Variants : stock'[v] = stock[v] + items[request[r].order][v]
                            /\ ledger'[v] = ledger[v] + items[request[r].order][v]
      BY <1>4 DEF RestockOrder
    <2>2. drifted' = drifted
      BY <1>4 DEF RestockOrder
    <2>3. QED
      BY <2>1, <2>2 DEF StockMatchesLedger
  <1>5. Next => \/ UNCHANGED <<stock, ledger, drifted>>
                \/ \E r \in Requests : CheckoutCommit(r) \/ AdjustCommit(r) \/ RestockOrder(r)
    BY DEF Next, CartStep, ClearCart, SetCartLine, CheckoutStep, CheckoutBegin, CheckoutVerify,
           AdjustStep, AdjustBegin, CancelStep, PaymentFailedBegin, CancelBegin, StartCancelling,
           CancelWrite, PaidStep, PaymentSucceededBegin, PaidWrite, WriteStatus, Die, history
  <1>6. QED
    BY <1>1, <1>2, <1>3, <1>4, <1>5 DEF vars, history

(* What StockService.adjust does not break, nothing does: every other step *)
(* moves a variant's stock and its ledger by the same amount.              *)
THEOREM LedgerCorrect == Spec => []StockMatchesLedger
  <1>1. Init => StockMatchesLedger
    BY DEF Init, StockMatchesLedger
  <1>2. TypeOK /\ StockMatchesLedger /\ [Next]_vars => StockMatchesLedger'
    BY Alone, LedgerStep
  <1>3. QED
    BY <1>1, <1>2, TypeCorrect, PTL DEF Spec

---------------------------------------------------------------------------
(* The inductive invariant behind both facts about returned goods.  An     *)
(* order that is not doubtful has one cancellation at a time, which has    *)
(* returned its goods once if it is past its restock and not at all        *)
(* before; and with none in flight its goods are back only if it is        *)
(* CANCELLED.                                                              *)
Orderly(o) ==
  /\ \A r, s \in Requests : Cancelling(r, o) /\ Cancelling(s, o) => r = s
  /\ \A r \in Requests : Cancelling(r, o) => returned[o] = IF At(r, "cancel.write") THEN 1 ELSE 0
  /\ (returned[o] > 0 /\ \A r \in Requests : ~Cancelling(r, o))
       => returned[o] = 1 /\ status[o] = "CANCELLED"

Restocked(o) ==
  /\ \A r \in Requests : Cancelling(r, o) /\ At(r, "cancel.write") => returned[o] > 0
  /\ status[o] = "CANCELLED" => returned[o] > 0

Settled(o) == Restocked(o) /\ (o \in doubtful \/ Orderly(o))

ReturnInv == \A o \in OrderIds : Settled(o)

(* A step that leaves an order's cancellations, returns and CANCELLED      *)
(* status alone keeps the order settled.                                   *)
LEMMA Undisturbed ==
  ASSUME NEW o \in OrderIds, Settled(o),
         \A r \in Requests : /\ Cancelling(r, o)' <=> Cancelling(r, o)
                             /\ Cancelling(r, o) => (At(r, "cancel.write")' <=> At(r, "cancel.write")),
         returned'[o] = returned[o],
         status'[o] = "CANCELLED" <=> status[o] = "CANCELLED",
         doubtful \subseteq doubtful'
  PROVE  Settled(o)'
  <1>1. Restocked(o)'
    BY DEF Settled, Restocked
  <1>2. ASSUME Orderly(o) PROVE Orderly(o)'
    BY <1>2 DEF Orderly
  <1>3. QED
    BY <1>1, <1>2 DEF Settled

(* What the other slots are doing, when r takes a step.                    *)
LEMMA OtherSlots ==
  ASSUME NEW T, Typed(T), NEW r \in Requests, NEW q, request' = [request EXCEPT ![r] = q]
  PROVE  request'[r] = q /\ \A s \in Requests \ {r} : request'[s] = request[s]
  BY DEF Typed

LEMMA AfterFinish ==
  ASSUME NEW T, Typed(T), NEW r \in Requests, Finish(r)
  PROVE  request'[r].pc = "idle" /\ \A s \in Requests \ {r} : request'[s] = request[s]
  <1>1. request'[r] = Idle /\ \A s \in Requests \ {r} : request'[s] = request[s]
    BY OtherSlots DEF Finish
  <1>2. QED
    BY <1>1 DEF Idle

(* A slot that was not cancelling and is not now.                          *)
LEMMA NotCancelling ==
  ASSUME NEW T, Typed(T), ReturnInv, NEW r \in Requests, NEW q, request' = [request EXCEPT ![r] = q],
         request[r].pc \notin {"cancel.restock", "cancel.write"},
         q.pc \notin {"cancel.restock", "cancel.write"},
         returned' = returned,
         \A o \in OrderIds : status'[o] = "CANCELLED" <=> status[o] = "CANCELLED",
         doubtful' = doubtful
  PROVE  ReturnInv'
  <1> SUFFICES ASSUME NEW o \in OrderIds PROVE Settled(o)'
    BY DEF ReturnInv
  <1>1. ASSUME NEW s \in Requests
        PROVE  /\ Cancelling(s, o)' <=> Cancelling(s, o)
               /\ Cancelling(s, o) => (At(s, "cancel.write")' <=> At(s, "cancel.write"))
    BY OtherSlots DEF Cancelling, At
  <1>2. QED
    BY <1>1, Undisturbed DEF ReturnInv

LEMMA ReturnStart ==
  ASSUME NEW T, Typed(T), ReturnInv, NEW r \in Requests, NEW o \in OrderIds,
         StartCancelling(r, o), status[o] # "CANCELLED", status' = status
  PROVE  ReturnInv'
  <1>1. /\ request[r].pc = "idle"
        /\ request'[r] = [pc |-> "cancel.restock", order |-> o]
        /\ \A s \in Requests \ {r} : request'[s] = request[s]
    <2>1. request[r] = Idle /\ request' = [request EXCEPT ![r] = [pc |-> "cancel.restock", order |-> o]]
      BY DEF StartCancelling, Start
    <2>2. request[r].pc = "idle"
      BY <2>1 DEF Idle
    <2>3. QED
      BY <2>1, <2>2, OtherSlots
  <1>2. returned' = returned /\ doubtful \subseteq doubtful'
    BY DEF StartCancelling, Doubt
  <1>3. ASSUME NEW x \in OrderIds \ {o} PROVE Settled(x)'
    <2>1. \A s \in Requests : /\ Cancelling(s, x)' <=> Cancelling(s, x)
                              /\ Cancelling(s, x) => (At(s, "cancel.write")' <=> At(s, "cancel.write"))
      BY <1>1 DEF Cancelling, At
    <2>2. QED
      BY <1>2, <2>1, Undisturbed DEF ReturnInv
  <1>4. Settled(o)'
    <2>1. Restocked(o)'
      BY <1>1, <1>2 DEF ReturnInv, Settled, Restocked, Cancelling, At
    <2>2. CASE o \in doubtful \/ \E s \in Requests : Cancelling(s, o)
      <3>1. o \in doubtful'
        BY <2>2 DEF StartCancelling, Doubt
      <3>2. QED
        BY <2>1, <3>1 DEF Settled
    <2>3. CASE o \notin doubtful /\ \A s \in Requests : ~Cancelling(s, o)
      <3>1. returned[o] = 0
        BY <2>3 DEF ReturnInv, Settled, Orderly, Typed
      <3>2. Cancelling(r, o)' /\ \A s \in Requests \ {r} : ~Cancelling(s, o)'
        BY <1>1, <2>3 DEF Cancelling
      <3>3. ~At(r, "cancel.write")'
        BY <1>1 DEF At
      <3>4. Orderly(o)'
        BY <1>2, <3>1, <3>2, <3>3 DEF Orderly
      <3>5. QED
        BY <2>1, <3>4 DEF Settled
    <2>4. QED
      BY <2>2, <2>3
  <1>5. QED
    BY <1>3, <1>4 DEF ReturnInv

LEMMA ReturnRestock ==
  ASSUME NEW T, Typed(T), ReturnInv, NEW r \in Requests, RestockOrder(r)
  PROVE  ReturnInv'
  <1>0. request[r] \in OrderRequest /\ request[r].pc = "cancel.restock"
    BY RequestShape DEF RestockOrder, At
  <1>1. PICK o \in OrderIds : o = request[r].order
    BY <1>0 DEF OrderRequest
  <1>2. Cancelling(r, o) /\ ~At(r, "cancel.write")
    BY <1>0, <1>1 DEF At, Cancelling
  <1>3. /\ request'[r].pc = "cancel.write" /\ request'[r].order = o
        /\ \A s \in Requests \ {r} : request'[s] = request[s]
    <2> DEFINE q == [request[r] EXCEPT !.pc = "cancel.write"]
    <2>1. q.pc = "cancel.write" /\ q.order = o
      BY <1>0, <1>1 DEF OrderRequest
    <2>2. request' = [request EXCEPT ![r] = q]
      BY DEF RestockOrder, Goto, Typed
    <2>3. QED
      BY <2>1, <2>2, OtherSlots
  <1>4. /\ returned'[o] = returned[o] + 1 /\ returned[o] \in Nat
        /\ \A x \in OrderIds \ {o} : returned'[x] = returned[x]
        /\ status' = status /\ doubtful' = doubtful
    BY <1>1 DEF RestockOrder, Typed, orderVars
  <1>5. ASSUME NEW x \in OrderIds \ {o} PROVE Settled(x)'
    <2>1. \A s \in Requests : /\ Cancelling(s, x)' <=> Cancelling(s, x)
                              /\ Cancelling(s, x) => (At(s, "cancel.write")' <=> At(s, "cancel.write"))
      BY <1>0, <1>1, <1>3 DEF Cancelling, At
    <2>2. QED
      BY <1>4, <2>1, Undisturbed DEF ReturnInv
  <1>6. Settled(o)'
    <2>1. Restocked(o)'
      BY <1>4 DEF Restocked
    <2>2. ASSUME Orderly(o) PROVE Orderly(o)'
      <3>1. returned[o] = 0 /\ \A s \in Requests \ {r} : ~Cancelling(s, o)
        BY <1>2, <2>2 DEF Orderly
      <3>2. Cancelling(r, o)' /\ At(r, "cancel.write")' /\ \A s \in Requests \ {r} : ~Cancelling(s, o)'
        BY <1>3, <3>1 DEF Cancelling, At
      <3>3. returned'[o] = 1
        BY <1>4, <3>1
      <3>4. QED
        BY <3>2, <3>3 DEF Orderly
    <2>3. QED
      BY <1>1, <1>4, <2>1, <2>2 DEF ReturnInv, Settled
  <1>7. QED
    BY <1>5, <1>6 DEF ReturnInv

LEMMA ReturnCancelWrite ==
  ASSUME NEW T, Typed(T), ReturnInv, NEW r \in Requests, CancelWrite(r)
  PROVE  ReturnInv'
  <1>0. request[r] \in OrderRequest /\ request[r].pc = "cancel.write"
    BY RequestShape DEF CancelWrite, At
  <1>1. PICK o \in OrderIds : o = request[r].order
    BY <1>0 DEF OrderRequest
  <1>2. Cancelling(r, o) /\ At(r, "cancel.write")
    BY <1>0, <1>1 DEF At, Cancelling
  <1>3. request'[r].pc = "idle" /\ \A s \in Requests \ {r} : request'[s] = request[s]
    BY AfterFinish DEF CancelWrite
  <1>4. /\ status'[o] = "CANCELLED" /\ \A x \in OrderIds \ {o} : status'[x] = status[x]
        /\ returned' = returned /\ doubtful' = doubtful
    BY <1>1 DEF CancelWrite, WriteStatus, Doubt, Typed
  <1>5. ASSUME NEW x \in OrderIds \ {o} PROVE Settled(x)'
    <2>1. \A s \in Requests : /\ Cancelling(s, x)' <=> Cancelling(s, x)
                              /\ Cancelling(s, x) => (At(s, "cancel.write")' <=> At(s, "cancel.write"))
      BY <1>0, <1>1, <1>3 DEF Cancelling, At
    <2>2. QED
      BY <1>4, <2>1, Undisturbed DEF ReturnInv
  <1>6. Settled(o)'
    <2>1. returned[o] > 0
      BY <1>2 DEF ReturnInv, Settled, Restocked
    <2>2. Restocked(o)'
      BY <1>4, <2>1 DEF Restocked
    <2>3. ASSUME Orderly(o) PROVE Orderly(o)'
      <3>1. returned[o] = 1 /\ \A s \in Requests \ {r} : ~Cancelling(s, o)
        BY <1>2, <2>3 DEF Orderly
      <3>2. \A s \in Requests : ~Cancelling(s, o)'
        BY <1>3, <3>1 DEF Cancelling
      <3>3. QED
        BY <1>4, <3>1, <3>2 DEF Orderly
    <2>4. QED
      BY <1>4, <2>2, <2>3 DEF ReturnInv, Settled
  <1>7. QED
    BY <1>5, <1>6 DEF ReturnInv

LEMMA ReturnPaidWrite ==
  ASSUME NEW T, Typed(T), ReturnInv, NEW r \in Requests, PaidWrite(r)
  PROVE  ReturnInv'
  <1>0. request[r] \in OrderRequest /\ request[r].pc = "paid.write"
    BY RequestShape DEF PaidWrite, At
  <1>1. PICK o \in OrderIds : o = request[r].order
    BY <1>0 DEF OrderRequest
  <1>2. request'[r].pc = "idle" /\ \A s \in Requests \ {r} : request'[s] = request[s]
    BY AfterFinish DEF PaidWrite
  <1>3. /\ status'[o] = "PAID" /\ \A x \in OrderIds \ {o} : status'[x] = status[x]
        /\ returned' = returned /\ doubtful \subseteq doubtful'
        /\ status[o] = "CANCELLED" => o \in doubtful'
    BY <1>1 DEF PaidWrite, WriteStatus, Doubt, Typed
  <1>4. ASSUME NEW x \in OrderIds, NEW s \in Requests
        PROVE  /\ Cancelling(s, x)' <=> Cancelling(s, x)
               /\ Cancelling(s, x) => (At(s, "cancel.write")' <=> At(s, "cancel.write"))
    BY <1>0, <1>2 DEF Cancelling, At
  <1>5. ASSUME NEW x \in OrderIds \ {o} PROVE Settled(x)'
    BY <1>3, <1>4, Undisturbed DEF ReturnInv
  <1>6. Settled(o)'
    <2>1. CASE status[o] = "CANCELLED"
      <3>1. Restocked(o)'
        BY <1>3, <1>4 DEF ReturnInv, Settled, Restocked
      <3>2. QED
        BY <1>3, <2>1, <3>1 DEF Settled
    <2>2. CASE status[o] # "CANCELLED"
      BY <1>3, <1>4, <2>2, Undisturbed DEF ReturnInv
    <2>3. QED
      BY <2>1, <2>2
  <1>7. QED
    BY <1>5, <1>6 DEF ReturnInv

LEMMA ReturnDie ==
  ASSUME NEW T, Typed(T), ReturnInv, NEW r \in Requests, Die(r)
  PROVE  ReturnInv'
  <1>1. request'[r].pc = "idle" /\ \A s \in Requests \ {r} : request'[s] = request[s]
    BY AfterFinish DEF Die
  <1>2. /\ status' = status /\ returned' = returned /\ doubtful \subseteq doubtful'
        /\ At(r, "cancel.write") => request[r].order \in doubtful'
    BY DEF Die, orderVars
  <1> SUFFICES ASSUME NEW o \in OrderIds PROVE Settled(o)'
    BY DEF ReturnInv
  <1>3. CASE ~Cancelling(r, o)
    <2>1. \A s \in Requests : /\ Cancelling(s, o)' <=> Cancelling(s, o)
                              /\ Cancelling(s, o) => (At(s, "cancel.write")' <=> At(s, "cancel.write"))
      BY <1>1, <1>3 DEF Cancelling, At
    <2>2. QED
      BY <1>2, <2>1, Undisturbed DEF ReturnInv
  <1>4. CASE Cancelling(r, o)
    <2>1. Restocked(o)'
      BY <1>1, <1>2 DEF ReturnInv, Settled, Restocked, Cancelling, At
    <2>2. CASE At(r, "cancel.write") \/ o \in doubtful
      <3>1. o \in doubtful'
        BY <1>2, <1>4, <2>2 DEF Cancelling
      <3>2. QED
        BY <2>1, <3>1 DEF Settled
    <2>3. CASE ~At(r, "cancel.write") /\ o \notin doubtful
      <3>1. returned[o] = 0 /\ \A s \in Requests \ {r} : ~Cancelling(s, o)
        BY <1>4, <2>3 DEF ReturnInv, Settled, Orderly
      <3>2. \A s \in Requests : ~Cancelling(s, o)'
        BY <1>1, <3>1 DEF Cancelling
      <3>3. Orderly(o)'
        BY <1>2, <3>1, <3>2 DEF Orderly
      <3>4. QED
        BY <2>1, <3>3 DEF Settled
    <2>4. QED
      BY <2>2, <2>3
  <1>5. QED
    BY <1>3, <1>4

(* The steps of checkout, adjustment and the paid webhook's first read.    *)
LEMMA ReturnOthers ==
  ASSUME NEW T, Typed(T), ReturnInv, NEW r \in Requests,
         \/ CheckoutStep(r) \/ AdjustStep(r) \/ \E o \in OrderIds : PaymentSucceededBegin(r, o)
  PROVE  ReturnInv'
  <1>0. Idle.pc = "idle"
    BY DEF Idle
  <1>1. ASSUME NEW u \in Buyers, CheckoutBegin(r, u) PROVE ReturnInv'
    BY <1>0, <1>1, NotCancelling DEF CheckoutBegin, Start, history, orderVars
  <1>2. CASE CheckoutVerify(r)
    <2>1. CASE Goto(r, "checkout.commit")
      <3>1. request' = [request EXCEPT ![r] = [request[r] EXCEPT !.pc = "checkout.commit"]]
        BY <2>1 DEF Goto, Typed
      <3>2. [request[r] EXCEPT !.pc = "checkout.commit"].pc = "checkout.commit"
        BY <1>2, RequestShape DEF CheckoutVerify, At, CheckoutRequest
      <3>3. QED
        BY <1>2, <3>1, <3>2, NotCancelling DEF CheckoutVerify, At, history, orderVars
    <2>2. CASE Finish(r)
      BY <1>0, <1>2, <2>2, NotCancelling DEF CheckoutVerify, At, Finish, history, orderVars
    <2>3. QED
      BY <1>2, <2>1, <2>2 DEF CheckoutVerify
  <1>3. CASE CheckoutCommit(r)
    <2> DEFINE lines == request[r].lines
    <2>1. PICK id \in Injection(BrandsIn(lines), FreeIds) :
            status' = [o \in OrderIds |-> IF \E b \in BrandsIn(lines) : id[b] = o
                                         THEN "PENDING_PAYMENT" ELSE status[o]]
      BY <1>3 DEF CheckoutCommit
    <2>2. \A b \in BrandsIn(lines) : status[id[b]] = "none"
      BY <2>1 DEF Injection, IsInjective, FreeIds
    <2>3. \A o \in OrderIds : status'[o] = "CANCELLED" <=> status[o] = "CANCELLED"
      BY <2>1, <2>2
    <2>4. Finish(r) /\ returned' = returned /\ doubtful' = doubtful
      BY <1>3 DEF CheckoutCommit, history
    <2>5. QED
      BY <1>0, <1>3, <2>3, <2>4, NotCancelling DEF CheckoutCommit, At, Finish
  <1>4. ASSUME NEW u \in Users, NEW v \in Variants, NEW d \in Adjustments, AdjustBegin(r, u, v, d)
        PROVE  ReturnInv'
    BY <1>0, <1>4, NotCancelling DEF AdjustBegin, Start, history, orderVars
  <1>5. CASE AdjustCommit(r)
    BY <1>0, <1>5, NotCancelling DEF AdjustCommit, At, Finish, orderVars
  <1>6. ASSUME NEW o \in OrderIds, PaymentSucceededBegin(r, o) PROVE ReturnInv'
    BY <1>0, <1>6, NotCancelling DEF PaymentSucceededBegin, Start, history, orderVars
  <1>7. QED
    BY <1>1, <1>2, <1>3, <1>4, <1>5, <1>6 DEF CheckoutStep, AdjustStep

LEMMA ReturnInit == Init => ReturnInv
  <1> SUFFICES ASSUME Init, NEW o \in OrderIds PROVE Settled(o)
    BY DEF ReturnInv
  <1>1. status[o] = "none" /\ returned[o] = 0 /\ \A r \in Requests : request[r].pc = "idle"
    BY DEF Init, Idle
  <1>2. QED
    BY <1>1 DEF Settled, Restocked, Orderly, Cancelling

LEMMA ReturnStep ==
  ASSUME NEW T, Typed(T), ReturnInv, [Next]_vars
  PROVE  ReturnInv'
  <1>1. CASE UNCHANGED <<request, returned, status, doubtful>>
    BY <1>1 DEF ReturnInv, Settled, Restocked, Orderly, Cancelling, At
  <1>2. CASE CartStep
    BY <1>1, <1>2 DEF CartStep, ClearCart, SetCartLine, orderVars, history
  <1>3. ASSUME NEW r \in Requests, CancelStep(r) PROVE ReturnInv'
    <2>1. ASSUME NEW o \in OrderIds, PaymentFailedBegin(r, o) PROVE ReturnInv'
      BY <2>1, ReturnStart DEF PaymentFailedBegin, StartCancelling, orderVars
    <2>2. ASSUME NEW o \in OrderIds, NEW u \in Users, CancelBegin(r, u, o) PROVE ReturnInv'
      BY <2>2, ReturnStart DEF CancelBegin, StartCancelling, NonCancellable, orderVars
    <2>3. QED
      BY <1>3, <2>1, <2>2, ReturnRestock, ReturnCancelWrite DEF CancelStep
  <1>4. ASSUME NEW r \in Requests, PaidStep(r) PROVE ReturnInv'
    BY <1>4, ReturnOthers, ReturnPaidWrite DEF PaidStep
  <1>5. QED
    BY <1>1, <1>2, <1>3, <1>4, ReturnOthers, ReturnDie DEF Next, vars, orderVars, history

LEMMA ReturnInvariant == Spec => []ReturnInv
  <1>1. TypeOK /\ ReturnInv /\ [Next]_vars => ReturnInv'
    BY Alone, ReturnStep
  <1>2. QED
    BY <1>1, ReturnInit, TypeCorrect, PTL DEF Spec

(* No order is CANCELLED without its goods having gone back to stock:      *)
(* restockOrder precedes the status write in cancel and in the failed      *)
(* payment webhook, and dying between them leaves the order uncancelled.   *)
THEOREM CancelledReturned == Spec => []CancelledIsReturned
  <1>1. ReturnInv => CancelledIsReturned
    BY DEF ReturnInv, Settled, Restocked, CancelledIsReturned
  <1>2. QED
    BY <1>1, ReturnInvariant, PTL

LEMMA ReturnExplains ==
  ASSUME NEW T, Typed(T), ReturnInv
  PROVE  CancelledIsReturned /\ ReturnedTwiceNeedsMishap
  <1>1. CancelledIsReturned
    BY DEF ReturnInv, Settled, Restocked, CancelledIsReturned
  <1>2. ASSUME NEW o \in OrderIds, o \notin doubtful, returned[o] > 1
        PROVE  FALSE
    <2>1. Orderly(o) /\ returned[o] \in Nat
      BY <1>2 DEF ReturnInv, Settled, Typed
    <2>2. QED
      BY <1>2, <2>1 DEF Orderly
  <1>3. QED
    BY <1>1, <1>2 DEF ReturnedTwiceNeedsMishap

(* Goods go back to stock twice only for an order with overlapping         *)
(* cancellations, one that died half way, or a revived status.             *)
THEOREM ReturnedTwiceExplained == Spec => []ReturnedTwiceNeedsMishap
  <1>1. TypeOK /\ ReturnInv => ReturnedTwiceNeedsMishap
    BY Alone, ReturnExplains
  <1>2. QED
    BY <1>1, ReturnInvariant, TypeCorrect, PTL

---------------------------------------------------------------------------
(* Overselling.  Takers(v) are the handlers about to take some of v after  *)
(* they verified the stock.  While k of the n handlers are takers, at most *)
(* n - 1 - k cart lines are missing, or all but the lines of one taker     *)
(* that still saw them: it verified last, or only others committed since.  *)
Lacking(k)   == (Cardinality(Requests) - k) * MaxQuantity
Taking(r, v) == request[r].pc = "checkout.commit" /\ request[r].lines[v] > 0
Takers(v)    == {r \in Requests : Taking(r, v)}
Count(v)     == Cardinality(Takers(v))
Covered(v)   == \/ stock[v] >= -Lacking(Count(v) + 1)
                \/ \E r \in Takers(v) : stock[v] >= request[r].lines[v] - Lacking(Count(v))
OversellInv  == \A v \in Variants : Covered(v)

LEMMA LackingLess ==
  /\ Cardinality(Requests) \in Nat
  /\ \A k \in Int : Lacking(k) \in Int /\ Lacking(k - 1) = Lacking(k) + MaxQuantity
  /\ \A k \in Int : k <= Cardinality(Requests) => Lacking(k) >= 0
  <1> DEFINE n == Cardinality(Requests)
             q == MaxQuantity
  <1>1. n \in Nat /\ q \in Nat
    BY CheckoutConstants, FS_CardinalityType
  <1>2. \A k \in Int : Lacking(k) = (n - k) * q /\ Lacking(k - 1) = (n - (k - 1)) * q
    BY <1>1 DEF Lacking
  <1> HIDE DEF n, q
  <1>3. \A k \in Int : (n - k) * q \in Int /\ (n - (k - 1)) * q = (n - k) * q + q
    BY <1>1
  <1>4. \A k \in Int : k <= n => (n - k) * q >= 0
    BY <1>1
  <1>5. QED
    BY <1>1, <1>2, <1>3, <1>4 DEF n, q

LEMMA CountStep ==
  ASSUME NEW r \in Requests, \A s \in Requests \ {r} : request'[s] = request[s], NEW v
  PROVE  /\ Count(v) \in Nat /\ Count(v) <= Cardinality(Requests)
         /\ (Taking(r, v) <=> Taking(r, v)') => Count(v)' = Count(v) /\ Takers(v)' = Takers(v)
         /\ ~Taking(r, v) /\ Taking(r, v)' => Count(v)' = Count(v) + 1 /\ Takers(v)' = Takers(v) \cup {r}
         /\ Taking(r, v) /\ ~Taking(r, v)' => Count(v)' = Count(v) - 1 /\ Takers(v)' = Takers(v) \ {r}
  <1> DEFINE S == Takers(v)
             T == {s \in Requests : Taking(s, v)'}
  <1>1. Count(v) = Cardinality(S) /\ Count(v)' = Cardinality(T) /\ Takers(v)' = T
    BY DEF Count, Takers
  <1>2. IsFiniteSet(S) /\ Cardinality(S) <= Cardinality(Requests)
    BY CheckoutConstants, FS_Subset DEF Takers
  <1>3. \A s \in Requests \ {r} : Taking(s, v)' <=> Taking(s, v)
    BY DEF Taking
  <1>4. /\ (Taking(r, v) <=> Taking(r, v)') => T = S
        /\ ~Taking(r, v) /\ Taking(r, v)' => r \notin S /\ T = S \cup {r}
        /\ Taking(r, v) /\ ~Taking(r, v)' => r \in S /\ T = S \ {r}
    BY <1>3 DEF Takers
  <1> HIDE DEF S, T
  <1>5. Cardinality(S) \in Nat
    BY <1>2, FS_CardinalityType
  <1>6. r \notin S => Cardinality(S \cup {r}) = Cardinality(S) + 1
    BY <1>2, FS_AddElement
  <1>7. r \in S => Cardinality(S \ {r}) = Cardinality(S) - 1
    BY <1>2, FS_RemoveElement
  <1>8. QED
    BY <1>1, <1>2, <1>4, <1>5, <1>6, <1>7 DEF S

(* A taker's line is at most MaxQuantity.                                  *)
LEMMA TakerLines ==
  ASSUME NEW T, Typed(T), NEW r \in Requests, NEW v \in Variants, Taking(r, v)
  PROVE  request[r] \in CheckoutRequest /\ request[r].lines[v] \in 1..MaxQuantity
  <1>1. request[r] \in CheckoutRequest
    BY RequestShape DEF Taking
  <1>2. request[r].lines[v] \in 0..MaxQuantity
    BY <1>1 DEF CheckoutRequest, Lines
  <1>3. QED
    BY <1>1, <1>2, CheckoutConstants DEF Taking

(* A handler that starts or stops taking nothing, while stock only grows   *)
(* or is set anew.                                                         *)
LEMMA CoveredStep ==
  ASSUME NEW T, Typed(T), NEW r \in Requests, \A s \in Requests \ {r} : request'[s] = request[s],
         NEW v \in Variants, Covered(v), ~Taking(r, v)', stock'[v] \in Int,
         \/ stock'[v] >= stock[v]
         \/ stock'[v] >= 0 /\ ~Taking(r, v)
         \/ Taking(r, v) /\ stock'[v] = stock[v] - request[r].lines[v]
  PROVE  Covered(v)'
  <1> DEFINE k == Count(v)
  <1>1. /\ k \in Nat /\ k <= Cardinality(Requests) /\ stock[v] \in Int
        /\ \A s \in Takers(v) : s \in Requests /\ request[s].lines[v] \in 1..MaxQuantity
    BY CountStep, TakerLines DEF Typed, Takers
  <1>2. /\ Lacking(k) \in Int /\ Lacking(k + 1) \in Int /\ Lacking(k - 1) = Lacking(k) + MaxQuantity
        /\ Lacking(k) = Lacking(k + 1) + MaxQuantity /\ MaxQuantity \in Nat
        /\ Cardinality(Requests) \in Nat /\ (k + 1 <= Cardinality(Requests) => Lacking(k + 1) >= 0)
    <2>1. (k + 1) - 1 = k /\ k \in Int /\ k + 1 \in Int
      BY <1>1
    <2>2. QED
      BY <2>1, LackingLess, CheckoutConstants
  <1>3. CASE ~Taking(r, v)
    <2>1. Count(v)' = k /\ Takers(v)' = Takers(v)
      BY <1>3, CountStep
    <2>2. \A s \in Takers(v) : request'[s] = request[s]
      BY <1>3 DEF Takers
    <2>3. CASE stock'[v] >= stock[v]
      <3>1. Lacking(Count(v) + 1)' = Lacking(k + 1) /\ Lacking(Count(v))' = Lacking(k)
        BY <2>1 DEF Lacking
      <3>2. CASE stock[v] >= -Lacking(k + 1)
        BY <1>1, <1>2, <2>3, <3>1, <3>2 DEF Covered
      <3>3. CASE \E s \in Takers(v) : stock[v] >= request[s].lines[v] - Lacking(k)
        <4>1. PICK s \in Takers(v) : stock[v] >= request[s].lines[v] - Lacking(k)
          BY <3>3
        <4>2. stock'[v] >= request'[s].lines[v] - Lacking(k)
          BY <1>1, <1>2, <2>2, <2>3, <4>1
        <4>3. QED
          BY <2>1, <3>1, <4>2 DEF Covered
      <3>4. QED
        BY <3>2, <3>3 DEF Covered
    <2>4. CASE stock'[v] >= 0
      <3>1. k + 1 <= Cardinality(Requests)
        <4>1. IsFiniteSet(Requests) /\ Takers(v) \subseteq Requests \ {r}
          BY <1>3, CheckoutConstants DEF Takers
        <4>2. IsFiniteSet(Requests \ {r}) /\ Cardinality(Requests \ {r}) = Cardinality(Requests) - 1
          BY <4>1, FS_RemoveElement
        <4>3. Cardinality(Takers(v)) <= Cardinality(Requests \ {r})
          BY <4>1, <4>2, FS_Subset
        <4>4. QED
          BY <1>1, <1>2, <4>2, <4>3 DEF Count
      <3>2. Lacking(Count(v) + 1)' = Lacking(k + 1)
        BY <2>1 DEF Lacking
      <3>3. stock'[v] >= -Lacking(k + 1)
        BY <1>2, <2>4, <3>1
      <3>4. QED
        BY <3>2, <3>3 DEF Covered
    <2>5. QED
      BY <1>3, <2>3, <2>4
  <1>4. CASE Taking(r, v)
    <2>1. /\ Count(v)' = k - 1 /\ Takers(v)' = Takers(v) \ {r} /\ r \in Takers(v)
          /\ request[r].lines[v] \in 1..MaxQuantity
      BY <1>4, CountStep, TakerLines DEF Takers
    <2>2. \A s \in Takers(v) \ {r} : request'[s] = request[s]
      BY DEF Takers
    <2>3. Lacking(Count(v) + 1)' = Lacking(k) /\ Lacking(Count(v))' = Lacking(k - 1)
      <3>1. (k - 1) + 1 = k
        BY <1>1
      <3>2. QED
        BY <2>1, <3>1 DEF Lacking
    <2>4. stock'[v] >= stock[v] - request[r].lines[v]
      BY <1>1, <1>4, <2>1
    <2>5. CASE stock[v] >= -Lacking(k + 1) \/ stock[v] >= request[r].lines[v] - Lacking(k)
      <3>1. stock'[v] >= -Lacking(k)
        BY <1>1, <1>2, <2>1, <2>4, <2>5
      <3>2. QED
        BY <2>3, <3>1 DEF Covered
    <2>6. CASE \E s \in Takers(v) \ {r} : stock[v] >= request[s].lines[v] - Lacking(k)
      <3>1. PICK s \in Takers(v) \ {r} : stock[v] >= request[s].lines[v] - Lacking(k)
        BY <2>6
      <3>2. stock'[v] >= request'[s].lines[v] - Lacking(k - 1)
        BY <1>1, <1>2, <2>1, <2>2, <2>4, <3>1
      <3>3. QED
        BY <2>1, <2>3, <3>1, <3>2 DEF Covered
    <2>7. QED
      BY <2>5, <2>6 DEF Covered
  <1>5. QED
    BY <1>3, <1>4

(* A handler that verified: the stock it saw covers its lines.             *)
LEMMA CoveredVerify ==
  ASSUME NEW T, Typed(T), NEW r \in Requests, Goto(r, "checkout.commit"), At(r, "checkout.verify"),
         NEW v \in Variants, Covered(v), Covers(request[r].lines), stock' = stock
  PROVE  Covered(v)'
  <1>1. request[r] \in CheckoutRequest
    BY RequestShape DEF At
  <1>2. /\ request' = [request EXCEPT ![r] = [request[r] EXCEPT !.pc = "checkout.commit"]]
        /\ [request[r] EXCEPT !.pc = "checkout.commit"].lines = request[r].lines
        /\ [request[r] EXCEPT !.pc = "checkout.commit"].pc = "checkout.commit"
    BY <1>1 DEF Goto, Typed, CheckoutRequest
  <1>3. /\ request'[r].lines = request[r].lines /\ request'[r].pc = "checkout.commit"
        /\ \A s \in Requests \ {r} : request'[s] = request[s]
    <2>1. /\ request'[r] = [request[r] EXCEPT !.pc = "checkout.commit"]
          /\ \A s \in Requests \ {r} : request'[s] = request[s]
      BY <1>2, OtherSlots
    <2>2. QED
      BY <1>2, <2>1
  <1>4. ~Taking(r, v)
    BY DEF Taking, At
  <1>5. stock[v] \in Int /\ request[r].lines[v] \in Nat
    BY <1>1, CheckoutConstants DEF Typed, CheckoutRequest, Lines
  <1>6. CASE request[r].lines[v] > 0
    <2>1. Taking(r, v)' /\ Count(v)' = Count(v) + 1 /\ r \in Takers(v)' /\ Count(v) \in Nat
      BY <1>3, <1>4, <1>6, CountStep DEF Taking
    <2>2. Count(v)' <= Cardinality(Requests) /\ Count(v)' \in Nat
      <3>1. Count(v)' = Cardinality(Takers(v)') /\ Takers(v)' \subseteq Requests
        BY DEF Count, Takers
      <3>2. IsFiniteSet(Requests)
        BY CheckoutConstants
      <3>3. QED
        BY <2>1, <3>1, <3>2, FS_Subset, FS_CardinalityType
    <2>3. Lacking(Count(v)') \in Int /\ Lacking(Count(v)') >= 0
      BY <2>2, LackingLess
    <2>4. stock'[v] >= request'[r].lines[v] - Lacking(Count(v)')
      BY <1>3, <1>5, <1>6, <2>3 DEF Covers
    <2>5. Lacking(Count(v))' = Lacking(Count(v)')
      BY DEF Lacking
    <2>6. QED
      BY <2>1, <2>4, <2>5 DEF Covered
  <1>7. CASE ~(request[r].lines[v] > 0)
    <2>1. ~Taking(r, v)' /\ stock'[v] >= stock[v] /\ stock'[v] \in Int
      BY <1>3, <1>5, <1>7 DEF Taking
    <2>2. QED
      BY <1>3, <2>1, CoveredStep
  <1>8. QED
    BY <1>6, <1>7

LEMMA OversellInit == Init => OversellInv
  <1> SUFFICES ASSUME Init, NEW v \in Variants PROVE Covered(v)
    BY DEF OversellInv
  <1>1. Takers(v) = {} /\ stock[v] \in Nat
    BY CheckoutConstants DEF Init, Takers, Taking, Idle
  <1>2. Count(v) = 0
    BY <1>1, FS_EmptySet DEF Count
  <1>3. Cardinality(Requests) >= 1
    BY CheckoutConstants, FS_EmptySet, FS_CardinalityType
  <1>4. Lacking(1) >= 0 /\ Lacking(1) \in Int
    BY <1>3, LackingLess
  <1>5. QED
    BY <1>1, <1>2, <1>4 DEF Covered

LEMMA OversellStep ==
  ASSUME NEW T, Typed(T), Typed(T)', OversellInv, [Next]_vars
  PROVE  OversellInv'
  <1> SUFFICES ASSUME NEW v \in Variants PROVE Covered(v)'
    BY DEF OversellInv
  <1>0. Covered(v) /\ stock[v] \in Int /\ stock'[v] \in Int
    BY DEF OversellInv, Typed
  <1>1. CASE UNCHANGED <<stock, request>>
    BY <1>0, <1>1 DEF Covered, Lacking, Count, Takers, Taking
  <1>2. ASSUME NEW r \in Requests, ~Taking(r, v)', \A s \in Requests \ {r} : request'[s] = request[s],
               stock'[v] >= stock[v]
        PROVE  Covered(v)'
    BY <1>0, <1>2, CoveredStep
  <1>3. ASSUME NEW r \in Requests, NEW q, Start(r, q), q.pc # "checkout.commit"
        PROVE  ~Taking(r, v)' /\ \A s \in Requests \ {r} : request'[s] = request[s]
    BY <1>3, OtherSlots DEF Start, Taking
  <1>4. ASSUME NEW r \in Requests, Finish(r)
        PROVE  ~Taking(r, v)' /\ \A s \in Requests \ {r} : request'[s] = request[s]
    BY <1>4, AfterFinish DEF Taking
  <1>5. ASSUME NEW r \in Requests, CheckoutStep(r) PROVE Covered(v)'
    <2>1. ASSUME NEW u \in Buyers, CheckoutBegin(r, u) PROVE Covered(v)'
      BY <1>0, <1>2, <1>3, <2>1 DEF CheckoutBegin
    <2>2. CASE CheckoutVerify(r) /\ Covers(request[r].lines)
      BY <1>0, <2>2, CoveredVerify DEF CheckoutVerify
    <2>3. CASE CheckoutVerify(r) /\ ~Covers(request[r].lines)
      BY <1>0, <1>2, <1>4, <2>3 DEF CheckoutVerify
    <2>4. CASE CheckoutCommit(r)
      <3>1. request[r] \in CheckoutRequest /\ request[r].pc = "checkout.commit" /\ Finish(r)
        BY <2>4, RequestShape DEF CheckoutCommit, At
      <3>2. request[r].lines[v] \in Nat /\ stock'[v] = stock[v] - request[r].lines[v]
        BY <2>4, <3>1, CheckoutConstants DEF CheckoutCommit, CheckoutRequest, Lines
      <3>3. Taking(r, v) \/ request[r].lines[v] = 0
        BY <3>1, <3>2 DEF Taking
      <3>4. CASE Taking(r, v)
        BY <1>0, <1>4, <3>1, <3>2, <3>4, CoveredStep
      <3>5. CASE request[r].lines[v] = 0
        BY <1>0, <1>2, <1>4, <3>1, <3>2, <3>5
      <3>6. QED
        BY <3>3, <3>4, <3>5
    <2>5. QED
      BY <1>5, <2>1, <2>2, <2>3, <2>4 DEF CheckoutStep
  <1>6. ASSUME NEW r \in Requests, AdjustStep(r) PROVE Covered(v)'
    <2>1. ASSUME NEW u \in Users, NEW w \in Variants, NEW d \in Adjustments, AdjustBegin(r, u, w, d)
          PROVE  Covered(v)'
      BY <1>0, <1>2, <1>3, <2>1 DEF AdjustBegin
    <2>2. CASE AdjustCommit(r)
      <3>1. request[r].newStock \in Nat /\ ~Taking(r, v) /\ Finish(r)
        BY <2>2, RequestShape DEF AdjustCommit, At, AdjustRequest, Taking
      <3>2. stock'[v] = stock[v] \/ stock'[v] = request[r].newStock
        BY <2>2 DEF AdjustCommit, Typed
      <3>3. QED
        BY <1>0, <1>4, <3>1, <3>2, CoveredStep
    <2>3. QED
      BY <1>6, <2>1, <2>2 DEF AdjustStep
  <1>7. ASSUME NEW r \in Requests, CancelStep(r) PROVE Covered(v)'
    <2>1. ASSUME NEW o \in OrderIds, StartCancelling(r, o) PROVE Covered(v)'
      BY <1>0, <1>2, <1>3, <2>1 DEF StartCancelling
    <2>2. CASE RestockOrder(r)
      <3>1. request[r] \in OrderRequest /\ request[r].order \in OrderIds
        BY <2>2, RequestShape DEF RestockOrder, At, OrderRequest
      <3>2. items[request[r].order][v] \in Nat
        BY <3>1, CheckoutConstants DEF Typed, Lines
      <3>3. stock'[v] >= stock[v]
        BY <1>0, <2>2, <3>2 DEF RestockOrder
      <3>4. /\ request' = [request EXCEPT ![r] = [request[r] EXCEPT !.pc = "cancel.write"]]
            /\ [request[r] EXCEPT !.pc = "cancel.write"].pc = "cancel.write"
        BY <2>2, <3>1 DEF RestockOrder, Goto, Typed, OrderRequest
      <3>5. ~Taking(r, v)' /\ \A s \in Requests \ {r} : request'[s] = request[s]
        BY <3>4, OtherSlots DEF Taking
      <3>6. QED
        BY <1>2, <3>3, <3>5
    <2>3. CASE CancelWrite(r)
      BY <1>0, <1>2, <1>4, <2>3 DEF CancelWrite
    <2>4. QED
      BY <1>7, <2>1, <2>2, <2>3 DEF CancelStep, CancelBegin, PaymentFailedBegin
  <1>8. ASSUME NEW r \in Requests, PaidStep(r) PROVE Covered(v)'
    <2>1. ASSUME NEW o \in OrderIds, PaymentSucceededBegin(r, o) PROVE Covered(v)'
      BY <1>0, <1>2, <1>3, <2>1 DEF PaymentSucceededBegin
    <2>2. CASE PaidWrite(r)
      BY <1>0, <1>2, <1>4, <2>2 DEF PaidWrite
    <2>3. QED
      BY <1>8, <2>1, <2>2 DEF PaidStep
  <1>9. ASSUME NEW r \in Requests, Die(r) PROVE Covered(v)'
    BY <1>0, <1>2, <1>4, <1>9 DEF Die
  <1>10. CASE CartStep
    BY <1>1, <1>10 DEF CartStep, ClearCart, SetCartLine
  <1>11. QED
    BY <1>1, <1>5, <1>6, <1>7, <1>8, <1>9, <1>10 DEF Next, vars

LEMMA OversellInvariant == Spec => []OversellInv
  <1>1. TypeOK /\ OversellInv /\ [Next]_vars => OversellInv'
    BY Alone, StepType, OversellStep
  <1>2. QED
    BY <1>1, OversellInit, TypeCorrect, PTL DEF Spec

LEMMA OversellBound ==
  ASSUME NEW T, Typed(T), OversellInv
  PROVE  OversellBounded
  <1>1. ASSUME NEW v \in Variants
        PROVE  stock[v] >= -((Cardinality(Requests) - 1) * MaxQuantity)
    <2>1. Covered(v) /\ stock[v] \in Int
      BY <1>1 DEF OversellInv, Typed
    <2>2. ASSUME NEW r \in Takers(v) PROVE request[r].lines[v] \in Nat /\ Count(v) # 0
      <3>1. IsFiniteSet(Takers(v)) /\ Takers(v) # {}
        BY <2>2, CheckoutConstants, FS_Subset DEF Takers
      <3>2. Count(v) # 0
        BY <3>1, FS_EmptySet DEF Count
      <3>3. QED
        BY <1>1, <2>2, <3>2, TakerLines DEF Takers
    <2> DEFINE n == Cardinality(Requests)
               k == Count(v)
    <2>3. n \in Nat /\ k \in Nat /\ MaxQuantity \in Nat
      <3>1. Takers(v) \subseteq Requests /\ IsFiniteSet(Requests)
        BY CheckoutConstants DEF Takers
      <3>2. k \in Nat
        BY <3>1, FS_Subset, FS_CardinalityType DEF Count
      <3>3. QED
        BY <3>2, LackingLess, CheckoutConstants
    <2>4. Lacking(k + 1) = (n - (k + 1)) * MaxQuantity /\ Lacking(k) = (n - k) * MaxQuantity
      BY DEF Lacking
    <2>5. \/ stock[v] >= -((n - (k + 1)) * MaxQuantity)
          \/ k # 0 /\ \E l \in Nat : stock[v] >= l - ((n - k) * MaxQuantity)
      BY <2>1, <2>2, <2>4 DEF Covered
    <2> HIDE DEF n, k
    <2>6. /\ (n - (k + 1)) * MaxQuantity <= (n - 1) * MaxQuantity
          /\ k # 0 => (n - k) * MaxQuantity <= (n - 1) * MaxQuantity
          /\ (n - (k + 1)) * MaxQuantity \in Int /\ (n - k) * MaxQuantity \in Int
          /\ (n - 1) * MaxQuantity \in Int
      BY <2>3
    <2>7. stock[v] >= -((n - 1) * MaxQuantity)
      BY <2>1, <2>5, <2>6
    <2>8. QED
      BY <2>7 DEF n
  <1>2. QED
    BY <1>1 DEF OversellBounded

(* With n handlers at a time the stock of a variant falls below zero by at *)
(* most n - 1 cart lines, whatever they do: checkout verifies the stock in *)
(* its transaction and decrements it without a condition, and a seller's   *)
(* adjustment never writes a negative stock.                               *)
THEOREM OversellIsBounded == Spec => []OversellBounded
  <1>1. TypeOK /\ OversellInv => OversellBounded
    BY Alone, OversellBound
  <1>2. QED
    BY <1>1, TypeCorrect, OversellInvariant, PTL

---------------------------------------------------------------------------
(* Refunds and shipments.                                                  *)

OrderPcs  == {"refund.sum", "refund.create", "settle.write",
              "ship.create", "ship.write", "delivered.check", "delivered.write"}
RefundPcs == {"settle.mark", "settle.sum", "reject.write"}
Written   == {"FULFILLED", "COMPLETED", "REFUNDED", "PARTIALLY_REFUNDED"}
Refunds   == [RefundIds -> Refund \cup {NoRefund}]
Shipments == [ShipmentIds -> Shipment \cup {NoShipment}]

LifeTyped ==
  /\ Typed(AllRequests)
  /\ refund \in Refunds /\ shipment \in Shipments
  /\ paid \subseteq OrderIds /\ contested \subseteq OrderIds

(* The inductive invariant: every row and every handler of a refund or a   *)
(* shipment is for an order that was paid, as is every order that says it  *)
(* is, or says anything only a paid order may say; and a refund under      *)
(* decision is there.                                                      *)
Warranted ==
  /\ NothingForUnpaid
  /\ \A o \in OrderIds : status[o] = "PAID" => o \in paid
  /\ \A r \in Requests : /\ request[r].pc \in OrderPcs => request[r].order \in paid
                         /\ request[r].pc \in RefundPcs => refund[request[r].refund] # NoRefund

LifeInv == LifeTyped /\ Warranted

(* A step of a refund or a shipment handler in slot r, which then goes on  *)
(* as q.                                                                   *)
Lawful(r, q) ==
  /\ request[r].pc \notin HeadPcs /\ q.pc \notin HeadPcs /\ q \in AllRequests
  /\ request' = [request EXCEPT ![r] = q]
  /\ q.pc \in OrderPcs => q.order \in paid
  /\ q.pc \in RefundPcs => refund'[q.refund] # NoRefund
  /\ SameStock
  /\ \/ UNCHANGED <<status, history>>
     \/ \E o \in paid, s \in Written : WriteStatus(o, s)
  /\ refund' \in Refunds /\ shipment' \in Shipments /\ contested' \subseteq OrderIds
  /\ \A f \in RefundIds : /\ refund[f] # NoRefund => refund'[f] # NoRefund
                          /\ refund'[f] # NoRefund => refund'[f].order \in paid
  /\ \A s \in ShipmentIds : shipment'[s] # NoShipment => shipment'[s].order \in paid

---------------------------------------------------------------------------
LEMMA AllCarried == Carries(AllRequests)
  BY DEF Carries, HeadPcs, AllRequests, RefundRequest, DecideRequest, SettleRequest,
         ShipRequest, StatusRequest

(* The record of a refund or shipment handler, told by its pc.             *)
LEMMA LifeShape ==
  ASSUME NEW q \in AllRequests
  PROVE  /\ q.pc \in {"refund.sum", "refund.create"} => q.order \in OrderIds /\ q.amount \in RefundAmounts
         /\ q.pc \in OrderPcs => q.order \in OrderIds
         /\ q.pc \in RefundPcs => q.refund \in RefundIds /\ q \in DecideRequest
         /\ q.pc = "settle.write" => q.status \in {"REFUNDED", "PARTIALLY_REFUNDED"}
         /\ q.pc = "refund.sum" => q \in [pc: {"refund.sum"}, order: OrderIds, amount: RefundAmounts]
         /\ q.pc \in {"ship.write", "delivered.check", "delivered.write"} => q \in StatusRequest
  BY DEF AllRequests, HeadRequests, Idle, CheckoutRequest, AdjustRequest, OrderRequest, OrderPcs, RefundPcs,
         RefundRequest, DecideRequest, SettleRequest, ShipRequest, StatusRequest

(* A row that is not there has no status of a refund or a shipment.        *)
LEMMA RowShape ==
  ASSUME LifeInv
  PROVE  /\ \A f \in RefundIds : /\ refund[f] # NoRefund => refund[f] \in Refund /\ refund[f].order \in paid
                                 /\ refund[f].status = "PENDING" => refund[f] # NoRefund
         /\ \A s \in ShipmentIds : shipment[s] # NoShipment => shipment[s] \in Shipment /\ shipment[s].order \in paid
  <1>1. NoRefund.status # "PENDING"
    BY DEF NoRefund
  <1>2. QED
    BY <1>1 DEF LifeInv, LifeTyped, Warranted, NothingForUnpaid, Refunds, Shipments

(* What a lawful step leaves of the invariant.                             *)
LEMMA LawfulTyped ==
  ASSUME LifeInv, NEW r \in Requests, NEW q, Lawful(r, q),
         paid' = paid \cup {o \in OrderIds : status'[o] = "PAID"}
  PROVE  LifeTyped'
  <1>1. Typed(AllRequests)
    BY DEF LifeInv, LifeTyped
  <1>2. request' \in [Requests -> AllRequests]
    BY <1>1 DEF Lawful, Typed
  <1>3. /\ status' \in [OrderIds -> Statuses \cup {"none"}]
        /\ returned' \in [OrderIds -> Nat] /\ drifted' \subseteq Variants /\ doubtful' \subseteq OrderIds
    <2>1. CASE UNCHANGED <<status, history>>
      BY <1>1, <2>1 DEF Typed, history
    <2>2. CASE \E o \in paid, s \in Written : WriteStatus(o, s)
      <3>1. PICK o \in paid, s \in Written : WriteStatus(o, s)
        BY <2>2
      <3>2. o \in OrderIds /\ s \in Statuses
        BY DEF LifeInv, LifeTyped, Written, Statuses
      <3>3. QED
        BY <1>1, <3>1, <3>2, WriteStatusType
    <2>3. QED
      BY <2>1, <2>2 DEF Lawful
  <1>4. Typed(AllRequests)'
    BY <1>1, <1>2, <1>3 DEF Typed, Lawful, SameStock
  <1>5. QED
    BY <1>4 DEF LifeInv, LifeTyped, Lawful

LEMMA LawfulWarranted ==
  ASSUME LifeInv, NEW r \in Requests, NEW q, Lawful(r, q),
         paid' = paid \cup {o \in OrderIds : status'[o] = "PAID"}
  PROVE  Warranted'
  <1>1. request'[r] = q /\ \A s \in Requests \ {r} : request'[s] = request[s]
    BY OtherSlots DEF LifeInv, LifeTyped, Lawful
  <1>2. ASSUME NEW o \in OrderIds
        PROVE  /\ status'[o] \in Written => o \in paid
               /\ status'[o] = "PAID" => o \in paid'
    <2>1. CASE UNCHANGED <<status, history>>
      BY <2>1 DEF LifeInv, Warranted, NothingForUnpaid, Written
    <2>2. CASE \E x \in paid, s \in Written : WriteStatus(x, s)
      BY <2>2 DEF LifeInv, LifeTyped, Typed, Warranted, NothingForUnpaid, Written, WriteStatus
    <2>3. QED
      BY <2>1, <2>2 DEF Lawful
  <1>3. paid \subseteq paid'
    OBVIOUS
  <1>4. NothingForUnpaid'
    BY <1>2, <1>3 DEF NothingForUnpaid, Lawful, Written
  <1>5. ASSUME NEW s \in Requests
        PROVE  /\ request'[s].pc \in OrderPcs => request'[s].order \in paid'
               /\ request'[s].pc \in RefundPcs => refund'[request'[s].refund] # NoRefund
    <2>1. CASE s = r
      BY <1>1, <1>3, <2>1 DEF Lawful
    <2>2. CASE s # r
      <3>1. request'[s] = request[s] /\ request[s] \in AllRequests
        BY <1>1, <2>2 DEF LifeInv, LifeTyped, Typed
      <3>2. request[s].pc \in RefundPcs => request[s].refund \in RefundIds
        BY <3>1, LifeShape
      <3>3. QED
        BY <1>3, <3>1, <3>2 DEF LifeInv, Warranted, Lawful
    <2>3. QED
      BY <2>1, <2>2
  <1>6. QED
    BY <1>2, <1>4, <1>5 DEF Warranted

(* And of what is shown above: no such handler cancels, restocks or        *)
(* takes goods, and the overwritten CANCELLED status is one the history    *)
(* records.                                                                *)
LEMMA LawfulReturns ==
  ASSUME LifeInv, ReturnInv, NEW r \in Requests, NEW q, Lawful(r, q)
  PROVE  ReturnInv'
  <1> SUFFICES ASSUME NEW o \in OrderIds PROVE Settled(o)'
    BY DEF ReturnInv
  <1>1. request'[r] = q /\ \A s \in Requests \ {r} : request'[s] = request[s]
    BY OtherSlots DEF LifeInv, LifeTyped, Lawful
  <1>2. \A s \in Requests : /\ Cancelling(s, o)' <=> Cancelling(s, o)
                            /\ Cancelling(s, o) => (At(s, "cancel.write")' <=> At(s, "cancel.write"))
    BY <1>1 DEF Cancelling, At, Lawful, HeadPcs
  <1>3. CASE UNCHANGED <<status, history>>
    BY <1>2, <1>3, Undisturbed DEF ReturnInv, history
  <1>4. CASE \E x \in paid, s \in Written : WriteStatus(x, s)
    <2>1. PICK x \in paid, s \in Written : WriteStatus(x, s)
      BY <1>4
    <2>2. /\ status'[x] # "CANCELLED" /\ \A y \in OrderIds \ {x} : status'[y] = status[y]
          /\ returned' = returned /\ doubtful \subseteq doubtful'
          /\ status[x] = "CANCELLED" => x \in doubtful'
      BY <2>1 DEF WriteStatus, Doubt, Written, LifeInv, LifeTyped, Typed
    <2>3. CASE o = x /\ status[o] = "CANCELLED"
      BY <1>2, <2>2, <2>3 DEF ReturnInv, Settled, Restocked
    <2>4. CASE o # x \/ status[o] # "CANCELLED"
      BY <1>2, <2>2, <2>4, Undisturbed DEF ReturnInv
    <2>5. QED
      BY <2>3, <2>4
  <1>5. QED
    BY <1>3, <1>4 DEF Lawful

LEMMA LawfulStock ==
  ASSUME LifeInv, NEW r \in Requests, NEW q, Lawful(r, q)
  PROVE  /\ StockMatchesLedger => StockMatchesLedger'
         /\ OversellInv => OversellInv'
  <1>1. stock' = stock /\ ledger' = ledger /\ drifted' = drifted
    BY DEF Lawful, SameStock, WriteStatus, history
  <1>2. ASSUME OversellInv, NEW v \in Variants PROVE Covered(v)'
    <2>1. request'[r] = q /\ \A s \in Requests \ {r} : request'[s] = request[s]
      BY OtherSlots DEF LifeInv, LifeTyped, Lawful
    <2>2. ~Taking(r, v)'
      BY <2>1 DEF Taking, Lawful, HeadPcs
    <2>3. stock'[v] \in Int /\ stock'[v] >= stock[v]
      BY <1>1 DEF LifeInv, LifeTyped, Typed
    <2>4. QED
      BY <1>2, <2>1, <2>2, <2>3, CoveredStep DEF LifeInv, LifeTyped, OversellInv
  <1>3. StockMatchesLedger => StockMatchesLedger'
    BY <1>1 DEF StockMatchesLedger
  <1>4. QED
    BY <1>2, <1>3 DEF OversellInv

---------------------------------------------------------------------------
(* Every refund and shipment step is lawful.  A handler that only reads:   *)
LEMMA ReadingLawful ==
  ASSUME LifeInv, NEW r \in Requests, NEW q \in AllRequests, Reading,
         request' = [request EXCEPT ![r] = q],
         request[r].pc \notin HeadPcs, q.pc \notin HeadPcs,
         q.pc \in OrderPcs => q.order \in paid,
         q.pc \in RefundPcs => refund[q.refund] # NoRefund
  PROVE  Lawful(r, q)
  BY RowShape DEF Lawful, Reading, ownVars, LifeInv, LifeTyped

(* One that changes at most one row, for a paid order.                     *)
LEMMA RowsLawful ==
  ASSUME LifeInv, NEW f \in RefundIds, NEW row \in Refund, row.order \in paid,
         refund' = [refund EXCEPT ![f] = row]
  PROVE  /\ refund' \in Refunds
         /\ \A g \in RefundIds : /\ refund[g] # NoRefund => refund'[g] # NoRefund
                                 /\ refund'[g] # NoRefund => refund'[g].order \in paid
  <1>1. row # NoRefund
    BY DEF Refund, NoRefund
  <1>2. QED
    BY <1>1, RowShape DEF Refunds, LifeInv, LifeTyped

LEMMA ShipmentsLawful ==
  ASSUME LifeInv, NEW s \in ShipmentIds, NEW row \in Shipment, row.order \in paid,
         shipment' = [shipment EXCEPT ![s] = row]
  PROVE  /\ shipment' \in Shipments
         /\ \A t \in ShipmentIds : shipment'[t] # NoShipment => shipment'[t].order \in paid
  BY RowShape DEF Shipments, LifeInv, LifeTyped

LEMMA ContestLawful ==
  ASSUME LifeInv, NEW o \in OrderIds, NEW c, Contest(o, c)
  PROVE  contested' \subseteq OrderIds
  BY DEF Contest, LifeInv, LifeTyped

(* A free slot.                                                            *)
LEMMA IdleShape == Idle \in AllRequests /\ Idle.pc \notin HeadPcs \cup OrderPcs \cup RefundPcs
  BY DEF Idle, AllRequests, HeadRequests, HeadPcs, OrderPcs, RefundPcs

LEMMA RefundStart ==
  ASSUME LifeInv, NEW r \in Requests, NEW f \in RefundIds, refund[f].status = "PENDING", Reading,
         NEW pc \in {"settle.mark", "reject.write"}, Start(r, [pc |-> pc, refund |-> f])
  PROVE  \E q : Lawful(r, q)
  <1>1. [pc |-> pc, refund |-> f] \in AllRequests
    BY DEF AllRequests, DecideRequest
  <1>2. request[r].pc \notin HeadPcs
    BY IdleShape DEF Start
  <1>3. refund[f] # NoRefund /\ pc \notin HeadPcs /\ pc \notin OrderPcs
    BY RowShape DEF HeadPcs, OrderPcs
  <1>4. QED
    BY <1>1, <1>2, <1>3, ReadingLawful DEF Start

LEMMA DecisionLawful ==
  ASSUME LifeInv, NEW r \in Requests, request[r].pc \in {"settle.mark", "reject.write"},
         NEW f, f = request[r].refund, NEW st \in {"PROCESSED", "REJECTED"}, NEW p \in BOOLEAN,
         refund' = [refund EXCEPT ![f] = [refund[f] EXCEPT !.status = st, !.processed = p]],
         NEW c, Contest(refund[f].order, c),
         SameStock, UNCHANGED <<status, history, shipment>>,
         NEW q \in AllRequests, request' = [request EXCEPT ![r] = q],
         q = Idle \/ q = [request[r] EXCEPT !.pc = "settle.sum"]
  PROVE  Lawful(r, q)
  <1>1. /\ request[r] \in DecideRequest /\ f \in RefundIds
        /\ refund[f] # NoRefund /\ refund[f] \in Refund /\ refund[f].order \in paid
        /\ request[r].pc \notin HeadPcs
    <2>1. request[r] \in AllRequests /\ request[r].pc \in RefundPcs /\ request[r].pc \notin HeadPcs
      BY DEF LifeInv, LifeTyped, Typed, RefundPcs, HeadPcs
    <2>2. request[r] \in DecideRequest /\ f \in RefundIds
      BY <2>1, LifeShape
    <2>3. refund[f] # NoRefund
      BY <2>1 DEF LifeInv, Warranted
    <2>4. QED
      BY <2>1, <2>2, <2>3, RowShape
  <1> DEFINE row == [refund[f] EXCEPT !.status = st, !.processed = p]
  <1>2. row \in Refund /\ row.order \in paid
    BY <1>1 DEF Refund
  <1>3. /\ refund' \in Refunds
        /\ \A g \in RefundIds : /\ refund[g] # NoRefund => refund'[g] # NoRefund
                                /\ refund'[g] # NoRefund => refund'[g].order \in paid
    BY <1>1, <1>2, RowsLawful
  <1>4. contested' \subseteq OrderIds
    BY <1>1, ContestLawful DEF LifeInv, LifeTyped
  <1>5. /\ q.pc \notin HeadPcs /\ q.pc \notin OrderPcs
        /\ q.pc \in RefundPcs => q.refund = f
    BY <1>1, IdleShape DEF DecideRequest, HeadPcs, OrderPcs, RefundPcs
  <1>6. shipment' \in Shipments /\ \A s \in ShipmentIds : shipment'[s] # NoShipment => shipment'[s].order \in paid
    BY RowShape DEF LifeInv, LifeTyped
  <1>7. QED
    BY <1>1, <1>3, <1>4, <1>5, <1>6 DEF Lawful

LEMMA RefundLawful ==
  ASSUME LifeInv, NEW r \in Requests, RefundStep(r)
  PROVE  \E q : Lawful(r, q)
  <1>0. request[r] \in AllRequests
    BY DEF LifeInv, LifeTyped, Typed
  <1>1. ASSUME NEW u \in Users, NEW o \in OrderIds, NEW a \in RefundAmounts, RefundBegin(r, u, o, a)
        PROVE  \E q : Lawful(r, q)
    <2> DEFINE q == [pc |-> "refund.sum", order |-> o, amount |-> a]
    <2>1. o \in paid
      BY <1>1 DEF RefundBegin, Refundable, LifeInv, Warranted, NothingForUnpaid
    <2>2. q \in AllRequests
      BY DEF AllRequests, RefundRequest
    <2>3. request[r].pc \notin HeadPcs
      BY <1>1, IdleShape DEF RefundBegin, Start
    <2>4. q.pc \notin HeadPcs /\ q.pc \notin RefundPcs
      BY DEF HeadPcs, RefundPcs
    <2>5. Lawful(r, q)
      BY <1>1, <2>1, <2>2, <2>3, <2>4, ReadingLawful DEF RefundBegin, Start
    <2>6. QED
      BY <2>5
  <1>2. CASE RefundSum(r)
    <2> DEFINE o == request[r].order
               q == [pc |-> "refund.create", order |-> o, amount |-> request[r].amount,
                     seen |-> RefundsOf(o, "PROCESSED")]
    <2>1. /\ request[r].pc = "refund.sum" /\ request[r].pc \notin HeadPcs /\ Reading
          /\ o \in OrderIds /\ request[r].amount \in RefundAmounts /\ o \in paid
      BY <1>0, <1>2, LifeShape DEF RefundSum, At, HeadPcs, OrderPcs, LifeInv, Warranted
    <2>2. CASE Finish(r)
      BY <2>1, <2>2, IdleShape, ReadingLawful DEF Finish
    <2>3. CASE Ask(r, RefundsOf(o, "PROCESSED"))
      <3>1. request' = [request EXCEPT ![r] = q]
        BY <2>3 DEF Ask, LifeInv, LifeTyped, Typed
      <3>2. RefundsOf(o, "PROCESSED") \subseteq RefundIds
        BY DEF RefundsOf
      <3>3. q \in AllRequests
        BY <2>1, <3>2 DEF AllRequests, RefundRequest
      <3>4. q.pc \notin HeadPcs /\ q.pc \notin RefundPcs /\ q.order \in paid
        BY <2>1 DEF HeadPcs, RefundPcs
      <3>5. Lawful(r, q)
        BY <2>1, <3>1, <3>3, <3>4, ReadingLawful
      <3>6. QED
        BY <3>5
    <2>4. QED
      BY <1>2, <2>2, <2>3 DEF RefundSum
  <1>3. CASE RefundCreate(r)
    <2> DEFINE o == request[r].order
               row == [order |-> o, amount |-> request[r].amount, status |-> "PENDING", processed |-> FALSE]
    <2>1. /\ request[r].pc \notin HeadPcs
          /\ o \in OrderIds /\ request[r].amount \in RefundAmounts /\ o \in paid
      BY <1>0, <1>3, LifeShape DEF RefundCreate, At, HeadPcs, OrderPcs, LifeInv, Warranted
    <2>2. row \in Refund /\ row.order \in paid
      BY <2>1 DEF Refund
    <2>3. PICK f \in RefundIds : refund' = [refund EXCEPT ![f] = row]
      BY <1>3 DEF RefundCreate
    <2>4. /\ refund' \in Refunds
          /\ \A g \in RefundIds : /\ refund[g] # NoRefund => refund'[g] # NoRefund
                                  /\ refund'[g] # NoRefund => refund'[g].order \in paid
      BY <2>2, <2>3, RowsLawful
    <2>5. contested' \subseteq OrderIds
      BY <1>3, <2>1, ContestLawful DEF RefundCreate
    <2>6. Lawful(r, Idle)
      BY <1>3, <2>1, <2>4, <2>5, IdleShape, RowShape DEF RefundCreate, Finish, Lawful, LifeInv, LifeTyped
    <2>7. QED
      BY <2>6
  <1>4. ASSUME NEW f \in RefundIds, RefundProcessedBegin(r, f)
        PROVE  \E q : Lawful(r, q)
    BY <1>4, RefundStart DEF RefundProcessedBegin
  <1>5. ASSUME NEW f \in RefundIds, NEW u \in Users, ApproveBegin(r, u, f) \/ RejectBegin(r, u, f)
        PROVE  \E q : Lawful(r, q)
    BY <1>5, RefundStart DEF ApproveBegin, RejectBegin
  <1>6. CASE SettleMark(r)
    <2> DEFINE f == request[r].refund
               q == [request[r] EXCEPT !.pc = "settle.sum"]
    <2>1. request[r] \in DecideRequest /\ request[r].pc = "settle.mark"
      BY <1>0, <1>6, LifeShape DEF SettleMark, At, RefundPcs
    <2>2. q \in AllRequests
      BY <2>1 DEF DecideRequest, AllRequests
    <2>3. request' = [request EXCEPT ![r] = q]
      BY <1>6 DEF SettleMark, Goto, LifeInv, LifeTyped, Typed
    <2>4. refund' = [refund EXCEPT ![f] = [refund[f] EXCEPT !.status = "PROCESSED", !.processed = TRUE]]
      BY <1>6, <2>1 DEF SettleMark, LifeInv, LifeTyped, Refunds, DecideRequest
    <2>5. \E c : Contest(refund[f].order, c)
      BY <1>6 DEF SettleMark
    <2>6. Lawful(r, q)
      BY <1>6, <2>1, <2>2, <2>3, <2>4, <2>5, DecisionLawful DEF SettleMark
    <2>7. QED
      BY <2>6
  <1>7. CASE RejectWrite(r)
    <2> DEFINE f == request[r].refund
    <2>1. request[r] \in DecideRequest /\ request[r].pc = "reject.write"
      BY <1>0, <1>7, LifeShape DEF RejectWrite, At, RefundPcs
    <2>2. refund[f] \in Refund
      BY <2>1, RowShape DEF LifeInv, Warranted, RefundPcs, DecideRequest
    <2>3. /\ refund' = [refund EXCEPT ![f] = [refund[f] EXCEPT !.status = "REJECTED", !.processed = refund[f].processed]]
          /\ refund[f].processed \in BOOLEAN
      <3>1. refund' = [refund EXCEPT ![f] = [refund[f] EXCEPT !.status = "REJECTED"]]
        BY <1>7 DEF RejectWrite, LifeInv, LifeTyped, Refunds
      <3>2. refund[f].processed \in BOOLEAN
        BY <2>2 DEF Refund
      <3>3. [refund[f] EXCEPT !.status = "REJECTED"]
              = [refund[f] EXCEPT !.status = "REJECTED", !.processed = refund[f].processed]
        BY <2>2 DEF Refund
      <3>4. QED
        BY <3>1, <3>2, <3>3
    <2>4. \E c : Contest(refund[f].order, c)
      BY <1>7 DEF RejectWrite
    <2>5. Idle \in AllRequests
      BY IdleShape
    <2>6. Lawful(r, Idle)
      BY <1>7, <2>1, <2>3, <2>4, <2>5, DecisionLawful DEF RejectWrite, Finish
    <2>7. QED
      BY <2>6
  <1>8. CASE SettleSum(r)
    <2> DEFINE f == request[r].refund
               q == [pc |-> "settle.write", order |-> refund[f].order, status |-> SettledStatus(refund[f].order)]
    <2>1. request[r] \in DecideRequest /\ request[r].pc \in RefundPcs /\ request[r].pc \notin HeadPcs
      BY <1>0, <1>8, LifeShape DEF SettleSum, At, RefundPcs, HeadPcs
    <2>2. refund[f] \in Refund /\ refund[f].order \in paid
      BY <2>1, RowShape DEF LifeInv, Warranted, DecideRequest
    <2>3. SettledStatus(refund[f].order) \in {"REFUNDED", "PARTIALLY_REFUNDED"}
      BY DEF SettledStatus
    <2>4. q \in AllRequests
      BY <2>2, <2>3 DEF AllRequests, SettleRequest, Refund
    <2>5. q.pc \notin HeadPcs /\ q.pc \notin RefundPcs /\ q.order \in paid
      BY <2>2 DEF HeadPcs, RefundPcs
    <2>6. Reading /\ request' = [request EXCEPT ![r] = q]
      BY <1>8 DEF SettleSum
    <2>7. Lawful(r, q)
      BY <2>1, <2>4, <2>5, <2>6, ReadingLawful
    <2>8. QED
      BY <2>7
  <1>9. CASE SettleWrite(r)
    <2>1. /\ request[r].pc \notin HeadPcs /\ request[r].order \in paid
          /\ request[r].status \in Written
      BY <1>0, <1>9, LifeShape DEF SettleWrite, At, HeadPcs, OrderPcs, Written, LifeInv, Warranted
    <2>2. Lawful(r, Idle)
      BY <1>9, <2>1, IdleShape, RowShape DEF SettleWrite, Finish, Lawful, LifeInv, LifeTyped, ownVars
    <2>3. QED
      BY <2>2
  <1>10. QED
    BY <1>1, <1>2, <1>3, <1>4, <1>5, <1>6, <1>7, <1>8, <1>9 DEF RefundStep

(* A status only a paid order gets, and the slot is free again.            *)
LEMMA WriteLawful ==
  ASSUME LifeInv, NEW r \in Requests, request[r].pc \in OrderPcs, NEW s \in Written,
         WriteStatus(request[r].order, s), Finish(r), SameStock, UNCHANGED ownVars
  PROVE  Lawful(r, Idle)
  <1>1. request[r].pc \notin HeadPcs /\ request[r].order \in paid
    BY DEF HeadPcs, OrderPcs, LifeInv, Warranted
  <1>2. QED
    BY <1>1, IdleShape, RowShape DEF Finish, Lawful, LifeInv, LifeTyped, ownVars

LEMMA ShipmentLawful ==
  ASSUME LifeInv, NEW r \in Requests, ShipmentStep(r)
  PROVE  \E q : Lawful(r, q)
  <1>0. request[r] \in AllRequests
    BY DEF LifeInv, LifeTyped, Typed
  <1>1. ASSUME NEW u \in Users, NEW o \in OrderIds, ShipBegin(r, u, o)
        PROVE  \E q : Lawful(r, q)
    <2> DEFINE q == [pc |-> "ship.create", order |-> o, seen |-> status[o]]
    <2>1. o \in paid
      BY <1>1 DEF ShipBegin, Shippable, LifeInv, Warranted, NothingForUnpaid
    <2>2. q \in AllRequests
      BY <1>1 DEF ShipBegin, AllRequests, ShipRequest
    <2>3. request[r].pc \notin HeadPcs /\ q.pc \notin HeadPcs /\ q.pc \notin RefundPcs
      BY <1>1, IdleShape DEF ShipBegin, Start, HeadPcs, RefundPcs
    <2>4. Lawful(r, q)
      BY <1>1, <2>1, <2>2, <2>3, ReadingLawful DEF ShipBegin, Start
    <2>5. QED
      BY <2>4
  <1>2. ASSUME NEW u \in Users, NEW s \in ShipmentIds, NEW st \in ShipmentStatuses,
               UpdateShipment(r, u, s, st)
        PROVE  \E q : Lawful(r, q)
    <2> DEFINE o == shipment[s].order
               row == [shipment[s] EXCEPT !.status = st]
               q == IF st = "DELIVERED" THEN [pc |-> "delivered.check", order |-> o] ELSE Idle
    <2>1. shipment[s] \in Shipment /\ o \in paid /\ o \in OrderIds
      BY <1>2, RowShape DEF UpdateShipment, Shipment
    <2>2. row \in Shipment /\ row.order \in paid
      BY <2>1 DEF Shipment
    <2>3. shipment' = [shipment EXCEPT ![s] = row]
      BY <1>2 DEF UpdateShipment, LifeInv, LifeTyped, Shipments
    <2>4. /\ shipment' \in Shipments
          /\ \A t \in ShipmentIds : shipment'[t] # NoShipment => shipment'[t].order \in paid
      BY <2>2, <2>3, ShipmentsLawful
    <2>5. request[r] = Idle /\ request' = [request EXCEPT ![r] = q]
      BY <1>2 DEF UpdateShipment, Start, LifeInv, LifeTyped, Typed
    <2>6. /\ q \in AllRequests /\ q.pc \notin HeadPcs /\ q.pc \notin RefundPcs
          /\ q.pc \in OrderPcs => q.order \in paid
      <3>1. CASE st = "DELIVERED"
        BY <2>1, <3>1 DEF AllRequests, StatusRequest, HeadPcs, RefundPcs
      <3>2. CASE st # "DELIVERED"
        BY <3>2, IdleShape
      <3>3. QED
        BY <3>1, <3>2
    <2> HIDE DEF q
    <2>7. Lawful(r, q)
      BY <1>2, <2>4, <2>5, <2>6, IdleShape, RowShape DEF UpdateShipment, Lawful, LifeInv, LifeTyped
    <2>8. QED
      BY <2>7
  <1>3. CASE ShipCreate(r)
    <2> DEFINE o == request[r].order
               row == [order |-> o, status |-> "PENDING"]
               q == IF request[r].seen = "PAID" THEN [pc |-> "ship.write", order |-> o] ELSE Idle
    <2>1. request[r].pc \notin HeadPcs /\ o \in OrderIds /\ o \in paid
      BY <1>0, <1>3, LifeShape DEF ShipCreate, At, HeadPcs, OrderPcs, LifeInv, Warranted
    <2>2. row \in Shipment /\ row.order \in paid
      BY <2>1 DEF Shipment, ShipmentStatuses
    <2>3. PICK s \in ShipmentIds : shipment' = [shipment EXCEPT ![s] = row]
      BY <1>3 DEF ShipCreate
    <2>4. /\ shipment' \in Shipments
          /\ \A t \in ShipmentIds : shipment'[t] # NoShipment => shipment'[t].order \in paid
      BY <2>2, <2>3, ShipmentsLawful
    <2>5. request' = [request EXCEPT ![r] = q]
      BY <1>3 DEF ShipCreate, Finish
    <2>6. /\ q \in AllRequests /\ q.pc \notin HeadPcs /\ q.pc \notin RefundPcs
          /\ q.pc \in OrderPcs => q.order \in paid
      <3>1. CASE request[r].seen = "PAID"
        BY <2>1, <3>1 DEF AllRequests, StatusRequest, HeadPcs, RefundPcs
      <3>2. CASE request[r].seen # "PAID"
        BY <3>2, IdleShape
      <3>3. QED
        BY <3>1, <3>2
    <2> HIDE DEF q
    <2>7. Lawful(r, q)
      BY <1>3, <2>1, <2>4, <2>5, <2>6, RowShape DEF ShipCreate, Lawful, LifeInv, LifeTyped
    <2>8. QED
      BY <2>7
  <1>4. CASE DeliveredCheck(r)
    <2> DEFINE q == [request[r] EXCEPT !.pc = "delivered.write"]
    <2>1. /\ request[r].pc \notin HeadPcs /\ Reading /\ request[r] \in StatusRequest
          /\ request[r].order \in paid
      BY <1>0, <1>4, LifeShape DEF DeliveredCheck, At, HeadPcs, OrderPcs, LifeInv, Warranted
    <2>2. CASE Finish(r)
      BY <2>1, <2>2, IdleShape, ReadingLawful DEF Finish
    <2>3. CASE Goto(r, "delivered.write")
      <3>1. request' = [request EXCEPT ![r] = q]
        BY <2>3 DEF Goto, LifeInv, LifeTyped, Typed
      <3>2. q \in AllRequests /\ q.pc \notin HeadPcs /\ q.pc \notin RefundPcs /\ q.order \in paid
        BY <2>1 DEF AllRequests, StatusRequest, HeadPcs, RefundPcs
      <3>3. Lawful(r, q)
        BY <2>1, <3>1, <3>2, ReadingLawful
      <3>4. QED
        BY <3>3
    <2>4. QED
      BY <1>4, <2>2, <2>3 DEF DeliveredCheck
  <1>5. CASE ShipWrite(r)
    BY <1>5, WriteLawful DEF ShipWrite, At, OrderPcs, Written
  <1>6. CASE DeliveredWrite(r)
    BY <1>6, WriteLawful DEF DeliveredWrite, At, OrderPcs, Written
  <1>7. QED
    BY <1>1, <1>2, <1>3, <1>4, <1>5, <1>6 DEF ShipmentStep

---------------------------------------------------------------------------
(* A step of Checkout leaves a slot as it is, free, or with one of its own *)
(* handlers, and an order as it is or with a status of its own.            *)
OwnSlots    == \A s \in Requests : request'[s] = request[s] \/ request'[s].pc \in HeadPcs \cup {"idle"}
OwnStatuses == \A o \in OrderIds : status'[o] = status[o] \/ status'[o] \in {"PENDING_PAYMENT", "PAID", "CANCELLED"}

LEMMA OwnSlot ==
  ASSUME LifeInv, NEW r \in Requests
  PROVE  /\ Finish(r) => OwnSlots
         /\ \A q : q.pc \in HeadPcs /\ Start(r, q) => OwnSlots
         /\ \A pc \in HeadPcs : request[r] \in CheckoutRequest \cup OrderRequest /\ Goto(r, pc) => OwnSlots
  <1>1. ASSUME NEW q, q.pc \in HeadPcs \cup {"idle"}, request' = [request EXCEPT ![r] = q]
        PROVE  OwnSlots
    BY <1>1, OtherSlots DEF OwnSlots, LifeInv, LifeTyped
  <1>2. Finish(r) => OwnSlots
    BY <1>1 DEF Finish, Idle
  <1>3. ASSUME NEW pc \in HeadPcs, request[r] \in CheckoutRequest \cup OrderRequest, Goto(r, pc)
        PROVE  OwnSlots
    <2>1. request' = [request EXCEPT ![r] = [request[r] EXCEPT !.pc = pc]]
      BY <1>3 DEF Goto, LifeInv, LifeTyped, Typed
    <2>2. [request[r] EXCEPT !.pc = pc].pc = pc
      BY <1>3 DEF CheckoutRequest, OrderRequest
    <2>3. QED
      BY <1>1, <2>1, <2>2
  <1>4. QED
    BY <1>1, <1>2, <1>3 DEF Start

LEMMA HeadStep ==
  ASSUME LifeInv, Next
  PROVE  OwnSlots /\ OwnStatuses
  <1>0. Typed(AllRequests)
    BY DEF LifeInv, LifeTyped
  <1>1. CASE CartStep
    BY <1>1 DEF CartStep, ClearCart, SetCartLine, orderVars, OwnSlots, OwnStatuses
  <1>2. status' = status => OwnStatuses
    BY DEF OwnStatuses
  <1>3. ASSUME NEW o, NEW st \in {"PAID", "CANCELLED"}, WriteStatus(o, st)
        PROVE  OwnStatuses
    BY <1>0, <1>3 DEF WriteStatus, Typed, OwnStatuses
  <1>4. ASSUME NEW r \in Requests, CheckoutStep(r)
        PROVE  OwnSlots /\ OwnStatuses
    <2>1. ASSUME NEW u \in Buyers, CheckoutBegin(r, u)
          PROVE  OwnSlots /\ OwnStatuses
      BY <1>2, <2>1, OwnSlot DEF CheckoutBegin, HeadPcs, orderVars
    <2>2. CASE CheckoutVerify(r)
      <3>1. request[r] \in CheckoutRequest
        BY <1>0, <2>2, RequestShape DEF CheckoutVerify, At
      <3>2. QED
        BY <1>2, <2>2, <3>1, OwnSlot DEF CheckoutVerify, HeadPcs, orderVars
    <2>3. CASE CheckoutCommit(r)
      <3>1. OwnStatuses
        BY <2>3 DEF CheckoutCommit, OwnStatuses
      <3>2. QED
        BY <2>3, <3>1, OwnSlot DEF CheckoutCommit
    <2>4. QED
      BY <1>4, <2>1, <2>2, <2>3 DEF CheckoutStep
  <1>5. ASSUME NEW r \in Requests, AdjustStep(r)
        PROVE  OwnSlots /\ OwnStatuses
    BY <1>2, <1>5, OwnSlot DEF AdjustStep, AdjustBegin, AdjustCommit, HeadPcs, orderVars
  <1>6. ASSUME NEW r \in Requests, CancelStep(r)
        PROVE  OwnSlots /\ OwnStatuses
    <2>1. ASSUME NEW o \in OrderIds, StartCancelling(r, o)
          PROVE  OwnSlots /\ OwnStatuses
      BY <1>2, <2>1, OwnSlot DEF StartCancelling, HeadPcs, orderVars
    <2>2. CASE RestockOrder(r)
      <3>1. request[r] \in OrderRequest
        BY <1>0, <2>2, RequestShape DEF RestockOrder, At
      <3>2. QED
        BY <1>2, <2>2, <3>1, OwnSlot DEF RestockOrder, HeadPcs, orderVars
    <2>3. CASE CancelWrite(r)
      BY <1>3, <2>3, OwnSlot DEF CancelWrite
    <2>4. QED
      BY <1>6, <2>1, <2>2, <2>3 DEF CancelStep, CancelBegin, PaymentFailedBegin
  <1>7. ASSUME NEW r \in Requests, PaidStep(r)
        PROVE  OwnSlots /\ OwnStatuses
    <2>1. ASSUME NEW o \in OrderIds, PaymentSucceededBegin(r, o)
          PROVE  OwnSlots /\ OwnStatuses
      BY <1>2, <2>1, OwnSlot DEF PaymentSucceededBegin, HeadPcs, orderVars
    <2>2. CASE PaidWrite(r)
      BY <1>3, <2>2, OwnSlot DEF PaidWrite
    <2>3. QED
      BY <1>7, <2>1, <2>2 DEF PaidStep
  <1>8. ASSUME NEW r \in Requests, Die(r)
        PROVE  OwnSlots /\ OwnStatuses
    BY <1>2, <1>8, OwnSlot DEF Die, orderVars
  <1>9. QED
    BY <1>1, <1>4, <1>5, <1>6, <1>7, <1>8 DEF Next

LEMMA HeadWarranted ==
  ASSUME LifeInv, Next, UNCHANGED ownVars,
         paid' = paid \cup {o \in OrderIds : status'[o] = "PAID"}
  PROVE  LifeInv'
  <1>1. OwnSlots /\ OwnStatuses
    BY HeadStep
  <1>2. Typed(AllRequests)'
    BY StepType DEF LifeInv, LifeTyped
  <1>3. LifeTyped'
    BY <1>2 DEF LifeInv, LifeTyped, ownVars
  <1>4. refund' = refund /\ shipment' = shipment /\ paid \subseteq paid'
    BY DEF ownVars
  <1>5. ASSUME NEW o \in OrderIds
        PROVE  /\ status'[o] \in Written => o \in paid
               /\ status'[o] = "PAID" => o \in paid'
    BY <1>1 DEF OwnStatuses, Written, LifeInv, Warranted, NothingForUnpaid
  <1>6. NothingForUnpaid'
    BY <1>4, <1>5 DEF NothingForUnpaid, Written, LifeInv, Warranted
  <1>7. ASSUME NEW s \in Requests
        PROVE  /\ request'[s].pc \in OrderPcs => request'[s].order \in paid'
               /\ request'[s].pc \in RefundPcs => refund'[request'[s].refund] # NoRefund
    BY <1>1, <1>4 DEF OwnSlots, HeadPcs, OrderPcs, RefundPcs, LifeInv, Warranted
  <1>8. QED
    BY <1>3, <1>5, <1>6, <1>7 DEF LifeInv, Warranted

LEMMA LifeInit == FulfilmentInit => LifeInv /\ ReturnInv /\ OversellInv /\ StockMatchesLedger
  <1> SUFFICES ASSUME FulfilmentInit PROVE LifeInv /\ ReturnInv /\ OversellInv /\ StockMatchesLedger
    OBVIOUS
  <1>1. ReturnInv /\ OversellInv /\ StockMatchesLedger
    BY ReturnInit, OversellInit DEF FulfilmentInit, Init, StockMatchesLedger
  <1>2. Typed(AllRequests)
    <2>1. TypeOK
      BY InitType DEF FulfilmentInit
    <2>2. HeadRequests \subseteq AllRequests
      BY DEF AllRequests
    <2>3. QED
      BY <2>1, <2>2, AllCarried DEF TypeOK, Typed
  <1>3. LifeTyped
    BY <1>2 DEF LifeTyped, FulfilmentInit, Refunds, Shipments
  <1>4. /\ \A r \in Requests : request[r] = Idle
        /\ \A o \in OrderIds : status[o] = "none"
    BY DEF FulfilmentInit, Init
  <1>5. Warranted
    BY <1>4, IdleShape DEF Warranted, NothingForUnpaid, FulfilmentInit
  <1>6. QED
    BY <1>1, <1>3, <1>5 DEF LifeInv

LEMMA LifeStep ==
  ASSUME LifeInv, [FulfilmentNext]_allVars
  PROVE  /\ LifeInv'
         /\ ReturnInv => ReturnInv'
         /\ OversellInv => OversellInv'
         /\ StockMatchesLedger => StockMatchesLedger'
  <1>0. Typed(AllRequests)
    BY DEF LifeInv, LifeTyped
  <1>1. CASE UNCHANGED allVars
    <2>1. LifeTyped'
      BY <1>1 DEF allVars, vars, ownVars, orderVars, history, LifeInv, LifeTyped, Typed
    <2>2. Warranted'
      BY <1>1 DEF allVars, vars, ownVars, orderVars, LifeInv, Warranted, NothingForUnpaid
    <2>3. [Next]_vars
      BY <1>1 DEF allVars
    <2>4. QED
      BY <1>0, <2>1, <2>2, <2>3, StepType, ReturnStep, OversellStep, LedgerStep DEF LifeInv
  <1>2. CASE Next /\ UNCHANGED ownVars /\ paid' = paid \cup {o \in OrderIds : status'[o] = "PAID"}
    BY <1>0, <1>2, HeadWarranted, StepType, ReturnStep, OversellStep, LedgerStep
  <1>3. ASSUME NEW r \in Requests, RefundStep(r) \/ ShipmentStep(r),
               paid' = paid \cup {o \in OrderIds : status'[o] = "PAID"}
        PROVE  /\ LifeInv'
               /\ ReturnInv => ReturnInv'
               /\ OversellInv => OversellInv'
               /\ StockMatchesLedger => StockMatchesLedger'
    <2>1. PICK q : Lawful(r, q)
      BY <1>3, RefundLawful, ShipmentLawful
    <2>2. LifeInv'
      BY <1>3, <2>1, LawfulTyped, LawfulWarranted DEF LifeInv
    <2>3. QED
      BY <2>1, <2>2, LawfulReturns, LawfulStock
  <1>4. QED
    BY <1>1, <1>2, <1>3 DEF FulfilmentNext

LEMMA LifeInvariant == FulfilmentSpec => [](LifeInv /\ ReturnInv /\ OversellInv /\ StockMatchesLedger)
  <1>1. LifeInv /\ ReturnInv /\ OversellInv /\ StockMatchesLedger /\ [FulfilmentNext]_allVars
          => (LifeInv /\ ReturnInv /\ OversellInv /\ StockMatchesLedger)'
    BY LifeStep
  <1>2. QED
    BY <1>1, LifeInit, PTL DEF FulfilmentSpec

---------------------------------------------------------------------------
(* Orders, refunds, shipments and the record each handler carries keep     *)
(* their types.                                                            *)
THEOREM FulfilmentTypeCorrect == FulfilmentSpec => []FulfilmentTypeOK
  <1>1. LifeInv => FulfilmentTypeOK
    BY DEF LifeInv, LifeTyped, Typed, Refunds, Shipments, FulfilmentTypeOK
  <1>2. QED
    BY <1>1, LifeInvariant, PTL

(* However checkouts, webhooks, cancellations, refunds and shipments       *)
(* interleave, nothing is shipped, refunded or marked FULFILLED, COMPLETED *)
(* or REFUNDED for an order that never was PAID: ShipmentsService.create   *)
(* and RefundsService.create let only a paid order in, and what was let in *)
(* stays with its order.                                                   *)
THEOREM NothingLeavesUnpaid == FulfilmentSpec => []NothingForUnpaid
  <1>1. LifeInv => NothingForUnpaid
    BY DEF LifeInv, Warranted
  <1>2. QED
    BY <1>1, LifeInvariant, PTL

(* Refunds and shipments write the same status column without a condition. *)
(* What OrdersService promises about cancelled orders outlives them: goods *)
(* go back before the status says so, and twice only after a mishap the    *)
(* history names, a revived CANCELLED order among them.                    *)
THEOREM ReturnsSurvive == FulfilmentSpec => [](CancelledIsReturned /\ ReturnedTwiceNeedsMishap)
  <1>1. LifeInv /\ ReturnInv => CancelledIsReturned /\ ReturnedTwiceNeedsMishap
    BY ReturnExplains DEF LifeInv, LifeTyped
  <1>2. QED
    BY <1>1, LifeInvariant, PTL

(* Nor do they touch the stock: it matches its movements but for stale     *)
(* adjustments, and is oversold by at most one cart line for each further  *)
(* handler in flight, a refund's or a shipment's included.                 *)
THEOREM StockSurvives == FulfilmentSpec => [](StockMatchesLedger /\ OversellBounded)
  <1>1. LifeInv /\ OversellInv => OversellBounded
    BY OversellBound DEF LifeInv, LifeTyped
  <1>2. QED
    BY <1>1, LifeInvariant, PTL
---------------------------------------------------------------------------
(* What is refunded.                                                       *)
Processed(o) == {f \in RefundIds : refund[f].order = o /\ refund[f].processed}
Repaid(o)    == Amount(Processed(o)) >= Subtotal(o)

(* Of an order without a contest, one refund at most is open, and with it  *)
(* no more than the subtotal is refunded.                                  *)
Modest(o) ==
  /\ Refunded(o) <= Subtotal(o)
  /\ \A f \in RefundsOf(o, "PENDING") : /\ RefundsOf(o, "PENDING") = {f}
                                        /\ Refunded(o) + refund[f].amount <= Subtotal(o)

(* What a handler has read still holds, or held of the refunds it saw.     *)
Knows(r) ==
  /\ request[r].pc = "settle.write" /\ request[r].status = "REFUNDED" => Repaid(request[r].order)
  /\ request[r].pc = "refund.create" =>
       /\ \A f \in request[r].seen : refund[f] # NoRefund
       /\ Amount(request[r].seen) + request[r].amount <= Subtotal(request[r].order)

RefundInv ==
  /\ \A o \in paid : status[o] # "none"
  /\ \A f \in RefundIds : refund[f].status = "PROCESSED" => refund[f].processed
  /\ \A o \in OrderIds : status[o] = "REFUNDED" => Repaid(o)
  /\ \A o \in OrderIds \ contested : Modest(o)
  /\ \A r \in Requests : Knows(r)

(* Amounts, and that they are numbers.                                     *)
LEMMA AmountIs == ASSUME NEW S PROVE Amount(S) = Total(refund, S)
  BY DEF Amount, Total

LEMMA AmountWillBe == ASSUME NEW S PROVE Amount(S)' = Total(refund', S')
  BY DEF Amount, Total, MapThenSumSet, MapThenFoldSet

LEMMA RowAmounts ==
  ASSUME NEW rows \in Refunds
  PROVE  \A f \in RefundIds : rows[f].amount \in Nat
  <1>1. \A f \in RefundIds : rows[f] \in Refund \cup {NoRefund}
    BY DEF Refunds
  <1>2. NoRefund.amount = 0 /\ RefundAmounts \subseteq Nat
    BY FulfilmentConstants DEF NoRefund
  <1>3. \A row \in Refund : row.amount \in Nat
    BY <1>2 DEF Refund
  <1>4. QED
    BY <1>1, <1>2, <1>3

LEMMA TotalOfRefunds ==
  ASSUME NEW rows \in Refunds, NEW S, S \subseteq RefundIds
  PROVE  IsFiniteSet(S) /\ Total(rows, S) \in Nat
  <1>1. IsFiniteSet(S)
    BY FulfilmentConstants, FS_Subset
  <1>2. QED
    BY <1>1, RowAmounts, TotalNat

LEMMA WorthNat ==
  ASSUME NEW lines \in Lines
  PROVE  SumFunction([v \in Variants |-> Price[v] * lines[v]]) \in Nat
  <1>1. ASSUME NEW v \in Variants PROVE Price[v] * lines[v] \in Nat
    <2>1. Price[v] \in Nat /\ lines[v] \in Nat
      BY FulfilmentConstants, CheckoutConstants DEF Lines
    <2>2. \A a, b \in Nat : a * b \in Nat
      OBVIOUS
    <2>3. QED
      BY <2>1, <2>2
  <1>2. [v \in Variants |-> Price[v] * lines[v]] \in [Variants -> Nat]
    BY <1>1
  <1>3. QED
    BY <1>2, FulfilmentConstants, SumFunctionNat

LEMMA SubtotalNat ==
  ASSUME LifeInv, NEW o \in OrderIds
  PROVE  Subtotal(o) \in Nat
  BY WorthNat DEF Subtotal, LifeInv, LifeTyped, Typed

---------------------------------------------------------------------------
(* A step keeps the rows that are there, but for what is decided of them,  *)
(* and the lines of the orders that are.                                   *)
SteadyRows ==
  \A f \in RefundIds : refund[f] # NoRefund =>
    /\ refund'[f] # NoRefund
    /\ refund'[f].order = refund[f].order /\ refund'[f].amount = refund[f].amount
    /\ refund[f].processed => refund'[f].processed
SteadyOrders == \A o \in OrderIds : status[o] # "none" => status'[o] # "none" /\ items'[o] = items[o]

(* What such a step leaves of subtotals, amounts and knowledge.            *)
LEMMA SubtotalStays ==
  ASSUME SteadyOrders, NEW o \in OrderIds, status[o] # "none"
  PROVE  Subtotal(o)' = Subtotal(o)
  <1>1. [v \in Variants |-> Price[v] * items'[o][v]] = [v \in Variants |-> Price[v] * items[o][v]]
    BY DEF SteadyOrders
  <1>2. QED
    BY <1>1 DEF Subtotal

LEMMA AmountStays ==
  ASSUME SteadyRows, NEW S, S \subseteq RefundIds, \A f \in S : refund[f] # NoRefund
  PROVE  Total(refund', S) = Total(refund, S)
  <1>1. IsFiniteSet(S)
    BY FulfilmentConstants, FS_Subset
  <1>2. QED
    BY <1>1, TotalAgrees DEF SteadyRows

LEMMA AmountGrows ==
  ASSUME LifeInv', NEW S, S \subseteq RefundIds, NEW f \in RefundIds, f \notin S
  PROVE  Total(refund', S \cup {f}) = Total(refund', S) + refund'[f].amount
  <1>1. \A g \in RefundIds : refund'[g].amount \in Nat
    BY RowAmounts DEF LifeInv, LifeTyped
  <1>2. IsFiniteSet(S)
    BY FulfilmentConstants, FS_Subset
  <1>3. QED
    BY <1>1, <1>2, TotalAdd

LEMMA RepaidStays ==
  ASSUME LifeInv, LifeInv', RefundInv, SteadyRows, SteadyOrders, NEW o \in paid, Repaid(o)
  PROVE  Repaid(o)'
  <1>1. o \in OrderIds /\ status[o] # "none"
    BY DEF LifeInv, LifeTyped, RefundInv
  <1>2. refund \in Refunds /\ refund' \in Refunds
    BY DEF LifeInv, LifeTyped
  <1>3. /\ \A f \in Processed(o) : refund[f] # NoRefund
        /\ Processed(o) \subseteq Processed(o)' /\ Processed(o) \subseteq RefundIds /\ Processed(o)' \subseteq RefundIds
    BY DEF Processed, NoRefund, SteadyRows
  <1>4. Total(refund', Processed(o)) = Total(refund, Processed(o))
    BY <1>3, AmountStays
  <1>5. /\ Total(refund', Processed(o)) \in Nat /\ Total(refund', Processed(o)') \in Nat
        /\ Total(refund', Processed(o)) <= Total(refund', Processed(o)')
    <2>1. \A f \in Processed(o)' : refund'[f].amount \in Nat
      BY <1>2, <1>3, RowAmounts
    <2>2. QED
      BY <1>2, <1>3, <2>1, TotalOfRefunds, TotalSubset
  <1>6. Subtotal(o)' = Subtotal(o) /\ Subtotal(o) \in Nat
    BY <1>1, SubtotalStays, SubtotalNat
  <1>7. Total(refund, Processed(o)) >= Subtotal(o)
    BY AmountIs DEF Repaid
  <1>8. Total(refund', Processed(o)') >= Subtotal(o)'
    BY <1>4, <1>5, <1>6, <1>7
  <1>9. QED
    BY <1>8, AmountWillBe DEF Repaid

(* What a handler that creates a refund has seen.                          *)
LEMMA SeenShape ==
  ASSUME NEW q \in AllRequests, q.pc = "refund.create"
  PROVE  q.seen \in SUBSET RefundIds
  BY DEF AllRequests, HeadRequests, Idle, CheckoutRequest, AdjustRequest, OrderRequest,
         RefundRequest, DecideRequest, SettleRequest, ShipRequest, StatusRequest

LEMMA KnowsStays ==
  ASSUME LifeInv, LifeInv', RefundInv, SteadyRows, SteadyOrders,
         NEW r \in Requests, request'[r] = request[r]
  PROVE  Knows(r)'
  <1>0. request[r] \in AllRequests /\ Knows(r)
    BY DEF LifeInv, LifeTyped, Typed, RefundInv
  <1>1. CASE request[r].pc = "settle.write"
    <2>1. PICK o \in paid : o = request[r].order
      BY <1>1 DEF OrderPcs, LifeInv, Warranted
    <2>2. request[r].status = "REFUNDED" => Repaid(o)'
      BY <1>0, <1>1, <2>1, RepaidStays DEF Knows
    <2>3. request'[r].order = o
      BY <2>1
    <2>4. QED
      BY <1>1, <2>2, <2>3 DEF Knows
  <1>2. CASE request[r].pc = "refund.create"
    <2>1. PICK o \in paid : o = request[r].order
      BY <1>2 DEF OrderPcs, LifeInv, Warranted
    <2>2. PICK S \in SUBSET RefundIds : S = request[r].seen
      BY <1>0, <1>2, SeenShape
    <2>3. (\A f \in S : refund[f] # NoRefund) /\ Total(refund, S) + request[r].amount <= Subtotal(o)
      BY <1>0, <1>2, <2>1, <2>2, AmountIs DEF Knows
    <2>4. Total(refund', S) = Total(refund, S)
      BY <2>3, AmountStays
    <2>5. Subtotal(o)' = Subtotal(o)
      BY SubtotalStays DEF LifeInv, LifeTyped, RefundInv
    <2>6. Amount(S)' + request'[r].amount <= Subtotal(o)'
      BY <2>3, <2>4, <2>5, AmountWillBe
    <2>7. \A f \in S : refund'[f] # NoRefund
      BY <2>3 DEF SteadyRows
    <2>8. request'[r].order = o /\ request'[r].seen = S /\ request'[r].pc = "refund.create"
      BY <1>2, <2>1, <2>2
    <2>9. QED
      BY <2>6, <2>7, <2>8 DEF Knows
  <1>3. QED
    BY <1>1, <1>2 DEF Knows

(* Slots that have read nothing of the refunds know nothing of them.       *)
LEMMA KnowsNothing ==
  ASSUME NEW r \in Requests, request'[r].pc \notin {"settle.write", "refund.create"}
  PROVE  Knows(r)'
  BY DEF Knows

(* An order without a refund; one whose refunds stay.                      *)
LEMMA ModestStays ==
  ASSUME LifeInv, LifeInv', RefundInv, SteadyOrders, refund' = refund,
         NEW o \in OrderIds, o \notin contested
  PROVE  Modest(o)'
  <1>1. CASE o \in paid
    <2>1. Modest(o) /\ status[o] # "none"
      BY <1>1 DEF RefundInv
    <2>2. Subtotal(o)' = Subtotal(o)
      BY <2>1, SubtotalStays
    <2>3. /\ RefundsOf(o, "PENDING")' = RefundsOf(o, "PENDING")
          /\ RefundsOf(o, "PROCESSED")' = RefundsOf(o, "PROCESSED")
      BY DEF RefundsOf
    <2>4. Refunded(o)' = Refunded(o)
      BY <2>3, AmountIs, AmountWillBe DEF Refunded
    <2>5. QED
      BY <2>1, <2>2, <2>3, <2>4 DEF Modest
  <1>2. CASE o \notin paid
    <2>1. RefundsOf(o, "PENDING")' = {} /\ RefundsOf(o, "PROCESSED")' = {}
      BY <1>2, RowShape DEF RefundsOf, NoRefund
    <2>2. Refunded(o)' = 0
      BY <2>1, AmountWillBe, TotalEmpty DEF Refunded
    <2>3. Subtotal(o)' \in Nat
      BY WorthNat DEF Subtotal, LifeInv, LifeTyped, Typed
    <2>4. QED
      BY <2>1, <2>2, <2>3 DEF Modest
  <1>3. QED
    BY <1>1, <1>2

(* What has to be shown of a step.                                         *)
LEMMA RefundStepKeeps ==
  ASSUME LifeInv, LifeInv', RefundInv, SteadyRows, SteadyOrders,
         paid' = paid \cup {o \in OrderIds : status'[o] = "PAID"},
         \A f \in RefundIds : refund'[f].status = "PROCESSED" => refund'[f].processed,
         \A o \in OrderIds : status'[o] = "REFUNDED" => status[o] = "REFUNDED" \/ (o \in paid /\ Repaid(o)),
         \A o \in OrderIds \ contested' : Modest(o)',
         \A s \in Requests : request'[s] = request[s] \/ Knows(s)'
  PROVE  RefundInv'
  <1>1. ASSUME NEW o \in paid' PROVE status'[o] # "none"
    BY DEF RefundInv, SteadyOrders, LifeInv, LifeTyped
  <1>2. ASSUME NEW o \in OrderIds, status'[o] = "REFUNDED" PROVE Repaid(o)'
    <2>1. o \in paid /\ Repaid(o)
      BY <1>2 DEF RefundInv, LifeInv, Warranted, NothingForUnpaid
    <2>2. QED
      BY <2>1, RepaidStays
  <1>3. \A s \in Requests : Knows(s)'
    BY KnowsStays
  <1>4. QED
    BY <1>1, <1>2, <1>3 DEF RefundInv

(* Of a step that leaves the refunds alone.                                *)
LEMMA RefundsAlone ==
  ASSUME LifeInv, LifeInv', RefundInv, SteadyOrders, refund' = refund, contested' = contested,
         paid' = paid \cup {o \in OrderIds : status'[o] = "PAID"},
         \A o \in OrderIds : status'[o] = "REFUNDED" => status[o] = "REFUNDED" \/ (o \in paid /\ Repaid(o)),
         \A s \in Requests : request'[s] = request[s] \/ Knows(s)'
  PROVE  RefundInv'
  <1>1. SteadyRows
    BY DEF SteadyRows
  <1>2. \A f \in RefundIds : refund'[f].status = "PROCESSED" => refund'[f].processed
    BY DEF RefundInv
  <1>3. \A o \in OrderIds \ contested' : Modest(o)'
    BY ModestStays
  <1>4. QED
    BY <1>1, <1>2, <1>3, RefundStepKeeps

(* Of a step of slot r that only writes a status, or nothing, and goes on  *)
(* as q.                                                                   *)
LEMMA RefundsRead ==
  ASSUME LifeInv, LifeInv', RefundInv, SameStock, refund' = refund, contested' = contested,
         paid' = paid \cup {o \in OrderIds : status'[o] = "PAID"},
         \/ status' = status
         \/ \E o \in paid, s \in Written : WriteStatus(o, s) /\ (s = "REFUNDED" => Repaid(o)),
         NEW r \in Requests, NEW q, request' = [request EXCEPT ![r] = q],
         q.pc \in {"settle.write", "refund.create"} => Knows(r)'
  PROVE  RefundInv'
  <1>1. SteadyOrders /\ \A o \in OrderIds : status'[o] = "REFUNDED" => status[o] = "REFUNDED" \/ (o \in paid /\ Repaid(o))
    <2>1. items' = items
      BY DEF SameStock
    <2>2. CASE status' = status
      <3>1. SteadyOrders
        BY <2>1, <2>2 DEF SteadyOrders
      <3>2. \A o \in OrderIds : status'[o] = "REFUNDED" => status[o] = "REFUNDED"
        BY <2>2
      <3>3. QED
        BY <3>1, <3>2
    <2>3. CASE \E o \in paid, s \in Written : WriteStatus(o, s) /\ (s = "REFUNDED" => Repaid(o))
      <3>1. PICK o \in paid, s \in Written : WriteStatus(o, s) /\ (s = "REFUNDED" => Repaid(o))
        BY <2>3
      <3>2. status'[o] = s /\ s # "none" /\ \A x \in OrderIds \ {o} : status'[x] = status[x]
        BY <3>1 DEF WriteStatus, Written, LifeInv, LifeTyped, Typed
      <3>3. SteadyOrders
        BY <2>1, <3>2 DEF SteadyOrders
      <3>4. ASSUME NEW x \in OrderIds, status'[x] = "REFUNDED"
            PROVE  status[x] = "REFUNDED" \/ (x \in paid /\ Repaid(x))
        BY <3>1, <3>2, <3>4
      <3>5. QED
        BY <3>3, <3>4
    <2>4. QED
      BY <2>2, <2>3
  <1>2. request'[r] = q /\ \A s \in Requests \ {r} : request'[s] = request[s]
    BY OtherSlots DEF LifeInv, LifeTyped
  <1>3. \A s \in Requests : request'[s] = request[s] \/ Knows(s)'
    BY <1>2, KnowsNothing
  <1>4. QED
    BY <1>1, <1>3, RefundsAlone

---------------------------------------------------------------------------
(* Checkout's steps, and those of shipments.                               *)
LEMMA HeadRefunds ==
  ASSUME LifeInv, LifeInv', RefundInv, Next, UNCHANGED ownVars,
         paid' = paid \cup {o \in OrderIds : status'[o] = "PAID"}
  PROVE  RefundInv'
  <1>1. OwnSlots /\ OwnStatuses
    BY HeadStep
  <1>2. ASSUME NEW o \in OrderIds, status[o] # "none" PROVE items'[o] = items[o]
    <2>1. CASE \E r \in Requests : CheckoutCommit(r)
      <3>1. PICK r \in Requests : CheckoutCommit(r)
        BY <2>1
      <3> DEFINE lines == request[r].lines
      <3>2. PICK id \in Injection(BrandsIn(lines), FreeIds) :
              items' = [x \in OrderIds |-> IF \E b \in BrandsIn(lines) : id[b] = x
                                           THEN BrandLines(lines, CHOOSE b \in BrandsIn(lines) : id[b] = x)
                                           ELSE items[x]]
        BY <3>1 DEF CheckoutCommit
      <3>3. \A b \in BrandsIn(lines) : id[b] # o
        BY <1>2 DEF Injection, FreeIds
      <3>4. QED
        BY <3>2, <3>3
    <2>2. CASE ~\E r \in Requests : CheckoutCommit(r)
      <3>1. items' = items
        BY <2>2 DEF Next, CartStep, ClearCart, SetCartLine, CheckoutStep, CheckoutBegin, CheckoutVerify,
                    AdjustStep, AdjustBegin, AdjustCommit, CancelStep, CancelBegin, PaymentFailedBegin,
                    StartCancelling, RestockOrder, CancelWrite, PaidStep, PaymentSucceededBegin, PaidWrite,
                    Die, orderVars
      <3>2. QED
        BY <3>1
    <2>3. QED
      BY <2>1, <2>2
  <1>3. SteadyOrders
    BY <1>1, <1>2 DEF SteadyOrders, OwnStatuses
  <1>4. \A s \in Requests : request'[s] = request[s] \/ Knows(s)'
    BY <1>1, KnowsNothing DEF OwnSlots, HeadPcs
  <1>5. \A o \in OrderIds : status'[o] = "REFUNDED" => status[o] = "REFUNDED" \/ (o \in paid /\ Repaid(o))
    BY <1>1 DEF OwnStatuses
  <1>6. refund' = refund /\ contested' = contested
    BY DEF ownVars
  <1>7. QED
    BY <1>3, <1>4, <1>5, <1>6, RefundsAlone

LEMMA ShipmentRefunds ==
  ASSUME LifeInv, LifeInv', RefundInv, NEW r \in Requests, ShipmentStep(r),
         paid' = paid \cup {o \in OrderIds : status'[o] = "PAID"}
  PROVE  RefundInv'
  <1>0. request[r] \in AllRequests
    BY DEF LifeInv, LifeTyped, Typed
  <1>1. ASSUME NEW q, q.pc \notin {"settle.write", "refund.create"}, request' = [request EXCEPT ![r] = q],
               SameStock, refund' = refund, contested' = contested, status' = status
        PROVE  RefundInv'
    BY <1>1, RefundsRead
  <1>2. ASSUME NEW s \in {"FULFILLED", "COMPLETED"}, request[r].pc \in OrderPcs,
               WriteStatus(request[r].order, s), Finish(r), SameStock, UNCHANGED ownVars
        PROVE  RefundInv'
    <2>1. request[r].order \in paid /\ s \in Written /\ s # "REFUNDED"
      BY <1>2 DEF LifeInv, Warranted, Written
    <2>2. \E o \in paid, t \in Written : WriteStatus(o, t) /\ (t = "REFUNDED" => Repaid(o))
      BY <1>2, <2>1
    <2>3. /\ request' = [request EXCEPT ![r] = Idle] /\ Idle.pc \notin {"settle.write", "refund.create"}
          /\ refund' = refund /\ contested' = contested
      BY <1>2 DEF Finish, Idle, ownVars
    <2>4. QED
      BY <1>2, <2>2, <2>3, RefundsRead
  <1>3. Finish(r) => request' = [request EXCEPT ![r] = Idle] /\ Idle.pc = "idle"
    BY DEF Finish, Idle
  <1>4. ASSUME NEW u \in Users, NEW o \in OrderIds, ShipBegin(r, u, o)
        PROVE  RefundInv'
    BY <1>1, <1>4 DEF ShipBegin, Start, Reading, ownVars
  <1>5. ASSUME NEW u \in Users, NEW s \in ShipmentIds, NEW st \in ShipmentStatuses,
               UpdateShipment(r, u, s, st)
        PROVE  RefundInv'
    <2>1. CASE st = "DELIVERED"
      BY <1>1, <1>5, <2>1 DEF UpdateShipment, Start
    <2>2. CASE st # "DELIVERED"
      <3>1. request' = [request EXCEPT ![r] = Idle] /\ Idle.pc = "idle"
        BY <1>5, <2>2 DEF UpdateShipment, Idle, LifeInv, LifeTyped, Typed
      <3>2. QED
        BY <1>1, <1>5, <3>1 DEF UpdateShipment
    <2>3. QED
      BY <2>1, <2>2
  <1>6. CASE ShipCreate(r)
    BY <1>1, <1>3, <1>6 DEF ShipCreate
  <1>7. CASE DeliveredCheck(r)
    <2>1. SameStock /\ refund' = refund /\ contested' = contested /\ status' = status
      BY <1>7 DEF DeliveredCheck, Reading, ownVars
    <2>2. CASE Finish(r)
      BY <1>1, <1>3, <2>1, <2>2
    <2>3. CASE Goto(r, "delivered.write")
      <3>1. request[r] \in StatusRequest
        BY <1>0, <1>7, LifeShape DEF DeliveredCheck, At
      <3>2. /\ request' = [request EXCEPT ![r] = [request[r] EXCEPT !.pc = "delivered.write"]]
            /\ [request[r] EXCEPT !.pc = "delivered.write"].pc = "delivered.write"
        BY <2>3, <3>1 DEF Goto, StatusRequest, LifeInv, LifeTyped, Typed
      <3>3. QED
        BY <1>1, <2>1, <3>2
    <2>4. QED
      BY <1>7, <2>2, <2>3 DEF DeliveredCheck
  <1>8. CASE ShipWrite(r)
    BY <1>2, <1>8 DEF ShipWrite, At, OrderPcs
  <1>9. CASE DeliveredWrite(r)
    BY <1>2, <1>9 DEF DeliveredWrite, At, OrderPcs
  <1>10. QED
    BY <1>4, <1>5, <1>6, <1>7, <1>8, <1>9 DEF ShipmentStep

---------------------------------------------------------------------------
(* A refund that is asked for: what was processed by now, and it, are no   *)
(* more than the subtotal.                                                 *)
LEMMA ProcessedRows ==
  ASSUME LifeInv, NEW o \in OrderIds
  PROVE  /\ RefundsOf(o, "PROCESSED") \subseteq RefundIds
         /\ \A f \in RefundsOf(o, "PROCESSED") : refund[f] # NoRefund
         /\ Refunded(o) = Total(refund, RefundsOf(o, "PROCESSED"))
         /\ Refunded(o) \in Nat
  <1>1. /\ RefundsOf(o, "PROCESSED") \subseteq RefundIds
        /\ \A f \in RefundsOf(o, "PROCESSED") : refund[f] # NoRefund
    BY DEF RefundsOf, NoRefund
  <1>2. Refunded(o) = Total(refund, RefundsOf(o, "PROCESSED"))
    BY AmountIs DEF Refunded
  <1>3. QED
    BY <1>1, <1>2, TotalOfRefunds DEF LifeInv, LifeTyped

LEMMA RefundSumKeeps ==
  ASSUME LifeInv, LifeInv', RefundInv, NEW r \in Requests, RefundSum(r),
         paid' = paid \cup {o \in OrderIds : status'[o] = "PAID"}
  PROVE  RefundInv'
  <1>1. SameStock /\ refund' = refund /\ contested' = contested /\ status' = status
    BY DEF RefundSum, Reading, ownVars
  <1>2. CASE Finish(r)
    <2>1. request' = [request EXCEPT ![r] = Idle] /\ Idle.pc = "idle"
      BY <1>2 DEF Finish, Idle
    <2>2. QED
      BY <1>1, <2>1, RefundsRead
  <1>3. CASE ~Finish(r)
    <2>1. PICK o \in OrderIds : o = request[r].order
      BY LifeShape DEF RefundSum, At, LifeInv, LifeTyped, Typed
    <2>2. PICK S \in SUBSET RefundIds : S = RefundsOf(o, "PROCESSED")
      BY ProcessedRows
    <2> DEFINE q == [pc |-> "refund.create", order |-> o, amount |-> request[r].amount, seen |-> S]
    <2>3. Refunded(o) + request[r].amount <= Subtotal(o) /\ request' = [request EXCEPT ![r] = q]
      BY <1>3, <2>1, <2>2 DEF RefundSum, Ask, LifeInv, LifeTyped, Typed
    <2>4. request'[r] = q
      BY <2>3, OtherSlots DEF LifeInv, LifeTyped
    <2>5. Total(refund, S) + request[r].amount <= Subtotal(o)
      BY <2>2, <2>3, ProcessedRows
    <2>6. Subtotal(o)' = Subtotal(o)
      BY <1>1 DEF Subtotal, SameStock
    <2>7. Amount(S)' + request[r].amount <= Subtotal(o)'
      BY <1>1, <2>5, <2>6, AmountWillBe
    <2>8. \A f \in S : refund'[f] # NoRefund
      BY <1>1, <2>2, ProcessedRows
    <2>9. Knows(r)'
      BY <2>4, <2>7, <2>8 DEF Knows
    <2>10. QED
      BY <1>1, <2>3, <2>9, RefundsRead
  <1>4. QED
    BY <1>2, <1>3

(* A decided refund of an order, added up and written.                     *)
LEMMA SettleSumKeeps ==
  ASSUME LifeInv, LifeInv', RefundInv, NEW r \in Requests, SettleSum(r),
         paid' = paid \cup {o \in OrderIds : status'[o] = "PAID"}
  PROVE  RefundInv'
  <1>1. SameStock /\ refund' = refund /\ contested' = contested /\ status' = status
    BY DEF SettleSum, Reading, ownVars
  <1>2. request[r].pc \in RefundPcs /\ request[r].refund \in RefundIds
    BY LifeShape DEF SettleSum, At, RefundPcs, LifeInv, LifeTyped, Typed
  <1>3. refund[request[r].refund].order \in paid
    BY <1>2, RowShape DEF LifeInv, Warranted
  <1>4. PICK o \in OrderIds : o = refund[request[r].refund].order
    BY <1>3 DEF LifeInv, LifeTyped
  <1> DEFINE q == [pc |-> "settle.write", order |-> o, status |-> SettledStatus(o)]
  <1>5. request' = [request EXCEPT ![r] = q]
    BY <1>4 DEF SettleSum
  <1>6. request'[r] = q
    BY <1>5, OtherSlots DEF LifeInv, LifeTyped
  <1>7. ASSUME SettledStatus(o) = "REFUNDED" PROVE Repaid(o)'
    <2>1. Refunded(o) >= Subtotal(o)
      BY <1>7 DEF SettledStatus
    <2>2. /\ RefundsOf(o, "PROCESSED") \subseteq Processed(o) /\ Processed(o) \subseteq RefundIds
          /\ Processed(o)' = Processed(o)
      BY <1>1 DEF RefundsOf, Processed, RefundInv
    <2>3. Total(refund, RefundsOf(o, "PROCESSED")) <= Total(refund, Processed(o))
      <3>1. \A f \in Processed(o) : refund[f].amount \in Nat
        BY <2>2, RowAmounts DEF LifeInv, LifeTyped
      <3>2. IsFiniteSet(Processed(o))
        BY <2>2, TotalOfRefunds DEF LifeInv, LifeTyped
      <3>3. QED
        BY <2>2, <3>1, <3>2, TotalSubset
    <2>4. Total(refund, Processed(o)) \in Nat /\ Subtotal(o) \in Nat
      BY <2>2, TotalOfRefunds, SubtotalNat DEF LifeInv, LifeTyped
    <2>5. Total(refund, Processed(o)) >= Subtotal(o)
      BY <2>1, <2>3, <2>4, ProcessedRows
    <2>6. Subtotal(o)' = Subtotal(o) /\ Amount(Processed(o))' = Total(refund, Processed(o))
      BY <1>1, <2>2, AmountWillBe DEF Subtotal, SameStock
    <2>7. QED
      BY <2>5, <2>6 DEF Repaid
  <1>8. Knows(r)'
    BY <1>6, <1>7 DEF Knows
  <1>9. QED
    BY <1>1, <1>5, <1>8, RefundsRead

LEMMA SettleWriteKeeps ==
  ASSUME LifeInv, LifeInv', RefundInv, NEW r \in Requests, SettleWrite(r),
         paid' = paid \cup {o \in OrderIds : status'[o] = "PAID"}
  PROVE  RefundInv'
  <1>1. /\ SameStock /\ refund' = refund /\ contested' = contested
        /\ WriteStatus(request[r].order, request[r].status)
        /\ request' = [request EXCEPT ![r] = Idle] /\ Idle.pc = "idle"
    BY DEF SettleWrite, ownVars, Finish, Idle
  <1>2. request[r].order \in paid
    BY DEF SettleWrite, At, OrderPcs, LifeInv, Warranted
  <1>3. request[r].status \in Written
    BY LifeShape DEF SettleWrite, At, Written, LifeInv, LifeTyped, Typed
  <1>4. request[r].status = "REFUNDED" => Repaid(request[r].order)
    BY DEF SettleWrite, At, RefundInv, Knows
  <1>5. PICK o \in paid, s \in Written : o = request[r].order /\ s = request[r].status
    BY <1>2, <1>3
  <1>6. WriteStatus(o, s) /\ (s = "REFUNDED" => Repaid(o))
    BY <1>1, <1>4, <1>5
  <1>7. QED
    BY <1>1, <1>6, RefundsRead

---------------------------------------------------------------------------
(* One row changes: f's, which was there or is new.                        *)
LEMMA OneRow ==
  ASSUME LifeInv, LifeInv', RefundInv, SameStock, status' = status, contested \subseteq contested',
         paid' = paid \cup {o \in OrderIds : status'[o] = "PAID"},
         NEW f \in RefundIds, NEW row \in Refund, refund' = [refund EXCEPT ![f] = row],
         \/ refund[f] = NoRefund
         \/ row.order = refund[f].order /\ row.amount = refund[f].amount /\ (refund[f].processed => row.processed),
         row.status = "PROCESSED" => row.processed,
         row.order \notin contested' => Modest(row.order)',
         NEW r \in Requests, NEW q, request' = [request EXCEPT ![r] = q],
         q.pc \notin {"settle.write", "refund.create"}
  PROVE  RefundInv'
  <1>1. refund'[f] = row /\ \A g \in RefundIds \ {f} : refund'[g] = refund[g]
    BY DEF LifeInv, LifeTyped, Refunds
  <1>2. SteadyRows
    <2>1. row # NoRefund
      BY DEF Refund, NoRefund
    <2>2. QED
      BY <1>1, <2>1 DEF SteadyRows
  <1>3. SteadyOrders
    BY DEF SteadyOrders, SameStock
  <1>4. \A g \in RefundIds : refund'[g].status = "PROCESSED" => refund'[g].processed
    BY <1>1 DEF RefundInv
  <1>5. ASSUME NEW o \in OrderIds, o \notin contested', o # row.order
        PROVE  Modest(o)'
    <2>1. Modest(o)
      BY <1>5 DEF RefundInv
    <2>2. /\ RefundsOf(o, "PENDING")' = RefundsOf(o, "PENDING") /\ f \notin RefundsOf(o, "PENDING")
          /\ RefundsOf(o, "PROCESSED")' = RefundsOf(o, "PROCESSED")
      BY <1>1, <1>5 DEF RefundsOf, NoRefund
    <2>3. Total(refund', RefundsOf(o, "PROCESSED")) = Total(refund, RefundsOf(o, "PROCESSED"))
      BY <1>2, ProcessedRows, AmountStays
    <2>4. Refunded(o)' = Refunded(o)
      BY <2>2, <2>3, ProcessedRows, AmountWillBe DEF Refunded
    <2>5. Subtotal(o)' = Subtotal(o)
      BY DEF Subtotal, SameStock
    <2>6. \A g \in RefundsOf(o, "PENDING") : refund'[g] = refund[g]
      BY <1>1, <2>2 DEF RefundsOf
    <2>7. QED
      BY <2>1, <2>2, <2>4, <2>5, <2>6 DEF Modest
  <1>6. \A o \in OrderIds \ contested' : Modest(o)'
    BY <1>5
  <1>7. request'[r] = q /\ \A s \in Requests \ {r} : request'[s] = request[s]
    BY OtherSlots DEF LifeInv, LifeTyped
  <1>8. \A s \in Requests : request'[s] = request[s] \/ Knows(s)'
    BY <1>7, KnowsNothing
  <1>9. QED
    BY <1>2, <1>3, <1>4, <1>6, <1>8, RefundStepKeeps

(* A refund is created as its handler found it to be in order, unless one  *)
(* is open by now or has been processed since.                             *)
LEMMA RefundCreateKeeps ==
  ASSUME LifeInv, LifeInv', RefundInv, NEW r \in Requests, RefundCreate(r),
         paid' = paid \cup {o \in OrderIds : status'[o] = "PAID"}
  PROVE  RefundInv'
  <1>1. request[r] \in AllRequests /\ request[r].pc = "refund.create"
    BY DEF RefundCreate, At, LifeInv, LifeTyped, Typed
  <1>2. PICK o \in OrderIds : o = request[r].order
    BY <1>1, LifeShape
  <1>3. PICK a \in RefundAmounts : a = request[r].amount
    BY <1>1, LifeShape
  <1>4. PICK S \in SUBSET RefundIds : S = request[r].seen
    BY <1>1, SeenShape
  <1> DEFINE row == [order |-> o, amount |-> a, status |-> "PENDING", processed |-> FALSE]
  <1>5. PICK f \in RefundIds : refund[f] = NoRefund /\ refund' = [refund EXCEPT ![f] = row]
    BY <1>2, <1>3 DEF RefundCreate
  <1>6. row \in Refund /\ row.order = o /\ row.status = "PENDING" /\ row.amount = a
    BY DEF Refund
  <1> HIDE DEF row
  <1>7. refund'[f] = row /\ \A g \in RefundIds \ {f} : refund'[g] = refund[g]
    BY <1>5 DEF LifeInv, LifeTyped, Refunds
  <1>8. ASSUME o \notin contested' PROVE Modest(o)'
    <2>1. RefundsOf(o, "PENDING") = {} /\ RefundsOf(o, "PROCESSED") = S
      BY <1>2, <1>4, <1>8 DEF RefundCreate, Contest
    <2>2. RefundsOf(o, "PENDING")' = {f} /\ RefundsOf(o, "PROCESSED")' = S
      BY <1>5, <1>6, <1>7, <2>1 DEF RefundsOf, NoRefund
    <2>3. Total(refund, S) + a <= Subtotal(o) /\ f \notin S
      BY <1>1, <1>2, <1>3, <1>4, <1>5, AmountIs DEF RefundInv, Knows
    <2>4. IsFiniteSet(S) /\ Total(refund, S) \in Nat
      BY TotalOfRefunds DEF LifeInv, LifeTyped
    <2>5. Total(refund', S) = Total(refund, S)
      BY <1>7, <2>3, <2>4, TotalAgrees
    <2>6. Refunded(o)' = Total(refund, S)
      BY <2>2, <2>5, AmountWillBe DEF Refunded
    <2>7. Subtotal(o)' = Subtotal(o) /\ Subtotal(o) \in Nat
      BY SubtotalNat DEF RefundCreate, Subtotal, SameStock
    <2>8. a \in Nat
      BY FulfilmentConstants
    <2>9. Total(refund, S) <= Subtotal(o)
      BY <2>3, <2>4, <2>7, <2>8
    <2>10. QED
      BY <1>6, <1>7, <2>2, <2>3, <2>6, <2>7, <2>9 DEF Modest
  <1>9. /\ SameStock /\ status' = status /\ contested \subseteq contested'
        /\ request' = [request EXCEPT ![r] = Idle] /\ Idle.pc = "idle"
    BY DEF RefundCreate, Contest, Finish, Idle
  <1>10. QED
    BY <1>5, <1>6, <1>8, <1>9, OneRow

(* A refund is decided: the only open one of its order, if there was no    *)
(* contest.                                                                *)
LEMMA DecisionKeeps ==
  ASSUME LifeInv, LifeInv', RefundInv, NEW r \in Requests, request[r].pc \in RefundPcs,
         NEW f, f = request[r].refund, NEW row \in Refund, refund' = [refund EXCEPT ![f] = row],
         row.order = refund[f].order, row.amount = refund[f].amount, row.status \in {"PROCESSED", "REJECTED"},
         row.status = "PROCESSED" \/ refund[f].processed => row.processed,
         Contest(refund[f].order, refund[f].status # "PENDING"),
         SameStock, UNCHANGED <<status, history, shipment>>,
         NEW q, request' = [request EXCEPT ![r] = q], q.pc \notin {"settle.write", "refund.create"},
         paid' = paid \cup {o \in OrderIds : status'[o] = "PAID"}
  PROVE  RefundInv'
  <1>1. f \in RefundIds /\ refund[f] # NoRefund
    BY LifeShape DEF LifeInv, LifeTyped, Typed, Warranted
  <1>2. refund[f] \in Refund
    BY <1>1, RowShape
  <1>3. PICK o \in OrderIds : o = refund[f].order
    BY <1>2 DEF Refund
  <1>6. refund'[f] = row /\ \A g \in RefundIds \ {f} : refund'[g] = refund[g]
    BY <1>1 DEF LifeInv, LifeTyped, Refunds
  <1>7. ASSUME o \notin contested' PROVE Modest(o)'
    <2>1. refund[f].status = "PENDING" /\ o \notin contested
      BY <1>3, <1>7 DEF Contest
    <2>0. PICK P \in SUBSET RefundIds : P = RefundsOf(o, "PROCESSED")
      BY ProcessedRows
    <2>2. f \in RefundsOf(o, "PENDING") /\ f \notin P
      BY <1>1, <1>3, <2>0, <2>1 DEF RefundsOf
    <2>3. /\ RefundsOf(o, "PENDING") = {f} /\ Refunded(o) <= Subtotal(o)
          /\ Refunded(o) + refund[f].amount <= Subtotal(o)
      BY <2>1, <2>2 DEF RefundInv, Modest
    <2>4. RefundsOf(o, "PENDING")' = {}
      BY <1>6, <2>3 DEF RefundsOf
    <2>5. RefundsOf(o, "PROCESSED")' = IF row.status = "PROCESSED" THEN P \cup {f} ELSE P
      BY <1>1, <1>3, <1>6, <2>0, <2>1 DEF RefundsOf
    <2>6. Refunded(o) = Total(refund, P) /\ Refunded(o) \in Nat /\ IsFiniteSet(P)
      BY <2>0, ProcessedRows, TotalOfRefunds DEF LifeInv, LifeTyped
    <2>7. Total(refund', P) = Total(refund, P)
      <3>1. \A g \in P : refund[g] # NoRefund
        BY <2>0, ProcessedRows
      <3>2. SteadyRows
        BY <1>6, RowShape DEF SteadyRows, Refund, NoRefund
      <3>3. QED
        BY <3>1, <3>2, AmountStays
    <2>8. Total(refund', P \cup {f}) = Total(refund', P) + refund[f].amount
      <3>1. refund'[f].amount = refund[f].amount
        BY <1>6
      <3>2. Total(refund', P \cup {f}) = Total(refund', P) + refund'[f].amount
        BY <1>1, <2>2, AmountGrows
      <3>3. QED
        BY <3>1, <3>2
    <2>9. Refunded(o)' = Total(refund', RefundsOf(o, "PROCESSED")')
      BY AmountWillBe DEF Refunded
    <2>10. Refunded(o)' <= Subtotal(o)
      BY <2>3, <2>5, <2>6, <2>7, <2>8, <2>9
    <2>11. Subtotal(o)' = Subtotal(o)
      BY DEF Subtotal, SameStock
    <2>12. QED
      BY <2>4, <2>10, <2>11 DEF Modest
  <1>8. status' = status /\ contested \subseteq contested'
    BY DEF Contest
  <1>9. QED
    BY <1>1, <1>3, <1>7, <1>8, OneRow

(* Every refund step.                                                      *)
LEMMA RefundKeeps ==
  ASSUME LifeInv, LifeInv', RefundInv, NEW r \in Requests, RefundStep(r),
         paid' = paid \cup {o \in OrderIds : status'[o] = "PAID"}
  PROVE  RefundInv'
  <1>1. ASSUME NEW q, q.pc \notin {"settle.write", "refund.create"}, Start(r, q), Reading
        PROVE  RefundInv'
    BY <1>1, RefundsRead DEF Start, Reading, ownVars
  <1>2. ASSUME NEW u \in Users, NEW o \in OrderIds, NEW a \in RefundAmounts, RefundBegin(r, u, o, a)
        PROVE  RefundInv'
    BY <1>1, <1>2 DEF RefundBegin
  <1>3. ASSUME NEW f \in RefundIds, RefundProcessedBegin(r, f)
        PROVE  RefundInv'
    BY <1>1, <1>3 DEF RefundProcessedBegin
  <1>4. ASSUME NEW f \in RefundIds, NEW u \in Users, ApproveBegin(r, u, f) \/ RejectBegin(r, u, f)
        PROVE  RefundInv'
    BY <1>1, <1>4 DEF ApproveBegin, RejectBegin
  <1> DEFINE f == request[r].refund
  <1>5. ASSUME request[r].pc \in RefundPcs
        PROVE  request[r] \in DecideRequest /\ f \in RefundIds /\ refund[f] \in Refund /\ refund \in Refunds
    <2>1. request[r] \in DecideRequest /\ f \in RefundIds
      BY <1>5, LifeShape DEF LifeInv, LifeTyped, Typed
    <2>2. refund[f] \in Refund
      BY <1>5, <2>1, RowShape DEF LifeInv, Warranted
    <2>3. QED
      BY <2>1, <2>2 DEF LifeInv, LifeTyped
  <1>6. CASE SettleMark(r)
    <2>1. request[r].pc \in RefundPcs
      BY <1>6 DEF SettleMark, At, RefundPcs
    <2> DEFINE q   == [request[r] EXCEPT !.pc = "settle.sum"]
               row == [refund[f] EXCEPT !.status = "PROCESSED", !.processed = TRUE]
    <2>2. request' = [request EXCEPT ![r] = q] /\ q.pc = "settle.sum"
      BY <1>5, <1>6, <2>1 DEF SettleMark, Goto, DecideRequest, LifeInv, LifeTyped, Typed
    <2>3. row \in Refund /\ row.order = refund[f].order /\ row.amount = refund[f].amount
          /\ row.status = "PROCESSED" /\ row.processed
      BY <1>5, <2>1 DEF Refund
    <2>4. refund' = [refund EXCEPT ![f] = row]
      BY <1>5, <1>6, <2>1 DEF SettleMark, Refunds
    <2>5. /\ Contest(refund[f].order, refund[f].status # "PENDING")
          /\ SameStock /\ UNCHANGED <<status, history, shipment>>
      BY <1>6 DEF SettleMark
    <2> HIDE DEF f, q, row
    <2>6. QED
      BY <2>1, <2>2, <2>3, <2>4, <2>5, DecisionKeeps DEF f
  <1>7. CASE RejectWrite(r)
    <2>1. request[r].pc \in RefundPcs
      BY <1>7 DEF RejectWrite, At, RefundPcs
    <2> DEFINE row == [refund[f] EXCEPT !.status = "REJECTED"]
    <2>2. request' = [request EXCEPT ![r] = Idle] /\ Idle.pc = "idle"
      BY <1>7 DEF RejectWrite, Finish, Idle
    <2>3. row \in Refund /\ row.order = refund[f].order /\ row.amount = refund[f].amount
          /\ row.status = "REJECTED" /\ row.processed = refund[f].processed
      BY <1>5, <2>1 DEF Refund
    <2>4. refund' = [refund EXCEPT ![f] = row]
      BY <1>5, <1>7, <2>1 DEF RejectWrite, Refunds
    <2>5. /\ Contest(refund[f].order, refund[f].status # "PENDING")
          /\ SameStock /\ UNCHANGED <<status, history, shipment>>
      BY <1>7 DEF RejectWrite
    <2> HIDE DEF f, row
    <2>6. QED
      BY <2>1, <2>2, <2>3, <2>4, <2>5, DecisionKeeps DEF f
  <1>8. QED
    BY <1>2, <1>3, <1>4, <1>6, <1>7, RefundSumKeeps, RefundCreateKeeps, SettleSumKeeps, SettleWriteKeeps DEF RefundStep

LEMMA RefundInit == FulfilmentInit => RefundInv
  <1> SUFFICES ASSUME FulfilmentInit PROVE RefundInv
    OBVIOUS
  <1>1. LifeInv
    BY LifeInit
  <1>2. /\ \A r \in Requests : request[r].pc = "idle"
        /\ \A o \in OrderIds : status[o] = "none" /\ RefundsOf(o, "PENDING") = {} /\ RefundsOf(o, "PROCESSED") = {}
        /\ \A f \in RefundIds : refund[f].status = "none"
        /\ paid = {}
    BY DEF FulfilmentInit, Init, Idle, RefundsOf, NoRefund
  <1>3. ASSUME NEW o \in OrderIds PROVE Modest(o)
    <2>1. Refunded(o) = 0
      BY <1>2, AmountIs, TotalEmpty DEF Refunded
    <2>2. QED
      BY <1>1, <1>2, <2>1, SubtotalNat DEF Modest
  <1>4. QED
    BY <1>2, <1>3 DEF RefundInv, Knows

LEMMA RefundInvariant == FulfilmentSpec => []RefundInv
  <1>1. LifeInv /\ LifeInv' /\ RefundInv /\ [FulfilmentNext]_allVars => RefundInv'
    <2> SUFFICES ASSUME LifeInv, LifeInv', RefundInv, [FulfilmentNext]_allVars PROVE RefundInv'
      OBVIOUS
    <2>1. CASE UNCHANGED allVars
      <3>1. /\ SteadyOrders /\ refund' = refund /\ contested' = contested
            /\ paid' = paid \cup {o \in OrderIds : status'[o] = "PAID"}
            /\ \A o \in OrderIds : status'[o] = status[o]
            /\ \A s \in Requests : request'[s] = request[s]
        BY <2>1 DEF allVars, vars, ownVars, orderVars, SteadyOrders, LifeInv, Warranted
      <3>2. QED
        BY <3>1, RefundsAlone
    <2>2. CASE FulfilmentNext
      BY <2>2, HeadRefunds, ShipmentRefunds, RefundKeeps DEF FulfilmentNext
    <2>3. QED
      BY <2>1, <2>2
  <1>2. QED
    BY <1>1, RefundInit, LifeInvariant, PTL DEF FulfilmentSpec

(* RefundsService: an order is REFUNDED only when what was ever processed  *)
(* for it reaches its subtotal, and refunds exceed it only when two were   *)
(* open at once or one was decided twice, at any interleaving with the     *)
(* handlers that write the same order.                                     *)
THEOREM RefundsAlwaysExplained == FulfilmentSpec => []RefundsExplained
  <1>1. LifeInv /\ RefundInv => RefundsExplained
    <2> SUFFICES ASSUME LifeInv, RefundInv PROVE RefundsExplained
      OBVIOUS
    <2>1. RefundedIsCovered
      BY DEF RefundInv, RefundedIsCovered, Repaid, Processed
    <2>2. ASSUME NEW o \in OrderIds, Refunded(o) > Subtotal(o), o \notin contested PROVE FALSE
      <3>1. Refunded(o) \in Nat /\ Subtotal(o) \in Nat /\ Refunded(o) <= Subtotal(o)
        BY <2>2, ProcessedRows, SubtotalNat DEF RefundInv, Modest
      <3>2. QED
        BY <2>2, <3>1
    <2>3. QED
      BY <2>1, <2>2 DEF RefundsExplained, OverRefundNeedsContest
  <1>2. QED
    BY <1>1, RefundInvariant, LifeInvariant, PTL
=============================================================================
