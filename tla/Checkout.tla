------------------------------ MODULE Checkout ------------------------------
(***************************************************************************)
(* Cart, stock and the head of an order's life: checkout, cancellation,    *)
(* the payment_succeeded / payment_failed webhooks and the seller's stock  *)
(* adjustment (src/orders/services, src/products/services/stock.service).  *)
(*                                                                         *)
(* A handler runs in one of the Requests slots and advances by one step    *)
(* per awaited database call whose result it uses later; other handlers    *)
(* run in between.  One statement, or one array passed to $transaction,    *)
(* is one step.  An interactive $transaction runs at READ COMMITTED: its   *)
(* reads see what others have committed, its writes appear together at     *)
(* commit.  A request that fails its checks changes nothing, so it is not  *)
(* started.  Die ends a handler between two steps: an exception from the   *)
(* database, a lost connection or the death of the process.                *)
(***************************************************************************)
EXTENDS Integers, FiniteSets, Functions

CONSTANTS
  Users, Admins,      \* accounts, and those with the ADMIN role
  Buyers,             \* the users who shop
  Variants, Brands,
  BrandOf, OwnerOf,   \* variant -> brand, brand -> its owner
  OrderIds,           \* rows the orders table may come to hold
  Requests,           \* handlers in flight at the same time
  InitialStock,       \* variant -> stockQuantity at the start
  Adjustments,        \* quantities a seller passes to StockService.adjust
  MaxQuantity,        \* bound on a cart line
  MaxStock,           \* bound on stock and ledger an adjustment may reach
  MaxReturns,         \* bound on the times one order is restocked
  NoOne

ASSUME CheckoutConstants ==
  /\ Admins \subseteq Users /\ Buyers \subseteq Users /\ NoOne \notin Users
  /\ BrandOf \in [Variants -> Brands] /\ OwnerOf \in [Brands -> Users]
  /\ InitialStock \in [Variants -> Nat]
  /\ Adjustments \subseteq Int
  /\ MaxQuantity \in Nat /\ MaxStock \in Nat /\ MaxReturns \in Nat
  /\ IsFiniteSet(Requests) /\ Requests # {}

VARIABLES
  cart,        \* [Buyers -> Lines], 0 where the cart holds no row
  stock,       \* product_variants.stockQuantity
  ledger,      \* initial stock plus the sum of the stock_movements rows
  status, items, buyer,   \* columns of orders and order_items
  request,     \* the handler in each slot
  returned,    \* history: how often an order's goods went back to stock
  drifted,     \* history: variants an adjustment overwrote with a stale value
  doubtful     \* history: orders with two cancellations in flight at once, with
               \* one that died after its restock, or CANCELLED and overwritten

orderVars == <<status, items, buyer>>
history   == <<returned, drifted, doubtful>>
vars      == <<cart, stock, ledger, orderVars, request, history>>

Lines    == [Variants -> 0..MaxQuantity]
NoLines  == [v \in Variants |-> 0]
Statuses == {"PENDING_PAYMENT", "PAID", "FULFILLED", "COMPLETED",
             "CANCELLED", "REFUNDED", "PARTIALLY_REFUNDED"}
\* Mutant: a CANCELLED order may be cancelled again.
NonCancellableFinal == {"COMPLETED", "REFUNDED"}
NonCancellable == {"CANCELLED", "COMPLETED", "REFUNDED"}

Idle == [pc |-> "idle"]
CheckoutRequest == [pc: {"checkout.verify", "checkout.commit"},
                    user: Buyers, lines: Lines]
AdjustRequest   == [pc: {"adjust.commit"}, variant: Variants,
                    delta: Adjustments, newStock: Nat]
OrderRequest    == [pc: {"cancel.restock", "cancel.write", "paid.write"},
                    order: OrderIds]
HeadRequests    == {Idle} \cup CheckoutRequest \cup AdjustRequest \cup OrderRequest

TypeOK ==
  /\ cart \in [Buyers -> Lines]
  /\ stock \in [Variants -> Int] /\ ledger \in [Variants -> Int]
  /\ status \in [OrderIds -> Statuses \cup {"none"}]
  /\ items \in [OrderIds -> Lines]
  /\ buyer \in [OrderIds -> Buyers \cup {NoOne}]
  /\ request \in [Requests -> HeadRequests]
  /\ returned \in [OrderIds -> Nat] /\ drifted \subseteq Variants
  /\ doubtful \subseteq OrderIds

Init ==
  /\ cart = [u \in Buyers |-> NoLines]
  /\ stock = InitialStock /\ ledger = InitialStock
  /\ status = [o \in OrderIds |-> "none"]
  /\ items = [o \in OrderIds |-> NoLines]
  /\ buyer = [o \in OrderIds |-> NoOne]
  /\ request = [r \in Requests |-> Idle]
  /\ returned = [o \in OrderIds |-> 0]
  /\ drifted = {} /\ doubtful = {}

---------------------------------------------------------------------------
(* Slots, access checks and the one way a status is written.               *)

Start(r, req) == request[r] = Idle /\ request' = [request EXCEPT ![r] = req]
At(r, pc)     == request[r].pc = pc
Goto(r, pc)   == request' = [request EXCEPT ![r].pc = pc]
Finish(r)     == request' = [request EXCEPT ![r] = Idle]

OwnsBrandOf(u, o)  == \E v \in Variants : items[o][v] > 0 /\ OwnerOf[BrandOf[v]] = u
BrandSide(u, o)    == u \in Admins \/ OwnsBrandOf(u, o)
Participant(u, o)  == u = buyer[o] \/ BrandSide(u, o)

Doubt(o, c) == doubtful' = IF c THEN doubtful \cup {o} ELSE doubtful

WriteStatus(o, s) ==
  /\ status' = [status EXCEPT ![o] = s]
  /\ Doubt(o, status[o] = "CANCELLED" /\ s # "CANCELLED")
  /\ UNCHANGED <<returned, drifted>>

---------------------------------------------------------------------------
(* CartService: addItem, updateItem, removeItem and clear set one line, or *)
(* all of them, of the buyer's own cart; addItem's sum is any quantity.    *)

FreeIds == {o \in OrderIds : status[o] = "none"}

\* Mutant: updateItem adds to the quantity of the line, as addItem does.
SetCartLineAdds(u, v, q) ==
  /\ FreeIds # {}
  /\ cart' = [cart EXCEPT ![u][v] = @ + q]
  /\ UNCHANGED <<stock, ledger, orderVars, request, history>>

SetCartLine(u, v, q) ==
  /\ FreeIds # {}                                                        \* bound
  /\ cart' = [cart EXCEPT ![u][v] = q]
  /\ UNCHANGED <<stock, ledger, orderVars, request, history>>

ClearCart(u) ==
  /\ cart' = [cart EXCEPT ![u] = NoLines]
  /\ UNCHANGED <<stock, ledger, orderVars, request, history>>

---------------------------------------------------------------------------
(* CheckoutService.checkout                                                *)

\* Mutant: the stock is not looked at.
CoversAlways(lines) == TRUE
Covers(lines) == \A v \in Variants : lines[v] > 0 => stock[v] >= lines[v]

CheckoutBegin(r, u) ==
  /\ cart[u] # NoLines
  /\ Covers(cart[u])
  /\ Start(r, [pc |-> "checkout.verify", user |-> u, lines |-> cart[u]])
  /\ UNCHANGED <<cart, stock, ledger, orderVars, history>>

\* Inside the transaction the stock is read again, here of all the lines at
\* once; too little rolls back.
CheckoutVerify(r) ==
  /\ At(r, "checkout.verify")
  /\ IF Covers(request[r].lines) THEN Goto(r, "checkout.commit") ELSE Finish(r)
  /\ UNCHANGED <<cart, stock, ledger, orderVars, history>>

BrandLines(lines, b) == [v \in Variants |-> IF BrandOf[v] = b THEN lines[v] ELSE 0]
BrandsIn(lines)      == {BrandOf[v] : v \in {w \in Variants : lines[w] > 0}}

\* One order per brand; the whole cart is emptied, whatever it holds by now.
CheckoutCommit(r) ==
  LET lines == request[r].lines
      u     == request[r].user IN
  /\ At(r, "checkout.commit")
  /\ \E id \in Injection(BrandsIn(lines), FreeIds) :
       LET new(o) == \E b \in BrandsIn(lines) : id[b] = o
           brand(o) == CHOOSE b \in BrandsIn(lines) : id[b] = o IN
       /\ status' = [o \in OrderIds |-> IF new(o) THEN "PENDING_PAYMENT" ELSE status[o]]
       /\ items' = [o \in OrderIds |-> IF new(o) THEN BrandLines(lines, brand(o)) ELSE items[o]]
       /\ buyer' = [o \in OrderIds |-> IF new(o) THEN u ELSE buyer[o]]
  /\ stock' = [v \in Variants |-> stock[v] - lines[v]]
  /\ ledger' = [v \in Variants |-> ledger[v] - lines[v]]
  /\ cart' = [cart EXCEPT ![u] = NoLines]
  /\ Finish(r)
  /\ UNCHANGED history

---------------------------------------------------------------------------
(* StockService.adjust: the new stock is computed from a value read before *)
(* the transaction that writes it.                                         *)

MayAdjust(u, v) == u \in Admins \/ OwnerOf[BrandOf[v]] = u

AdjustBegin(r, u, v, d) ==
  /\ MayAdjust(u, v)
  /\ stock[v] + d >= 0
  /\ stock[v] + d <= MaxStock /\ ledger[v] + d \in -MaxStock..MaxStock   \* bound
  /\ Start(r, [pc |-> "adjust.commit", variant |-> v, delta |-> d, newStock |-> stock[v] + d])
  /\ UNCHANGED <<cart, stock, ledger, orderVars, history>>

AdjustCommit(r) ==
  LET v == request[r].variant
      d == request[r].delta IN
  /\ At(r, "adjust.commit")
  /\ stock' = [stock EXCEPT ![v] = request[r].newStock]
  /\ ledger' = [ledger EXCEPT ![v] = @ + d]
  /\ drifted' = IF request[r].newStock = stock[v] + d THEN drifted ELSE drifted \cup {v}
  /\ Finish(r)
  /\ UNCHANGED <<cart, orderVars, returned, doubtful>>

---------------------------------------------------------------------------
(* OrdersService.cancel and the payment webhooks.  cancel and              *)
(* handlePaymentFailed share their tail: restockOrder, then the status.    *)

Cancelling(r, o) == request[r].pc \in {"cancel.restock", "cancel.write"} /\ request[r].order = o

StartCancelling(r, o) ==
  /\ returned[o] < MaxReturns                                            \* bound
  /\ Start(r, [pc |-> "cancel.restock", order |-> o])
  /\ Doubt(o, \E s \in Requests : Cancelling(s, o))
  /\ UNCHANGED <<cart, stock, ledger, orderVars, returned, drifted>>

\* Mutant: the status is written without returning the goods.
CancelBeginNoRestock(r, u, o) ==
  /\ status[o] \notin NonCancellable \cup {"none"}
  /\ Participant(u, o)
  /\ Start(r, [pc |-> "cancel.write", order |-> o])
  /\ UNCHANGED <<cart, stock, ledger, orderVars, history>>

CancelBegin(r, u, o) ==
  /\ status[o] \notin NonCancellable \cup {"none"}
  /\ Participant(u, o)
  /\ StartCancelling(r, o)

PaymentFailedBegin(r, o) ==
  /\ status[o] = "PENDING_PAYMENT"
  /\ StartCancelling(r, o)

\* Mutant: no RETURN movement is recorded.
RestockOrderSilent(r) ==
  LET o == request[r].order IN
  /\ At(r, "cancel.restock")
  /\ stock' = [v \in Variants |-> stock[v] + items[o][v]]
  /\ returned' = [returned EXCEPT ![o] = @ + 1]
  /\ Goto(r, "cancel.write")
  /\ UNCHANGED <<cart, ledger, orderVars, drifted, doubtful>>

RestockOrder(r) ==
  LET o == request[r].order IN
  /\ At(r, "cancel.restock")
  /\ stock' = [v \in Variants |-> stock[v] + items[o][v]]
  /\ ledger' = [v \in Variants |-> ledger[v] + items[o][v]]
  /\ returned' = [returned EXCEPT ![o] = @ + 1]
  /\ Goto(r, "cancel.write")
  /\ UNCHANGED <<cart, orderVars, drifted, doubtful>>

CancelWrite(r) ==
  /\ At(r, "cancel.write")
  /\ WriteStatus(request[r].order, "CANCELLED")
  /\ Finish(r)
  /\ UNCHANGED <<cart, stock, ledger, items, buyer>>

PaymentSucceededBegin(r, o) ==
  /\ status[o] = "PENDING_PAYMENT"
  /\ Start(r, [pc |-> "paid.write", order |-> o])
  /\ UNCHANGED <<cart, stock, ledger, orderVars, history>>

PaidWrite(r) ==
  /\ At(r, "paid.write")
  /\ WriteStatus(request[r].order, "PAID")
  /\ Finish(r)
  /\ UNCHANGED <<cart, stock, ledger, items, buyer>>

---------------------------------------------------------------------------
Die(r) ==
  /\ request[r] # Idle
  /\ doubtful' = IF At(r, "cancel.write") THEN doubtful \cup {request[r].order} ELSE doubtful
  /\ Finish(r)
  /\ UNCHANGED <<cart, stock, ledger, orderVars, returned, drifted>>

CartStep    == \E u \in Buyers : ClearCart(u) \/ \E v \in Variants, q \in 0..MaxQuantity : SetCartLine(u, v, q)
CheckoutStep(r) == CheckoutVerify(r) \/ CheckoutCommit(r) \/ \E u \in Buyers : CheckoutBegin(r, u)
AdjustStep(r)   == AdjustCommit(r)
                   \/ \E u \in Users, v \in Variants, d \in Adjustments : AdjustBegin(r, u, v, d)
CancelStep(r)   == RestockOrder(r) \/ CancelWrite(r)
                   \/ \E o \in OrderIds : PaymentFailedBegin(r, o)
                                          \/ \E u \in Users : CancelBegin(r, u, o)
PaidStep(r)     == PaidWrite(r) \/ \E o \in OrderIds : PaymentSucceededBegin(r, o)

Next == CartStep \/ \E r \in Requests : CheckoutStep(r) \/ AdjustStep(r) \/ CancelStep(r)
                                        \/ PaidStep(r) \/ Die(r)

Spec == Init /\ [][Next]_vars

---------------------------------------------------------------------------
(* StockService's ledger claim: the stock of a variant is what its         *)
(* movements add up to, through checkouts, returns and crashes, unless an  *)
(* adjustment wrote a stock computed from a value someone else has since   *)
(* changed.                                                                *)
StockMatchesLedger == \A v \in Variants : stock[v] = ledger[v] \/ v \in drifted

(* Overselling is bounded by the overlap: with one handler at a time the   *)
(* stock is never negative, and each further handler in flight can take at *)
(* most one cart line more than there is (checkout re-reads the stock in   *)
(* its transaction, then decrements without a condition).                  *)
OversellBounded ==
  \A v \in Variants : stock[v] >= -((Cardinality(Requests) - 1) * MaxQuantity)

(* restockOrder precedes the status write: an order is never CANCELLED     *)
(* without its goods having gone back.                                     *)
CancelledIsReturned == \A o \in OrderIds : status[o] = "CANCELLED" => returned[o] > 0

(* An order's goods go back to stock more than once only if two            *)
(* cancellations of it (or a cancellation and a failed payment) overlapped,*)
(* one died after its restock, or a later status write had revived the     *)
(* cancelled order; cancelled once and for all, it is not restocked again. *)
ReturnedTwiceNeedsMishap == \A o \in OrderIds : returned[o] > 1 => o \in doubtful
=============================================================================
