# A TLA+ verification of collabos-backend

collabos-backend is a NestJS application: stateless HTTP handlers, Stripe
webhooks, WebSocket gateways and BullMQ workers over one PostgreSQL database
(through Prisma) and Redis.  Several processes run the same code.  Almost every
handler reads rows, awaits, checks, and then writes with an unconditional
`update`; very few of these read-check-write sequences are inside one
transaction, and none takes a row lock or runs above READ COMMITTED.  What the
program promises therefore depends on what other handlers do between two awaits,
and on what is left behind when a handler dies between two writes.  That is what
these modules model; they leave prices, texts, addresses, logging and response
shapes out.

## The system

| Component | State | Operations | What is hard | What makes it correct |
|---|---|---|---|---|
| cart, checkout, stock | cart items, `stockQuantity`, stock movements | cart edits, `checkout`, `adjust`, `restockOrder` | stock checked, then decremented without a condition; absolute write of a computed stock | stock follows the ledger, oversell bounded |
| orders | `status`, items | `cancel`, order webhooks | every status write is a blind update after a read | goods go back once, no cancelled order without return |
| refunds, shipments | refund and shipment rows | request, approve, reject, ship, track | sums and statuses computed from older reads | nothing for unpaid orders, refunds within the subtotal |
| payments (escrow) | payment, splits, transactions, `webhook_events` | create, webhook, release, refund | Stripe calls outside any transaction, Redis lock with a TTL, repeated and reordered events | money leaves once, after fulfilment; the books balance |
| invoices | invoice rows with a unique number | `generate` | the number is a count of rows taken before the row is written | numbers run on, every succeeded payment gets its invoice |
| payouts | connected account, payouts, balance (computed) | `withdraw`, payout webhook | check of three sums, then insert; catch-all after a Stripe success | never more withdrawn than earned, statuses are Stripe's |
| outbox | `outbox_events`, BullMQ jobs | enqueue, fast path, poll, dispatch, dead letter, replay | lost enqueues, retries, stalled jobs, missed queue events | at least once, no dead letter that was not given up, everything settled |
| idempotency keys | `idempotency_keys`, a Redis lock | interceptor | response stored after the handler ran | a key runs its request once and has one answer |
| briefs, applications, deals | briefs, applications, deal, proposals, milestones, responsibilities | apply, decide, propose, accept, complete, cancel | two-row writes after one read | one active application; a deal stands on one accepted proposal and ends once |
| contracts | contract, versions, PDFs, signatures, event log | create, version, send, sign, void | count, then blind status write | executed only with both signatures on one version; final states stay |
| notifications | preferences, deliveries, jobs | `notify`, delivery job | FAILED written by an attempt that is retried | a delivery's status says what happened to it |
| messaging, presence | conversations, messages, receipts, Redis socket sets | open, send, read, connect, disconnect | connect and disconnect of one socket overlap | online exactly while a socket is open; one conversation for two people |
| routes and guards | the registered routes, roles, permissions, active accounts | every request; suspend, set roles, grant | registration order decides which handler answers; rights change while a request runs | requests reach what they ask for; nobody gains rights; an administrator remains |
| authentication | accounts, refresh tokens, reset tokens | register, login, refresh, logout, reset, deactivate | check, then revoke, then issue | a token is used once, a new password ends old sessions |
| drops, followers, settings | drop status, delayed job, follower rows and counter, settings row | schedule, publish, archive, follow | job added after the commit; counter beside rows | scheduled drops are published, not before their time; counters count |
| brands, products, variants | `isActive`, visibility, slugs, variants | create, edit, deactivate, view | the check of the brand comes before the write; slug looked up before the insert | nothing written for an inactive brand, names stay usable, carts hold what was on sale |
| media and assets | files on disk, urls in rows | upload, replace, remove | old file deleted before the row names the new one | files and rows match |
| search | Typesense documents, cursor | incremental sync, full sync | cursor against commit order | every change is indexed in the end |
| analytics, ai, storage, mail, observability | rows only appended, external services | reports, scores | nothing shared between requests | not modelled |

How they interact: checkout creates orders whose payment is created by payments;
the Stripe webhook writes the payment and an outbox row in one transaction; the
outbox hands the event to in-process handlers.  The order's own status is moved
by a separate, signed order webhook, by refunds and by shipments; a release of
escrowed money reads it.  Payouts are computed from released splits.  An accepted
application creates a deal, an active deal a contract.  Every request passes the
guards, which read account and roles anew.  The creation of payments goes through
the idempotency interceptor; payment and payout webhooks and the interceptor use
the same Redis lock.  All queues share `DEFAULT_JOB_OPTIONS`.

## Conventions

* A handler occupies a slot (`request[r]`, `call[c]`, `clerk[c]`, ...) and takes
  one step per awaited database, Redis or Stripe call whose result is used later
  or whose effect others can see.  Reads that only feed the next check are one
  step with it.
* One statement, or one array given to `$transaction`, is one step.  The one
  interactive transaction of a checkout reads at READ COMMITTED and writes at its
  commit; its stock checks of the several lines are one step.
* A request that fails its checks changes nothing and is not started.
* `Die`, `CallFails`, `CutCall`, `Walk` and their like end a handler between two
  steps, whatever the cause; it can happen at any step.
* Variables whose comment begins with *history* are not in the program.  They
  remember what a property needs: which orders were paid, which overlaps and
  deaths occurred.  No guard reads them, except the bounds named in the guards.
* Guards marked `\* bound` limit what would otherwise be unbounded.
* A definition preceded by a `Mutant:` comment is not used by the
  specification.  It is the bug that the property named with it in
  `PROJECT.json` must find when it replaces the definition that follows.

## Modules

**Checkout** (`src/orders/services/{cart,checkout,orders,webhook}.service.ts`,
`src/products/services/stock.service.ts`).  `cart`, `stock`, `status`, `items`
and `buyer` are the columns; `ledger` is the sum of the stock movements.
`CheckoutBegin/Verify/Commit` are `checkout`; `AdjustBegin/Commit` are `adjust`;
`CancelBegin`, `PaymentFailedBegin`, `RestockOrder`, `CancelWrite` are the two
ways to cancel and their common tail; `PaymentSucceededBegin`, `PaidWrite` are
the other webhook.

**Fulfilment** extends Checkout with refunds and shipments, which run in the same
slots and write the same status: `RefundBegin/Sum/Create` (request),
`ApproveBegin` and `RefundProcessedBegin` with their common tail
`SettleMark/Sum/Write`, `RejectBegin/Write`, `ShipBegin/Create/Write`,
`UpdateShipment`, `DeliveredCheck/Write`.  Its next-state relation is Checkout's
or one of its own steps.

**Escrow** (`src/payments/services`, `src/common/locking`).  `CreateBegin/Row`;
the webhook `HookBegin`, `HookLock`, `HookCheck`, `HookRead`,
`SucceededWrite/Charge` or `FailedWrite`, `HookRecord`; `Release*`; `Refund*`.
The order or deal under a payment is reduced to `subject` (open to payment,
fulfilled, or neither) and moves freely.  Stripe is external: it charges once,
declines before that, sends events any number of times and in any order, and
refuses a second refund.  The lock may expire under its holder; a dead holder
may or may not have freed it.  A recipient without payouts makes the release
throw, which is one of the ways it dies.

**Payouts** (`src/payouts`, `connect.service.ts`).  One recipient: the account,
the balance as three sums read one after the other, the payout row, the Stripe
call, the write of `stripePayoutId`, the catch clause that marks FAILED, the
webhook under its lock.  Stripe may lose its answer after it accepted a payout.

**Invoices** (`src/payments/services/invoices.service.ts`).  `GenerateBegin`,
`FindInvoice`, `GenerateInvoiceNumber`, `CreateInvoice` are `generate`; payments
move by themselves and the year may turn.

**Outbox** (`src/events`, `src/common/queue`).  `Commit` is the caller's
transaction, `ScheduleDispatch` and `PollAdd` both end in `Add`;
`Take`, `ReadRow`, `Publish`, `MarkPublished`, `Complete`, `Throw` are the worker;
`OnFailed` is the listener; `Replay` the admin's republication.  BullMQ is
external and modelled from the options the code gives it: a job is identified by
the outbox id, a failed job stays, a completed one is removed after a while, a
job whose worker lost it is given back once and then failed.  `attempts` and
`lastError` of the row are reports only and left out.

**AtLeastOnce** is what the outbox promises, without jobs, workers or polls: a
committed event is delivered once and once more per disturbance, its row is
settled as PUBLISHED only after a delivery and as FAILED only when nobody handles
it or something disturbed it, and it is not left PENDING unless its failure was
ignored.  `Outbox!Promise` instantiates it with `status <- row`,
`deliveries <- published`, `disturbed <- hit`, `ignored <- unheard`; the property
`DeliversAtLeastOnce` is `Promise!FairSpec`, steps and fairness.

**Idempotency** (`src/common/idempotency`).  Several tries with one key, each at
a path: lock, look for the key, handler, stored answer, release; the lock may
expire, a handler may throw after its effect.

**Sessions** (`src/auth`, `src/admin`, `src/users`).  Registration, login,
rotation of refresh tokens, logout, password reset, and the deactivations and
role changes that happen meanwhile.  Access tokens are looked up anew per request.

**Routes** is the table of all routes of the controllers, in the order in which
the modules register them, with the public mark and what the guards ask for; it
is generated from the decorators and has `Match`, the first route that fits.
**Access** extends it: a visit is a request past the guards, `Enter` is
`JwtAuthGuard`, `JwtStrategy.validate` and the role and permission guards, and
the handlers that change accounts, roles and permissions are its steps.

**Deals** (`src/briefs`, `src/applications`, `src/deals`).  Briefs, applications
and their decisions, the deal, proposals and counter-proposals, milestones and
responsibilities (one kind of task).  **Contracts** (`src/contracts`): creation,
versions with their PDF, sending, signing, voiding, the event log.

**Notifications** (`src/notifications`): preferences, a notice with one delivery
per channel, the delivery job and its retries.  **Messaging** (`src/messaging`):
the two handlers of each socket, the Redis sets of open sockets, direct and group
conversations, messages and read marks.

**Catalog** (`src/drops`, `src/brands/services/followers.service.ts`,
`src/admin/services/settings.service.ts`): a drop with its delayed publication
job and the processor; followers with their counter; the settings row.
**Shelf** (`src/products/services`, `src/brands/services/brands.service.ts`,
`src/drops/services`, `cart.service.ts`): every change asks at the `Door` whether
the brand is active and writes later; a visitor sees what is `Public` or is taken
to the door; a creation looks up a slug and inserts later; a cart looks at a
variant once.  **Media** (`brand-assets`, `profile`, `drop-media`,
`product-media` services): one picture that is replaced, and a gallery.
**Search** (`src/search/reindex.service.ts`): rows stamped by the client and
committed later, synchronisations with their cursor, documents.

Three modules put components that share no state side by side, so that what is
said of them together has one home: **Agreements** (Deals, Contracts),
**Realtime** (Notifications, Messaging) and **Content** (Access, Catalog, Shelf,
Media, Invoices, Search, Idempotency).  Each has the conjunction of the
specifications and of the types; Content also has `WaresSound` and `PapersSound`.

**OrdersProofs** (Checkout and Fulfilment), **EscrowProofs**, **PayoutsProofs**,
**OutboxProofs**, **AgreementsProofs**, **PeopleProofs** (Sessions and Realtime)
and **ContentProofs** hold the proofs, **Sums** the lemmas about sums over finite
sets.

The `MC*` modules give the constants their values.  `MCAgreements`, `MCRealtime`
and `MCContent` explore one side at a time: a variable `side` says which of the
components a behaviour is about, so their state spaces add up and do not
multiply.  A behaviour of theirs is one of the conjunction in which all other
parts stand still.

## Runs

| Run | Instance | Distinct states | Shows |
|---|---|---|---|
| checkout | 2 variants of 2 brands, 1 shopper and the seller, 2 orders, 2 slots, one in stock of each | 551,075 | `TypeOK`, `StockMatchesLedger`, `OversellBounded`, `CancelledIsReturned`, `ReturnedTwiceNeedsMishap` |
| fulfilment | 1 order, 2 refunds of 1 or 2 units of its price 2, 1 shipment, 2 slots | 671,752 | `FulfilmentTypeOK`, `NothingForUnpaid`, `RefundsExplained`, `ReturnedTwiceNeedsMishap` |
| escrow | 1 payment, its two events, 2 slots, 2 faults | 1,231,706 | `TypeOK`, `NothingLeavesEarly`, `PaidTwiceNeedsOverlap`, `BooksBalance`, `EventsTakeEffect` |
| payouts | 2 payouts, 2 slots, one split of 2, 1 fault | 2,427,052 | `TypeOK`, `NeverOverdrawn`, `BooksAgree` |
| outbox | an event with a factory and one without, 1 worker, 3 attempts, 2 faults, 1 replay | 87,116 | `TypeOK`, `RowsTruthful`, `DeliversAtLeastOnce`, `SettledUnlessUnheard` |
| outbox_lost | the event with a factory, 4 faults | violation | `NeverLost` does not hold |
| sessions | an administrator and a user, 2 refresh tokens, 1 reset token, 2 slots | 2,108,298 | `TypeOK`, `TokensSound`, `DemotionBinds` |
| agreements | 1 brief, 2 applications, 3 proposals, 1 task; 2 versions of a contract; 2 slots and 1 death on each side | 886,495 | `TypesOK`, `ApplicationsSound`, `TermsAgreed`, `DealsEndOnce`, `StatusTellsSignatures`, `FinalStays` |
| realtime | 1 notice on 2 channels, 2 workers, 2 faults; 2 users, 2 sockets, 2 conversations, 2 calls, 1 fault | 408,107 | `RealtimeTypeOK`, `DeliveriesTruthful`, `PresenceTrue`, `ConversationsSound` |
| delivery_retry | 1 delivery, 1 worker, no fault | violation | `RetriedBeforeFailed` does not hold |
| content | two requests at a time (three tries of a key) in one of: access, drop, followers, settings, shelf, media, invoices, search, keys | 1,626,709 | `ContentTypeOK`, `AccessSound`, `WaresSound`, `PapersSound`, `IndexCatchesUp`, `KeySound` |
| routes_shadowed | 1 account, 1 request | violation | `RoutesReachable` does not hold |

Many of the properties have the form "this goes wrong only if that happened":
the code does oversell, restock twice, transfer twice, overdraw and refund too
much when handlers overlap or die at the wrong place.  The properties state
exactly which accidents it takes, so that everything else is excluded: in
`ReturnedTwiceNeedsMishap`, an order that is cancelled and stays so is not
restocked again however many requests repeat the cancellation; in
`PaidTwiceNeedsOverlap`, a late `payment_succeeded` that revives a refunded
payment does not get it paid twice; in `NeverOverdrawn`, no order of payout events
overdraws.

Several properties are conjunctions of named parts, each with its own comment:
`RefundsExplained`, `EventsTakeEffect`, `TokensSound`, `RowsTruthful`,
`WaresSound` (`CatalogSound` and `ShelfSound`), `PapersSound` (`FilesMatchRows`
and `InvoicesSound`), `AccessSound`, `KeySound`.

### Bounds

* Two slots: every hazard of these modules is a race of two handlers; a third
  can only repeat one of their steps.  `OversellBounded` is stated for any
  number of slots.
* `checkout`: one unit in stock and cart lines of one unit make the second
  checkout of a variant the one that oversells.  Two brands make one checkout
  create two orders.  `MaxStock = 0` keeps an adjustment from raising the stock
  beyond what was sold below zero, so adjustments of -1 meet the last unit and
  adjustments of +1 meet oversold stock.  `MaxReturns = 2` lets a second return
  of an order happen.
* `fulfilment`: a price of 2 with refunds of 1 and 2 gives partial, complete and
  excessive refunds.  One shipment is enough for every status path; with two
  slots for two refunds, both refunds can be open while both handlers decide.
* `escrow`: `MaxTransfers` and `MaxPublished` of 2 let the bad second transfer
  and second outbox row happen; two faults let a death and an expired lock, or
  two deaths, combine.
* `payouts`: a minimum of 1 and one split of 2 let two payouts of the whole
  balance, or of half of it each, meet.  One fault is enough for a lost answer,
  a death or an expired lock; `Returns` has one of the two outcomes that return
  the money, which the code treats alike.
* `outbox`: two faults lose the fast path and stall a worker, or stall a worker
  twice; three attempts are the code's.  Losing an event takes four: three
  failed attempts and a deaf listener, which is what `outbox_lost` allows.
  The batch of two holds every due row.  With `Batch = 1`, one row that stays
  PENDING for good starves the other and `SettledUnlessUnheard` fails; the code
  takes 100 rows, in no order.
* `sessions`: two refresh tokens are a token and its heir, or two sessions; two
  passwords after the first let a session survive a reset and meet the next.
* `agreements`: three proposals are a proposal, its counter-proposal and one
  that comes late; two versions are the one being signed and the one that
  replaces it.
* `realtime`: two sockets are two devices of one user, or one of each; three
  things in all let two messages cross in one conversation.
* `content`: a drop has three moments, so that a publication can be moved and
  be early; three files let a picture be replaced twice; two versions after the
  first and three moments let a synchronisation miss a late commit; three tries
  and two paths give an answer, its repetition and a conflict; two products or
  drops and one suffix let a name be taken once; three payments and one turn of
  the year give gaps and repetitions of numbers.

Deadlock is not checked: when every order is closed, the identifiers are used up
and every bound is reached, nothing needs to happen.

Symmetry is used in runs without liveness only, over sets whose elements no
definition tells apart.

### Fairness

Only `outbox` has liveness.  Weakly fair: a scheduled `scheduleDispatch` call
returns or is lost; time passes; BullMQ's stalled check runs; the queue event is
handled or missed; a worker that runs goes on.  Strongly fair: a free worker
takes a waiting job and the poll job, which BullMQ's waiting list and the
repeatable job (`onModuleInit`) guarantee in the long run although other jobs
keep workers busy in between.  Nothing forces a commit, a fault or a replay.
Under it, Outbox also has the fairness of AtLeastOnce: an event whose row says
PENDING and whose failure was heard is delivered, settled or given up.

The other components do not retry: an HTTP handler that dies is not resumed, and
whether a client, Stripe or a user comes back is not the code's to promise.  What
they leave behind is stated as an invariant with its exceptions.

### Where the code and its documents differ

`outbox_lost`: the comment at `payments/services/webhook.service.ts:120-123` and
ADR 0002 say that a committed outbox row is never lost, because the poller picks
up every PENDING row.  The poller re-adds the job under the row's id; a job that
has failed for good stays under that id (`removeOnFail: false`), and the add does
nothing.  If the database outage that exhausts the attempts also defeats the
listener's update, or the listener's process is down, the row stays PENDING and
is neither dispatched nor dead-lettered.

`delivery_retry`: the comment on `DEFAULT_JOB_OPTIONS` says that transient
failures are retried before the job lands in the failed set.  The delivery job
writes FAILED at its first failed attempt; its retries find the delivery no longer
PENDING and return, so the first failure is final and the failed set stays empty.

`routes_shadowed`: the API description offers `GET /payments/invoices` and
`GET /payments/transactions`, which `GET /payments/:id`, registered before them,
answers; `GET /notifications` is declared by two controllers, of which the first
answers.

Met while reading, and in no run: `test/app.e2e-spec.ts:21-24` expects `GET /` to
answer 200 without a token, while `AppController` has no public mark and the
guard in front of every route answers 401.

## Proofs

Each `*Proofs` module proves its component for every value of the constants that
satisfies the component's assumptions: any number of users, rows, events and
handlers, any bounds.  The invariants were checked by TLC on the instances of the
runs before they were proved.  Where a property counts handlers, deliveries or
runs, the assumptions say that the set of slots is finite (a process serves
finitely many requests), because the count of an infinite set is not a number.

**OrdersProofs**, first part: Checkout (`CheckoutConstants`: typing, finitely many
slots and at least one).

* `TypeCorrect`: `TypeOK`.
* `LedgerCorrect`: `StockMatchesLedger`.  It is inductive by itself once types
  are known: every step but `AdjustCommit` changes stock and ledger alike, and
  that one either does too or puts the variant into `drifted`.
* `CancelledReturned` and `ReturnedTwiceExplained`: neither is inductive.  The
  invariant `ReturnInv` adds what relates an order's returns to the handlers in
  flight.  An order outside `doubtful` is `Orderly`: at most one cancellation of
  it is in flight; that one has returned the goods once if it is past its
  restock and not at all before; with none in flight, goods that are back came
  back once and the order is CANCELLED.  Every order is `Restocked`: a handler
  about to write CANCELLED, and a CANCELLED order, have returned goods behind
  them.
* `OversellIsBounded`: `OversellBounded`.  `OversellInv` counts, per variant, the
  checkouts that have found enough stock and not yet decremented it (`Takers`).
  While `n` of them wait, each still finds what it counted on, less one largest
  line for every other slot that does not wait.

The lemmas are not about `TypeOK` but about `Typed(T)`, where `T` is any set of
further records that slots may carry in states of their own.  Checkout alone is
the case of no further records, and Fulfilment, which puts refunds and shipments
into the same slots, another.

**OrdersProofs**, second part: `FulfilmentSpec` (`FulfilmentConstants`: prices and
refund amounts are positive, finitely many variants and refunds, because a sum
over infinitely many is not a number).  Every step of a refund or
shipment is described by one formula, `Lawful(r, q)`: it leaves the stock alone,
and writes the status only of an order that was paid and only with a status of its
own.  `HeadStep` says what a step of Checkout leaves of them.

* `FulfilmentTypeCorrect`: `FulfilmentTypeOK`; `NothingLeavesUnpaid`:
  `NothingForUnpaid`.  The invariant `LifeInv` says that every refund, shipment
  and handler of one is for an order that was paid.
* `ReturnsSurvive` and `StockSurvives`: `CancelledIsReturned`,
  `ReturnedTwiceNeedsMishap`, `StockMatchesLedger` and `OversellBounded` hold of
  the composition, from `ReturnInv` and `OversellInv` as they are.
* `RefundsAlwaysExplained`: `RefundsExplained`.  `RefundInv`: a handler about to
  write REFUNDED has processed refunds of the subtotal behind it (`Repaid`), which
  no step takes back; a handler about to create a refund has seen processed
  refunds that leave room for it (`Knows`); and of an order without a contest, one
  refund at most is open, and with it no more than the subtotal is refunded
  (`Modest`).

**EscrowProofs** (`EscrowConstants`: typing, finitely many slots).

* `EscrowTypeCorrect`: `TypeOK`.
* `NeverTooEarly`: `NothingLeavesEarly`.  `MoneyInv` says what a handler past its
  check knows: a release that the payment was charged and its subject delivered,
  a webhook that Stripe did send its event.
* `PaidTwiceExplained`: `PaidTwiceNeedsOverlap`.  `CalmInv`: of a payment with no
  overlap and no unheard call, at most one release or refund is at work, and what
  it has yet to send has not been sent.
* `BooksAlwaysBalance`: `BooksBalance`.  It is a sum over the handlers in flight;
  each Stripe call moves one from "not happened" to "owed", each ledger row from
  "owed" to "booked", each death from "owed" to "lost".
* `EventsHandled`: `EventsTakeEffect`.  `EffectInv` follows each event through
  lock, check, write and record (`Tended`), each payment through the writes of
  contradicting events (`Effective`), and what each handler may rely on
  (`Careful`).

**PayoutsProofs** (`PayoutConstants`: typing, finitely many payouts, and no slot
named like the free lock).

* `PayoutTypeCorrect`: `TypeOK`.  A handler carries sums over the rows it read, so
  that they are numbers needs `Sums` and that a payout's amount never changes.
* `BooksAlwaysAgree`: `BooksAgree`.  The invariant is `Sound(p)` of each payout:
  what its row says of ledger and balance (`RowSound`), and what the slot that
  made it (`MakersSound`) and every handler of an event about it (`HeedersSound`)
  know of the row since they read it.
* `BalanceNeverOverdrawn`: `NeverOverdrawn`.  `MoneyInv`: while no lock has
  expired, one slot at a time weighs the balance (`Weighed`), and the two sums it
  took, in whatever order they were read and whatever events came in between,
  cover everything that is claimed of the balance (`Claimed`).

**Sums** has what `MapThenSumSet` and `SumFunction` return for the empty set and
for a set with one more element, that sums of numbers are numbers, and that they
are monotone.  The induction is over the sizes of finite sets, by a set with the
least size among the counterexamples, which needs no theorem with an operator
for a parameter.

**OutboxProofs** (`OutboxConstants`: typing, finitely many workers).

* `OutboxTypeCorrect`: `TypeOK`; `RowsAlwaysTruthful`: `RowsTruthful`.  The
  invariant `OutboxInv` is `Sound(i)` of each event: what the job's state says of
  the row, who holds the job, and `Counted`, which charges every publication and
  every worker that runs without the job to a fault or replay.  The proof showed
  that `DeadLettersAreDead` needs the attempts a worker loses to stalls apart from
  those that met a fault: a stalled job is given up whatever its count of faults.
* `ImplementsAtLeastOnce`: `Spec => Promise!Spec`.  Initial states map to initial
  states; under `OutboxInv`, a step commits, publishes, settles, disturbs or
  ignores one event as AtLeastOnce does, or is a stutter.

**AgreementsProofs**, first part: Deals (`DealConstants`: the bound on deaths is a
number; any number of briefs, applications, proposals, tasks and handlers).

* `DealsTypes`: `TypeOK`, from `DealsTypeInv`, which adds the foreign keys a
  handler relies on (`Placed`) and that nobody agreed to a proposal of his own.
* `ReadInv`, used by all that follow: on a row on which no two handlers crossed
  there is one handler at a time (`OneAtATime`), and what it read at its start is
  still so when it writes (`DealRead`, `DecisionRead`).
* `DealsEndOnceAlways`: `DealsEndOnce`, an action property, from `ReadInv`: every
  handler that could reopen a closed deal would have read that it is open.
* `TermsAlwaysAgreed`: `TermsAgreed`.  `TermsInv` describes the proposals of a deal
  between two handlers (`AtRest`) and half-way through one (`Midway`), where for a
  moment there is no pending proposal, or an accepted one of a deal that is not
  yet active.
* `ApplicationsAlwaysSound`: `ApplicationsSound`.  `OneActive` says of a handler
  about to create an application that it left no active one behind; `HeardKept`
  follows the notifications of an application through the handler that has
  written the row and not yet told.

Second part: Contracts (`ContractConstants`: the bounds are numbers).

* `ContractTypeCorrect`: `ContractTypeOK`.  With `DealsTypes` it gives
  `AgreementTypes`: `TypesOK`.
* `FinalStatusStays`: `FinalStays`, an action property.  `SoloInv`: as long as no
  two handlers overlapped, there is one, and the status is still what it read.
* `StatusTrue`: `StatusTellsSignatures`.  That EXECUTED needs both signatures on
  one version holds whatever overlaps (`TypeInv` carries it, since the handler
  about to write EXECUTED has counted both).  For the rest, `TidyInv` says what
  is still missing from status, documents and log at each step of the handler at
  work.

**PeopleProofs**: Sessions (`SessionConstants`: typing).

* `SessionTypeCorrect`: `TypeOK`, from `TypeInv`, which adds that a token that a
  handler checked is still a row.
* `TokensAlwaysSound`: `TokensSound`.  `PasswordInv`: a live token, and a handler
  about to issue one, hold the current password or descend from a handler that a
  reset overtook.  `OnceInv`: a token nobody contests has one handler on it, or
  was used once and is revoked.
* `DemotionAlwaysBinds`: `DemotionBinds`, an action property, from `SureInv`: a
  handler that is not marked stale acts for a user who is still active, and an
  administrator's for one who still is one.

Notifications (`NotificationConstants`: the three channels of the code, a free job
is held by no worker, at least one attempt).

* `NotificationTypes`: `NotificationTypeOK`.  A job that waits or runs has attempts
  left (`JobSound`), which is what keeps its count within the type.
* `DeliveriesAlwaysTruthful`: `DeliveriesTruthful`.  `TruthInv`: a delivery that met
  no fault has one worker at most, which is the one that holds its job, and its
  status and count of tries are those of the place where that worker is
  (`Truthful`).

Messaging (`MessagingConstants`: finitely many sockets and conversations; any
number of users and calls).

* `MessagingTypes`: `MessagingTypeOK`; with `NotificationTypes` it gives
  `RealtimeTypes`: `RealtimeTypeOK`.
* `PresenceAlwaysTrue`: `PresenceTrue`.  `SocketSound`: a socket is in its user's
  set from SADD to SREM; one that has closed and is still there will be removed or
  is stranded.  `ToldTrue`: of a user whose handlers did not disturb each other,
  one handler at most is between a change of the set and its broadcast, and it
  knows whether it was the first in or the last out.
* `ConversationsAlwaysSound`: `ConversationsSound`.  `PairSound`: two people nobody
  rushed have one conversation or one call creating it; `TimeSound`, `ReadSound`: of
  the calls that write one timestamp without crossing there is one, and what it is
  about to write is the latest.

The proof is done once for each of the two halves of the state (`Halves`), since
no step of messaging changes both but a crash.

**ContentProofs**: each part has its own inductive invariant.

* Access (`AccessAssumption`: the first administrator is an account;
  `RoutesAsDeclared`).  `AccessAlwaysSound`: `AccessSound`, for any accounts and
  any number of visits.  `AccessInv`: as long as no handler took rights from one
  that was being served, the guards would let every visit in again; hence an
  administrator remains, since the one who acts is one.  What the proof takes of
  the table of routes is `RoutesAsDeclared`: which route serves a request, and
  what its guards ask.  It has no parameter and no variable, so TLC's evaluation
  of it in the `content` run settles it; the table is data, and a proof of it
  would be the same enumeration.
* Catalog (`CatalogConstants`: finitely many fans and calls, at least one attempt).
  `CatalogAlwaysSound`.  `ScheduledOnce`: a drop that no two handlers wrote at once
  has one job or one call that is about to add it, due at the moment the row says.
  `SettingsInv` counts rows together with the calls about to create one;
  `Learned` is what a call knows since it asked.
* Shelf (`ShelfConstants`: bounds).  `ShelfAlwaysSound`: a request that nobody
  overtook still stands before an open brand when it writes (`Guarded`), a
  creation without a rival has a slug that stays free (`Named`), and what a cart
  holds was on sale (`RowsInv`, `Puts`).
* Media (`MediaConstants`: bound).  `FilesAlwaysMatch`.  `Fresh`: a file that a
  request has saved nobody else knows; `Gone`: the file a replacement read is deleted before
  the row is written.  A file is excused by a request only if that request saved
  it (`FilesHaveRows`).
* Invoices (`InvoiceConstants`: finitely many payments).  `InvoicesAlwaysSound`.
  `CallKnows`: a call without a rival has the next number, and a number taken
  since it was counted was taken in the same year.
* `WaresAlwaysSound` and `PapersAlwaysSound` join these four.
* Search (`SearchConstants`: bounds).  `IndexAlwaysCatchesUp`: `IndexCatchesUp`.
  `CatchesUp`: a synchronisation that has not read answers for the rows before its
  cursor, one that has for those it does not still hold.
* Idempotency (`KeyConstants`: finitely many tries, and names apart from one
  another).  `KeyCorrect`: `KeySound`.  The invariant counts the effects together
  with the tries that are at work without the lock (`Spent`): they are covered by
  the lapses of the lock, but for one, which is the lock holder's or the stored
  one.
* `ContentTypes`: `ContentTypeOK`, from the type theorem of each part.

The history variables do no work in these proofs beyond naming the exceptions.

So every invariant and action property of the passing runs is a theorem.  Only
model-checked:

* *Liveness*: `SettledUnlessUnheard` and the fairness half of
  `DeliversAtLeastOnce`.  The prover does not reach fairness or ENABLED.
* *`RoutesAsDeclared`*, evaluated as said above.
* That the three violated properties are violated is a matter of one
  counterexample each, which TLC finds.

What would extend the project is more model, not more proof: the poll's order
when more rows are due than a batch holds, and the components below.

## Not modelled, and why

* Analytics, dashboards, reports, listings and queries: read-only aggregates;
  page views are only appended.
* `src/ai`: scores computed from one read, around an external language model.
* Storage providers, mail, PDF drawing: input and output.
* Observability, health, logging, exception filters, configuration: reporting and
  start-up only.
* PostgreSQL, Redis, BullMQ, Stripe, Typesense: external; each module states what
  it takes from them.
* Rows that one request writes and no step waits for: profile texts, user
  settings and privacy, email verification (which decides nothing), creation of a
  brand, categories, profile pages, the page and search-engine fields of a drop,
  templates and push tokens, moderation decisions.
* Two weaknesses that no property can be stated about, because no handler takes
  them up: an order may be cancelled while its payment intent can still be
  confirmed, and nothing gives the charge back
  (`payments/services/payments.service.ts:54`); a release whose transfer throws
  after the platform fee was released can no longer be refunded
  (`payments.service.ts:170`).  Escrow takes both steps.
