# A TLA+ model of the CafeTelkom backend

The repository is the backend of a single-branch café: customers fill a cart,
check out, pay through Midtrans Snap; staff complete the order. The code is a Go
API over PostgreSQL (pgx, sqlc), Redis for product reads and a worker that sends
push notifications from an outbox table. Paths below are relative to `src/`.

## Inventory

| Component | State | Operations | Hard part | What makes it correct |
|---|---|---|---|---|
| Order service `internal/service/order.go` | `orders`, `order_items`, `products.stock`, `products.total_sold` | Checkout, CancelOrder, UpdateOrderStatus (only to COMPLETED), ConfirmOrderFromPayment, lazy expiry of unpaid orders; ListOrders, GetOrder read | concurrent READ COMMITTED transactions, reads that are used after waiting for a lock, locks in no common order | stock is conserved; a cart row is in one pending order; total_sold counts completed orders once; transactions end |
| Cart service `internal/service/cart.go` | `carts`, `cart_items` | AddItem, UpdateItemQuantity, DeleteItem, ClearItems, ClearItemsByIDs (after payment); GetCart reads | first use by two requests; rows that change between checkout and payment | one row per product and attributes; paid rows leave the cart |
| Product service `internal/service/product.go` | `products` | Create, Update, UpdateStatus, soft Delete, Restore; cached List and Get | read-merge-write in UpdateProduct; cache filled with an old row | names are unique; category and attributes fit; row and event together; bounded staleness |
| Payment service `internal/service/payment.go` | `payments` | InitiatePayment, HandleWebhook; lists | no transaction around read, decide, write; notifications repeated, late, out of order; crashes; always 200 | only paid orders are confirmed; final statuses are final; a settlement is recorded and confirms its order |
| Product cache `internal/cache/product.go` | Redis keys with a TTL | get, set, invalidate | stale fill after an invalidation; SCAN and DEL apart; Redis or the server fails after COMMIT; orders do not invalidate | what is read is at most a TTL old |
| Outbox worker `internal/outbox/processor.go`, `cmd/worker` | `outbox_events` | lock a batch, send, mark sent / retry / dead | worker dies between steps; retry boundary | every event is sent or dead |
| Authentication `middleware/auth.go`, `integrations/supabase`, `service/auth.go` | cached JWKS, profile rows written by a database trigger | verify a token, register, wait for the profile | key rotation, concurrent refresh, late trigger | a withdrawn key is trusted for a bounded time; a valid token passes |
| Firebase client `integrations/firebase/fcm.go` | cached access token | send | a request that is never answered (the token is fetched under a mutex by one worker) | - |
| Users, reports, wiring, config, logging | - | single statements, start-up | none | - |
| Scheduler `internal/scheduler/doc.go` | none | none: a package comment | nobody expires an order whose owner does not come back | - |

Interactions: Checkout reads the cart and moves product stock in one
transaction. InitiatePayment reads an order and may expire it. The webhook
updates a payment, then calls ConfirmOrderFromPayment and ClearItemsByIDs in
process. The internal endpoint `PATCH /internal/orders/:order_id/status`
(`handler/order.go:362-402`) does the same two calls for whoever has the internal API
key, without a look at the payments of the order; nothing in the repository calls
it. CreateProduct
writes an outbox event in its transaction; the worker sends it. Product writes
invalidate the cache.

## Modules

| Module | What it models |
|---|---|
| `Orders` | carts, stock and orders; every handler is one step |
| `OrdersProofs` | theorems about `Orders`, checked by TLAPS; likewise the other `*Proofs` |
| `OrderTx` | extends `Orders`: the order transactions, and those that clear carts, statement by statement, row locks, the advisory lock of order numbers, rollbacks, PostgreSQL's deadlock detector. Its property `Serializable` is `ConcurrentSpec` of `Orders`: the detailed specification implements the abstract one |
| `OrderTxProofs` | theorems about `OrderTx`: that implementation, decisions, deadlocks |
| `Payments` | extends `Orders`: InitiatePayment and webhook requests as processes, the internal endpoint, Midtrans as environment |
| `PaymentsProofs` | theorems about `Payments` |
| `EventLife` | abstract: what the outbox promises about one event |
| `Outbox` | the event of CreateProduct, workers that claim, send and mark events, Firebase as environment; implements `EventLife` for each event |
| `OutboxProofs` | theorems about `Outbox`, that refinement among them |
| `ProductAdmin` | product administration statement by statement: name checks and the unique index, merged updates, status, delete, restore, the event of a new product. `ShelfAsInOrders`: what it does to status and deletion are the product handlers of `Orders` |
| `ProductAdminProofs` | theorems about `ProductAdmin`, that refinement among them |
| `CartTx` | the cart handlers statement by statement, with AddItem's look at the product and the creation of the cart, while admins change the menu. `CartAsInOrders`: each COMMIT is the cart handler of `Orders`, but for an AddItem whose product left the menu after it looked |
| `OrderNumbers` | the part of Checkout from the order number to COMMIT, on several days at a time |
| `Amounts` | prices, subtotals and totals in integers of `Width` bits, the CHECKs on what is stored, what Snap is asked for |
| `CheckoutProofs` | theorems about what leads to an order: `CartTx` with its refinement, `OrderNumbers`, `Amounts` |
| `RecentReads` | abstract: a register whose readers may be answered an old version, but not for longer than `Staleness` |
| `ProductCache` | product reads through Redis, fills, invalidations and their failures; implements `RecentReads` twice, for lists and for details |
| `SigningKeys` | the cached key set of Supabase, refreshed by any number of requests; implements `RecentReads` |
| `ReadsProofs` | theorems about `ProductCache` and `SigningKeys`, both refinements among them |
| `ServicesProofs` | theorems about `MCServices`: its parts behave as they do by themselves, and keep their types |
| `MC*` | instances for TLC |

State and code. `stock`, `sold`, `shelf`, `deleted` are columns of `products`;
`cartQty[i]` is the quantity of cart row `i` (0: no row) and `RowOf[i]` what
never changes in it: its user, product and attributes key; `lines[o][i]` is
the quantity of `o`'s order item for cart row `i`; `overdue` are the PENDING
orders whose `expires_at` has passed. Prices, notes, table numbers, names and
order numbers are left out. A sum over order items is a cardinality:
`Quantity(O, L, p)` counts the single units that the orders `O` carry, so the
proofs need only theorems about finite sets.

In `OrderTx` the variables of `Orders` are the committed rows and `txn[t]` is
what transaction `t` has written. A statement that locks a row is enabled when
the lock is free, and reads the row as it is then: this is what SELECT FOR
UPDATE does at READ COMMITTED. The first query of Checkout joins products
without locking them, so `seen` keeps what it found. ClearItems and ClearItemsByIDs
delete their rows one by one, in whatever order the DELETE scans them, and keep the
locks until COMMIT. The handlers that change one cart row or one product are single
steps that wait for that row, and for a new cart row for its product while nobody
else sees that row. After it they wait only for the row of `carts`, whose holders wait
for nothing but other rows of `carts`: no circle of waits goes through them. Lines of an order
come back in any order (their `created_at` is one transaction's start); cart rows and
expired orders come back `ORDER BY created_at, id`, whose place in that order
`CreatedAt` is.

AddItem looks at the product in its transaction but without a lock, so in `Orders` it
comes twice: `AddItem` is the whole handler, `AddItemTx` its transaction without the
look. One at a time (`Spec`) handlers are `AddItem`; interleaved (`ConcurrentSpec`)
nothing of the look is left at COMMIT. In `CartTx`, `menu` is what admins make of
the products and `lapsed` marks a request whose product left the menu after it
looked: only such a request may commit what `AddItem` refuses. Checkout looks at
the product again, and locks it, so such a row cannot be ordered.

In `Payments` every statement of InitiatePayment and HandleWebhook is a step;
the transactions they call are the handlers of `Orders`, which is what
`Serializable` justifies. `InternalConfirm` is the internal endpoint, for the orders
in `Attested`; what it clears is one of the carts' own steps. What the properties
claim about payment they claim of the other orders. Midtrans is external: it moves a
Snap transaction, puts a notification in `inbox` for each move, and may deliver again what was
answered (`seenBox`). "settlement" stands for an accepted capture too, "deny"
for cancel, failure and a rejected capture. Signatures are assumed valid.

In `Outbox` every statement of the worker is a step of its own, as in the code: its
repository is the pool, not a transaction. `claimed[w]` is what worker `w` has
not finished of the batch it claimed, `seen[w]` the `retry_count` that came with
it. A send ends well, is refused, or is accepted while the answer is lost; `accepted`
and `answered` record what Firebase and a worker know. A failing statement, a
signal and a crash have one effect, `Stop`: the rest of the batch is forgotten.
The workers are two containers, or a worker and its replacement. A worker with
`FCM_ENABLED=false` does nothing and is not modelled. `Stage(e)` is the refinement
mapping to `EventLife`: what the row of `e` says and, while it is PROCESSING, whether
the worker that holds it has not sent it, has the answer, or has failed, or whether no
worker holds it any more ("lost").

`ProductAdmin`, `CartTx` and `OrderNumbers` keep committed rows in variables named
after their tables and what a transaction has written in `session`, `cartTx` and
`buyer`, each with a program counter `pc`. A write waits for a transaction that
wrote the same row or inserted the same key into a unique index, and then sees the
newest row. Two modules refine `Orders` through an `INSTANCE` that substitutes the
committed rows for its variables. In `ProductAdmin` a body is a record whose
fields may be `NotSent`; a product's attributes are the fields for which it offers
valid values, so `Fits` is what `validateProductAttributes` checks.

In `ProductCache` a version stands for the content of a row: product handlers and
orders both make a new one, and only product handlers invalidate. `age[v]` is how
long version `v` has been replaced, `crossed` marks an entry that was filled with a
version already replaced. In `SigningKeys` a version is a key set that Supabase
published; `overtaken` remembers that another request stored an older set between
a request's fetch and its second look.

Operators marked "faulty" are not part of the specifications: they are the bugs
each property is shown to catch (`mutants` in `PROJECT.json`).

## Runs

| Run | Question | Result |
|---|---|---|
| `MCOrders` | safety of whole handlers: two variants of a product in one cart, a second customer for the same product, three orders, 3 units | holds |
| `MCOrdersRetry` | can a customer whose order expired check the same rows out again? | **no**, see findings |
| `MCOrderTx` | two customers, one unit of one product, two orders that are cancelled, expire, are confirmed and completed, carts that are cleared row by row, an admin who takes the product off the menu | commits are steps of whole handlers, decisions still hold at commit, stock is never negative |
| `MCOrderTxFull` | two customers check out full carts with the same two products, orders expire and are cancelled, one cart may also be cleared | a deadlock needs a transaction that moves the lines of an order or clears a cart: checkouts alone have none; every transaction ends, deadlocks included |
| `MCPayments` | two webhooks at a time, two payments, two orders, one failing statement; the second order may be confirmed through the internal endpoint | of the other order, only settled payments confirm; a SUCCESS whose order is PENDING is about to confirm it |
| `MCPaymentsSerial` | one webhook at a time, one crash | final statuses stay final; a settlement is recorded, and until then to be delivered or in a webhook's hands; until a crash a SUCCESS decides its order and paid rows leave the cart, in which they are only while a webhook is about to clear them |
| `MCPaymentsOverwrite`, `Double`, `Crash` | see findings | violated |
| `MCOutbox` | two workers, three events, batches of two, two attempts, workers that stop anywhere | one worker per event; each event lives as in `EventLife`: one notification per attempt at most, none once it is known to be accepted, dead after the last attempt and not before; only a worker that stops strands an event; every event is sent, dead or stranded |
| `MCOutboxStop` | is every event sent or a dead letter at last? | **no**, see findings |
| `MCServices` | six parts, below | all hold |

`MCServices` composes six modules that share no variable: a behaviour picks one of
them in its initial state (`part`) and the others stand still, so the run is the
sum of six small ones and each property is about one part.

| Part | Instance | Result |
|---|---|---|
| `admin` | two requests at a time, two products, two names; bodies with a new name, a category with its attributes, either alone | no name twice, deleted products included (`NamesUnique`); attributes fit the category although updates merge (`AttributesFitCategory`); a product and its event are committed together (`AnnouncedIfCreated`); status and deletion move as in `Orders` (`ShelfAsInOrders`) |
| `cache` | two readers, one writer, a list and a detail, two versions, Redis and the server failing anywhere | nothing read is older than its TTL and one fill (`ReadsAreRecent`); without failures a stale entry is about to be deleted or was filled across the write (`StaleOnlyIfCrossed`) |
| `keys` | two requests, three key sets that rotate from one key to another | a withdrawn key is trusted for the TTL and one fetch (`TrustIsRecent`); a valid token is refused only if an older set was stored over the one its request fetched (`ValidTokensPass`) |
| `cart` | two requests on one cart, two rows' ids for one product, one for another; admins delete the first product and restore it | commits are cart handlers of `Orders`, also where an AddItem commits for a product just deleted, no quantity is lost (`CartAsInOrders`); who loses the race for the cart finds it when trying again (`FirstUseLeavesCart`) |
| `numbers` | three checkouts, two days, two products in either order | no gap and no number twice (`NumbersConsecutive`, `NumberIsFree`); checkouts deadlock only with numbers of different days (`DeadlocksSpanDays`) |
| `amounts` | two products, four bits, prices up to 3, stock up to 6: totals wrap to negative and to positive numbers | what is paid is what the lines come to (`PaidIsOrdered`); an order whose lines fit in the integers is stored and can be paid (`OrdersThatFitPass`) |

### Bounds

Two transactions suffice for every pairwise race and every deadlock of the
orders; two products or two customers are what a deadlock, respectively a fight
for the last unit, needs. Stock leaves a unit for a checkout that waits for a
lock: only then can transactions deadlock. `MCOrderTxFull` starts with full carts,
a state `AddItem` leads to, so that two customers with two rows each fit.
Three orders in `MCOrders` allow one that is expired, one retried and one of
another customer. Three events and batches of two let the two workers hold
different batches, and two attempts are the least with a retry before the dead
letter. A fight for the cart row or for a name needs two requests; a third
checkout in `numbers` lets a day's lock pass from one to another while the second
day runs. Two versions let an entry outlive a write and a fill cross one; the list's
TTL is one unit shorter than the detail's, so the two bounds differ. Four bits are
the least in which a total of two lines wraps past zero again. `MaxQty`, `OrderId`, `CartItem` and
`PaymentId` bound what is created; `Admin` bounds the statuses that admins give to
products; `Started` the kinds of transactions that run beside Checkout; `MenuAsks` what
admins make of which product (one suffices: a request adds one product, and any status
but "available" is refused alike); in `MCOrderTxFull` one customer clears the cart,
who is like the other; `Attested` the orders that the internal endpoint may confirm; `Sends`
the statuses Midtrans sends; `MaxErrors` and `MaxCrashes` the failures. When
the ids of orders are used up, Checkout rolls back. No run bounds the length of a
behaviour. Order ids, transactions, payments, clients and hooks are symmetric
where a run checks no liveness. `MCPayments` and `MCPaymentsSerial` together send
every status. `ConfirmedWasPaid` is checked without challenged
captures: the code counts a capture whose fraud check is open as a success
(`payment.go:692-697`), and Midtrans may still reject it.

### Fairness

`OrderTx`: strong fairness of each transaction's next statement (PostgreSQL
queues lock requests, so a lock that is released again and again is granted; a
request that started runs to its end), weak fairness of the deadlock detector.
Nothing makes a transaction start, an order expire or a statement fail.
`Payments`: strong fairness of the delivery of a notification that is not
answered yet (Midtrans delivers again until it gets an answer), weak fairness of
the steps of a running webhook. Customers, staff and Midtrans' own decisions are
not fair. `Outbox`: weak fairness of each worker (its ticker polls, its
statements return, Firebase answers) and of the passing of `next_retry_at`; that
Firebase answers is an assumption, since the HTTP client has no timeout
(`firebase/fcm.go:52`). `Outbox` stops when all events are settled or stranded,
so its runs do not check deadlock.

## Findings

1. **Retry after expiry** (`order.go:254, 273, 307`). Checkout compares the
   quantities with the stock it read before it restored the stock of the expired
   order. If that order held the last units, every retry fails and is rolled
   back, the cancellation with it.
2. **A final payment status is overwritten** (`payment.go:469-490`). Read and
   update are separate statements; the update has no condition on the status.
   A late "pending" can even reopen a SUCCESS.
3. **Two active payments for one order** (`payment.go:323-388`).
4. **Crash between payment and order** (`payment.go:476, 485-499`). The early
   return on a final status makes the redelivered notification useless.
5. **Stranded events** (`outbox/processor.go:93, 101`). A worker that stops, by
   SIGTERM, crash or one failing statement, leaves the rest of its batch in
   PROCESSING, which no query claims again.

Read, or met by a property that says what holds instead:

- int32 wraps in `order.go:322-323`: 43 units at the largest price come to a total
  of 5,032,661, which PostgreSQL stores. Snap refuses a gross amount that is not the
  sum of its items, so such an order cannot be paid (`PaidIsOrdered` rests on that).
- Checkouts around midnight, or on servers whose clocks differ, may deadlock: the
  day lock orders them on one day only (`DeadlocksSpanDays`). PostgreSQL ends one.
- The loser of two first AddItem requests fails with an internal error:
  PostgreSQL refuses the second read in the transaction that had the unique
  violation (`cart.go:187-189`). Trying again works.
- A concurrent refresh may store an older key set over a newer one; the newer
  request's token is then refused although it is valid (`ValidTokensPass`).
- A checkout and a clear of the same cart may deadlock: the DELETE takes the rows in
  the order it finds them, Checkout by `created_at` (`cart.sql.go:101-125`,
  `order.sql.go:83`). PostgreSQL ends one.
- AddItem commits a row for a product that an admin deleted, or took off the menu,
  after its look (`cart.go:158`). Checkout refuses such a row.
- The internal endpoint confirms an order that was not paid (`handler/order.go:386`):
  it trusts the holder of the key.
- Two UpdateProduct at a time: the later one writes back columns the earlier one
  changed. Nothing in the repository promises otherwise.
- Orders change stock and total_sold without invalidating the product cache.
- ProductHandler never passes an offset (`handler/product.go:137`), so only the
  first page of products is reachable.
- An order whose owner never comes back is never expired: nothing runs by itself.

Also: the Snap page outlives its order (`payment.go:354` sets no
expiry); if it is paid after the order was cancelled, ConfirmOrderFromPayment
refuses (`order.go:707`) and nothing refunds the customer, which is why
`SuccessDecidesOrder` only asks that the order is not left PENDING. SUCCESS is final for the webhook (`payment.go:476`), so a refund
notification is never recorded although `payment.go:702` maps it; the refund
queries of `payment.sql` have no caller, nor is there the refund route of
`README.md:120`. A webhook statement that fails is answered with 200 like every
other, so Midtrans does not repeat the notification and the settlement is lost.

## Proofs

TLAPS proves, for every value of the constants that meets the assumptions, each
safety invariant, each action property and each refinement that a passing run
checks, and the safety half of each liveness property of payments and outbox.
`PROJECT.json` lists the theorems beside the properties. Four properties are proved
without a run of their own, because a checked one says as much: `CommitsAreSteps`
(`Serializable`), and `DeadAfterLastRetry`, `NeverSentAgain` and
`NotifiedWithinRetries` (`EachEventLives`). `OneActivePayment` is run where it
fails and proved where it holds.

| Module | Theorems | Inductive invariant |
|---|---|---|
| `OrdersProofs` | `TypeOK`, `StockConserved`, `SoldMatchesCompleted`, `OnePendingPerCartItem`, `OwnLines` of `ConcurrentSpec`; `Spec => ConcurrentSpec` | `IInv` |
| `OrderTxProofs` | `TxTypeOK`, `DecisionStillHolds`, `CheckoutsDoNotDeadlock`, `CommitsAreSteps`, `Serializable`, and with it the invariants of `Orders` | `TxInv`, `LocksInv` |
| `PaymentsProofs` | `PayTypeOK`, `ConfirmedWasPaid`, `FinalStaysFinal`, `PaySpec => ConcurrentSpec`, and with it the invariants of `Orders`; `SuccessIsInHand`, `PaidRowsAreInHand`, `SettlementIsInHand`, `OneActivePayment` | `PayInv`, `UpdatesAreNotFinal`, `OrdersArePlaced`, `RowsAreUsed`, `NoSecondPayment` |
| `OutboxProofs` | `TypeOK`, `OneWorkerPerEvent`, `DeadAfterLastRetry`, `NeverSentAgain`, `NotifiedWithinRetries`, `OnlyStopsStrand`, `EachEventLives` | `IInv`, `CountInv` |
| `CheckoutProofs` | `FirstUseLeavesCart`, `CartAsInOrders`; `NumbersConsecutive`, `NumberIsFree`, `DeadlocksSpanDays`; `PaidIsOrdered`, `OrdersThatFitPass` | `CartInv`; `NumbersInv`; `AmountsInv` |
| `ProductAdminProofs` | `NamesUnique`, `AttributesFitCategory`, `AnnouncedIfCreated`, `ShelfAsInOrders` | `AdminInv` |
| `ReadsProofs` | `StaleOnlyIfCrossed`, `ReadsAreRecent`; `ValidTokensPass`, `TrustIsRecent` | `CacheInv`; `KeysInv` |
| `ServicesProofs` | the six specifications of `MCServices` from its own; `ServicesTypeOK` | those of the parts |

### Assumptions

The theorems rest on the `ASSUME`s of the modelled modules, which TLC evaluates in
its runs. They say that the "no value" constants are no values, that bounds are
numbers, that sets of rows, orders and buyers are finite, and:

- `RowsAssumption`, `CreatedAtAssumption` (`OrderTx`): the rows of different
  tables are different rows, hence different locks, and no two rows of a table
  have one place in `ORDER BY created_at, id` (`id` is the primary key).
- `AmountsAssumption`: prices and stocks fit their column, and a cart has finitely
  many products.
- `KeysAssumption`: a fetch of the keys takes no longer than they are cached (10
  seconds, `jwt.go:51`, against 10 minutes).

Four theorems have a hypothesis of their own, each where the code fails without it:

- `OnlyPaidAreConfirmed`: Midtrans sends no challenged capture, as in the run.
- `FinalIsFinal`: webhooks are handled one at a time (`MCPaymentsOverwrite` shows two).
- `SettlementsAreInHand`: webhooks are handled one at a time, or Midtrans never sends
  "pending", which a slow webhook may write over a SUCCESS.
- `OneOpenPayment`: each kind of request is handled one at a time
  (`MCPaymentsDouble` shows two that open two payments).

`PaymentsInvariance`, `PaymentsAreOrders`, `SuccessesAreInHand` and
`PaidRowsAreCleared` hold for any number of requests and webhooks.

### Whole handlers: `Orders`

`ConcurrentSpec` differs from `Spec` in the two looks at rows that are not locked:
Checkout's first look, and AddItem's. `IInv` is the conjunction of `TypeOK`, `OverdueArePending`, `OwnLines`,
`OnePendingPerCartItem`, `StockConserved` and `SoldMatchesCompleted`. None is
inductive alone: that cancelling an overdue order keeps the stock balance needs
that overdue orders are PENDING (they hold stock); that a checkout keeps
`OnePendingPerCartItem` needs `OwnLines`, since Checkout looks only for pending
orders of its own user. The lemmas `QuantityOf*` say how `Quantity` behaves when
orders are added to, or removed from, a set or lines change elsewhere;
`CancelConserves` and `CheckoutConserves` are the balance of the two steps that
move stock, and each remaining action leaves the orders that hold stock and their
lines alone.

### Statements and locks: `OrderTx`

`TransactionsAreSerializable` is the theorem the others stand on: any number of
transactions, statement by statement, implement whole handlers, so that what is
proved of `ConcurrentSpec` holds of them (`TransactionsKeepInvariants`) and
`Payments` may use whole handlers.

The argument is that of two-phase locking. `Sound(t, tx)`, the part of `TxInv`
about one transaction, says what `t` may rely on: the rows it has handled are
locked by it and are as it found them (`RowsSound`, `ExpiredSound`,
`PlacedSound`), and what it has written to stock, plus what it has yet to
write, is what the whole handler writes (`MovedSound`, with `InRows` for the
units of the rows that remain); a clear has locked, and holds, the rows it deletes at
COMMIT (`ClearSound`). The proof has two halves. *Others*: a
step of another transaction, of time, or of a product or cart handler is
`Undisturbed` for `t`, because it changes only rows `t` has not locked, and what
is undisturbed stays sound (`SoundUndisturbed`). *Itself*: every statement
leads from a sound state to a sound one (`LockCartRowInv` ... `MoveLineInv`).
At COMMIT nothing is left to write, so the commit is `CheckoutTx`, or the
handler on one order, on the committed rows (`CommitCheckout`,
`CommitOneOrder`). This is where the re-reads under a lock matter: `NonePending`
survives until COMMIT because whoever adds a pending order with one of the
customer's rows must hold that row's lock; the status of an order, because its
row is locked.

`TxInv` also needs that an order that is not committed has an id of its own
(`FreshApart`) and that every order has a line (`OrdersHaveLines`), without
which an order with nothing to move would commit from another state.

`CheckoutsDoNotDeadlock` (theorem `CheckoutsNeedAnother`) is about circles of
checkouts that restore no expired order: any other circle has a transaction that
moves lines, or clears a cart, and those do deadlock, with each other and with
checkouts (a clear holds the second row of a cart and waits for the first, the
checkout of both has the first). It needs a second invariant, `LocksInv`: what a checkout
has locked comes before what it has yet to lock, cart rows and expired orders by
`created_at` and the number lock before products. In a least circle of waiting
checkouts, nobody waits for a product, since who holds one holds the number
lock; nobody then waits for the number lock, since its holder waits for
products only. So all wait for cart rows or all for expired orders, each for an
earlier row than the one whose lock it waits for does; without the one that waits
for the first row of all, the others still are a circle, and the circle was
not a least one (`NoCircleOfCheckouts`).

### Payments

`PaymentsAreOrders`: a request or webhook changes carts and orders only by steps
of `Orders`, whatever fails and wherever the server dies. `PayInv` follows the
money: what is reported as a success, waits in a webhook, or made an order
CONFIRMED is a payment that Midtrans took (`SuccessesAreTaken`,
`HooksHavePayments`, `ConfirmedWasTaken`, the last of orders that are not `Attested`); a row that is about to be created
belongs to one request (`CreatesAreFresh`) and was not paid before
(`RowsHaveSnap`), so its INSERT overwrites nothing. `Taken` includes challenged
captures if any are sent, so `PayInv` holds with them as well.

`SuccessIsInHand`, `PaidRowsAreInHand` and `SettlementIsInHand` are what the liveness
properties say without fairness: what remains to be done is in a webhook's or in
Midtrans' hands, unless a statement failed or the server died. Each is inductive with
one more fact beside `PayInv`:

- For a SUCCESS whose order is PENDING: a payment is for an order that was placed
  (`OrdersArePlaced`), so no later checkout makes an order PENDING under a payment
  that succeeded before, and only the webhook itself writes SUCCESS.
- For paid rows in carts: ids of cart rows are not given twice (`RowsAreUsed`;
  they are UUIDs), so what AddItem inserts afterwards is no row of a
  paid order, although it may be the same product; a confirmed order was PENDING and
  keeps its lines (`ConfirmedByHook`, `LinesStay`).
- For a settlement: a webhook's update does not undo what was recorded
  (`SerialUpdates`, the hypothesis's part of the invariant).

`OneActivePayment` needs `NoSecondPayment`: a request that has looked for an open
payment and found none still finds none until it inserts its own. It is inductive
because only another request, or a webhook that reopens a payment that failed, could
add one; the hypothesis excludes the former and, through `UpdatesAreNotFinal`, the
latter.

### Outbox

The invariant adds three facts to the properties: what a worker claims is
PROCESSING (`ClaimsAreProcessing`, without which a second worker could claim
it), the event it sends or marks is one of them (`CurrentIsClaimed`), and what is
known to be accepted is only waiting for its mark, or in no batch and not
claimable (`AnsweredIsDone`). `CurrentEvent` collects what holds of an event that
is about to be sent or marked; each action has a lemma.

`OutboxImplementsLives` shows for each action which step of `EventLife` the event it
is about takes, and that every other event keeps its stage. For that a worker without
a batch must hold no event (`IdleHoldsNothing`), and an event must be held by one
worker (`OneWorkerPerEvent`), or a step of one could change the stage that another
gives it. `Claim` is the one action that moves many events, each by one step of its own.
`EveryEventIsALife` states the same as `LifeSpec` of each event. `OnlyStopsStrand`
follows with it: an event that leaves a batch does so with its mark, or because
its worker stops. `NotifiedSeldom` counts along `EventLife` (`CountInv`): between
attempts customers were notified at most once per failed attempt, in an attempt and
after the one that ended it once more.

### Numbers and amounts

A checkout that has counted holds its day's lock, alone (`DateLockExclusive`), so
its count stays one less than its number (`CountIsNext`); gaps and duplicates are
then impossible. A checkout that another one of its day waits for has the day's
lock, and the one that waits has not (`AwaitedHasDate`): in a circle of one day each
checkout would both have it and not. For `PaidIsOrdered` no width
and no price matter: Snap refuses a gross amount that is not the sum of its
items, and the items are the stored lines. That Snap does so is an assumption
of the model (`SnapAccepts`, external).

`OrdersThatFitPass` is about the sums themselves: the total of the code wraps at
every line, `Worth` never does, and the theorem says that they are equal when the
latter fits. Both are folds over a set of lines, and the library's induction
theorems cannot be instantiated. So the proof argues by a least counterexample
(`LeastSubset`: of the subsets that lack a property some least one does), which
shows that a fold exists with its recursion (`FoldExists`), that the code's total and
the exact one are folds (`TotalIsFold`, `WorthIsFold`), and that no sum wraps on the
way to one that fits, since lines are never negative (`TotalIsWorth`).

### Product administration

Two transactions that have written are about different products and neither holds
the other's name (`WritesAreLocked`); a written name is free among the committed
rows (`WrittenNamesAreFree`). Both together give `NamesUnique` at the commit; the
check by `GetProductByNameCI` plays no part, the unique index does. For
`ShelfAsInOrders`, `UpdatesAreCurrent` says that what an UPDATE wrote is what it
makes of the row as it is committed now, although an UpdateProduct read an older one.

### Carts

An AddItem that has written its row locks the row's key, not only its id
(`RowsAreLocked`), so two inserts of one key exclude each other, and what it
wrote stays "its quantity on top of the committed row" (`Added`). A cart's
creation is either committed or this transaction's (`TxSound`). An AddItem that has
looked found the product on the menu, where it still is unless the request is marked
(`SeenOnMenu`): so a COMMIT that is not marked is the whole `AddItem` of `Orders`, and
one that is marked its transaction `AddItemTx`.

### Caches

Both refinements go by ages. An entry, and a value on its way to one,
was read at most a fill ago (`FillsAreRecent`), and the age of its version plus
the time it has left is at most the time to live plus a fill
(`EntriesAreRecent`); time adds to the one what it takes from the other. For
the keys, `VerifierIsRecent` relates a request's own fetch to the cache: the
cached set is its own or a newer one, unless it was overtaken.

### The services together

In `MCServices` the parts that do not run stand still, in a state that their
specifications allow. `ServicesAreComponents` proves it, part by part, so each theorem
about a component holds of the run, and `ServicesTypeOK` follows from the invariants
of the parts. The bound of a total in int32 comes from `WrapsInRange`.

### What is only model-checked

- Liveness: `TransactionsEnd`, `SettledOrStranded`, `SettlementIsRecorded`,
  `SuccessDecidesUntilCrash`, `PaidRowsLeaveCart`. They rest on fairness and on
  ENABLED, which the prover does not handle. The safety halves of all but the first
  are proved.
- The properties of the runs that expect a violation, which are false.

The proved modules, and those they use, have no RECURSIVE operator.

## Not modelled

The choice of attributes in a cart row and its normalised key, and pagination:
pure functions of one request. Registration: one call to Supabase and a bounded
wait for a trigger that may take any time, so no outcome is excluded. The
authentication middleware reads one row. The access token of Firebase is cached
and fetched under one mutex by one worker. Users, reports, configuration, logging
and routing: single statements or plumbing. HTTP clients, signatures and token
cryptography: library code and I/O. Refunds: the queries have no caller.

## Plan

Done: the models and runs above, a proof of every safety property the passing runs
check, and of the safety halves of liveness. What is left:

1. The scheduler, the refund route and a way to claim stranded PROCESSING events
   again, when the code gets them. `EventLife` then loses its `Lose`.
2. A condition on the status in the webhook's update would remove the hypotheses of
   `FinalIsFinal` and `SettlementsAreInHand`, a unique index on open payments one of
   `OneOpenPayment`.
3. Attributes and pages as pure operators against reference definitions.
