------------------------------ MODULE OrderTx ------------------------------
(***************************************************************************)
(* The order transactions statement by statement.  Order service and        *)
(* payment service run them concurrently at READ COMMITTED: a statement     *)
(* reads what is committed (and the transaction's own writes), SELECT FOR   *)
(* UPDATE and UPDATE wait for the row's lock and then see its newest        *)
(* version, writes are visible to others and locks are released at COMMIT.  *)
(* A transaction that fails at any statement is rolled back (WithTx), and   *)
(* PostgreSQL breaks a deadlock by failing one of its transactions.         *)
(*                                                                         *)
(* The variables of Orders are the committed rows; what a transaction wrote *)
(* stays in txn[t] until it commits.  ClearItems and ClearItemsByIDs lock    *)
(* their rows one by one as well; the handlers that change one cart row or  *)
(* one product are single steps that wait for it.                           *)
(***************************************************************************)
EXTENDS Orders, SequencesExt

CONSTANTS
  Tx,          \* the transactions that run at a time
  NoTx,        \* the holder of a free lock
  NoOrder,
  DateLock,    \* the advisory lock of the day's order numbers
  CreatedAt,   \* the order of (created_at, id) among cart rows and among orders
  Admin,       \* bound: the statuses that admins give to products
  Started      \* bound: the kinds of transactions that run beside Checkout

ASSUME TxAssumption == NoTx \notin Tx /\ NoOrder \notin OrderId

\* Rows of different tables are different, and no two rows of one table have
\* the same created_at and the same id.
ASSUME RowsAssumption ==
  /\ CartItem \cap OrderId = {} /\ CartItem \cap Product = {} /\ OrderId \cap Product = {}
  /\ DateLock \notin CartItem \cup OrderId \cup Product

ASSUME CreatedAtAssumption ==
  /\ \A r \in CartItem \cup OrderId : CreatedAt[r] \in Nat
  /\ \A a, b \in CartItem : CreatedAt[a] = CreatedAt[b] => a = b
  /\ \A a, b \in OrderId : CreatedAt[a] = CreatedAt[b] => a = b

Kind == {"checkout", "cancel", "expire", "confirm", "complete", "clear"}

ASSUME StartedAssumption == Started \subseteq Kind

VARIABLES
  txn,         \* txn[t]: the transaction t runs and what it wrote so far
  lock         \* lock[r]: the transaction that holds the lock of row r

txVars == <<vars, txn, lock>>

Row == CartItem \cup OrderId \cup Product \cup {DateLock}

Idle ==
  [pc |-> "idle", kind |-> "none", user |-> NoUser,
   items |-> <<>>,      \* cart rows to check out, or deleted so far
   order |-> NoOrder,   \* the order created, cancelled, confirmed, completed
   todo |-> <<>>,       \* cart rows still to lock or delete, or lines to move
   expd |-> <<>>,       \* expired orders Checkout has still to cancel
   seen |-> [p \in Product |-> 0],   \* what Checkout's first read found in stock
   moved |-> [p \in Product |-> 0],  \* written to stock, or to total_sold
   ended |-> {}]        \* orders written CANCELLED

TxState ==
  [pc : {"idle", "rows", "expired", "restock", "number", "take", "lock", "move", "clear",
         "commit"},
   kind : Kind \cup {"none"}, user : User \cup {NoUser}, items : Seq(CartItem),
   order : OrderId \cup {NoOrder}, todo : Seq(CartItem), expd : Seq(OrderId),
   seen : [Product -> Nat], moved : [Product -> Int], ended : SUBSET OrderId]

TxTypeOK ==
  /\ TypeOK
  /\ lock \in [Row -> Tx \cup {NoTx}]
  /\ txn \in [Tx -> TxState]
  /\ \A t \in Tx, p \in Product : stock[p] + txn[t].moved[p] >= 0

TxInit ==
  /\ Init
  /\ txn = [t \in Tx |-> Idle]
  /\ lock = [r \in Row |-> NoTx]

-----------------------------------------------------------------------------
\* Sets of rows in the order a statement returns them.
AnyOrder(S) == SetToSeqs(S)
Sorted(S) ==
  {s \in AnyOrder(S) : \A j, k \in DOMAIN s : j < k => CreatedAt[s[j]] < CreatedAt[s[k]]}

ItemsOf(t) == ToSet(txn[t].items)

\* The cart rows that the lines of o name.
LinesOf(o) == {i \in CartItem : lines[o][i] > 0}

\* t gets the lock of r, unless another transaction has it.
Acquire(t, r) ==
  /\ lock[r] \in {t, NoTx}
  /\ lock' = [lock EXCEPT ![r] = t]

Released(t) == [r \in Row |-> IF lock[r] = t THEN NoTx ELSE lock[r]]

\* ROLLBACK: nothing t wrote remains.
Rollback(t) ==
  /\ txn' = [txn EXCEPT ![t] = Idle]
  /\ lock' = Released(t)
  /\ UNCHANGED vars

\* The next line is done; after the last one t goes on at next.
NextLine(t, here, next) == IF Len(txn[t].todo) = 1 THEN next ELSE here

-----------------------------------------------------------------------------
(***************************************************************************)
(* Checkout.                                                               *)
(***************************************************************************)

\* BEGIN, and the snapshot of ListCheckoutCartItemsForUser: the stock of the
\* products on sale as it is now.
BeginCheckout(t, u, items) ==
  /\ txn[t].pc = "idle"
  /\ \E todo \in Sorted(ToSet(items)) :
       txn' = [txn EXCEPT ![t] =
         [Idle EXCEPT !.pc = "rows", !.kind = "checkout", !.user = u, !.items = items,
            !.todo = todo,
            !.seen = [p \in Product |-> IF OnSale(p) THEN stock[p] ELSE 0]]]
  /\ UNCHANGED <<vars, lock>>

\* FOR UPDATE OF ci, row by row; a row that is gone or not the user's is not
\* returned and Checkout fails.
LockCartRow(t) ==
  /\ txn[t].pc = "rows" /\ txn[t].todo # <<>>
  /\ LET i == Head(txn[t].todo)
     IN  IF OwnRows(txn[t].user, {i})
         THEN /\ Acquire(t, i)
              /\ txn' = [txn EXCEPT ![t].todo = Tail(@)]
              /\ UNCHANGED vars
         ELSE lock[i] \in {t, NoTx} /\ Rollback(t)

\* ListExpiredPendingOrdersByCartItemIDs: a list that is not locked yet.
ListExpired(t) ==
  /\ txn[t].pc = "rows" /\ txn[t].todo = <<>>
  /\ \E expd \in Sorted(ExpiredOrders(txn[t].user, ItemsOf(t))) :
       txn' = [txn EXCEPT ![t].pc = "expired", ![t].expd = expd]
  /\ UNCHANGED <<vars, lock>>

\* cancelExpiredPendingOrders locks the next order and looks at it again: it
\* may have been cancelled or paid since it was listed.
StillListed(o) == TRUE   \* faulty: trusts the list
StillExpired(o) == status[o] = "PENDING" /\ o \in overdue

LockExpiredOrder(t) ==
  /\ txn[t].pc = "expired" /\ txn[t].expd # <<>>
  /\ LET o == Head(txn[t].expd)
     IN  /\ Acquire(t, o)
         /\ IF StillExpired(o)
            THEN \E todo \in AnyOrder(LinesOf(o)) :
                   txn' = [txn EXCEPT ![t].pc = "restock", ![t].order = o, ![t].todo = todo]
            ELSE txn' = [txn EXCEPT ![t].expd = Tail(@)]
  /\ UNCHANGED vars

\* LockProductByIDForUpdate and IncrementProductStock for one line; after the
\* last line UpdateOrderStatus writes CANCELLED.
RestockExpired(t) ==
  /\ txn[t].pc = "restock"
  /\ LET o == txn[t].order
         i == Head(txn[t].todo)
         last == Len(txn[t].todo) = 1
     IN  /\ Acquire(t, ProductOf(i))
         /\ txn' = [txn EXCEPT
              ![t].moved[ProductOf(i)] = @ + lines[o][i],
              ![t].todo = Tail(@),
              ![t].pc = NextLine(t, "restock", "expired"),
              ![t].ended = IF last THEN @ \cup {o} ELSE @,
              ![t].expd = IF last THEN Tail(@) ELSE @]
  /\ UNCHANGED vars

\* CountPendingOrderItemsByCartItemIDs must be 0, and the rows of the first
\* read must pass.
FirstLookPasses(t) ==
  \A i \in ItemsOf(t) : cartQty[i] <= txn[t].seen[ProductOf(i)]

RowsAreFree(t) ==
  /\ NonePending(txn[t].user, ItemsOf(t), txn[t].ended)
  /\ FirstLookPasses(t)

CountPending(t) ==
  /\ txn[t].pc = "expired" /\ txn[t].expd = <<>>
  /\ IF RowsAreFree(t)
     THEN /\ txn' = [txn EXCEPT ![t].pc = "number"]
          /\ UNCHANGED <<vars, lock>>
     ELSE Rollback(t)

\* The day's advisory lock, then CreateOrder under a fresh id.  Faulty: the
\* number is taken without the lock.
NoNumberLock(t) == UNCHANGED lock
NumberLock(t) == Acquire(t, DateLock)

FreshIds == {o \in WithStatus({"none"}) : \A t \in Tx : txn[t].order # o}

CreateOrder(t) ==
  /\ txn[t].pc = "number"
  /\ IF FreshIds # {}
     THEN /\ NumberLock(t)
          /\ \E o \in FreshIds :
               txn' = [txn EXCEPT ![t].pc = "take", ![t].order = o, ![t].todo = txn[t].items]
          /\ UNCHANGED vars
     ELSE Rollback(t)   \* bound: the ids of OrderId are used up

\* LockProductByIDForUpdate, the checks on the locked row, CreateOrderItem and
\* DecrementProductStock, for the rows in the order the client sent them.
FirstReadTrusted(t, i) ==   \* faulty: the first read decides
  CanTake(cartQty[i], txn[t].seen[ProductOf(i)])
LockedRowPasses(t, i) ==
  /\ OnSale(ProductOf(i))
  /\ CanTake(cartQty[i], stock[ProductOf(i)] + txn[t].moved[ProductOf(i)])

TakeFromStock(t) ==
  /\ txn[t].pc = "take"
  /\ LET i == Head(txn[t].todo)
         p == ProductOf(i)
     IN  IF LockedRowPasses(t, i)
         THEN /\ Acquire(t, p)
              /\ txn' = [txn EXCEPT ![t].moved[p] = @ - cartQty[i],
                                    ![t].todo = Tail(@),
                                    ![t].pc = NextLine(t, "take", "commit")]
              /\ UNCHANGED vars
         ELSE lock[p] \in {t, NoTx} /\ Rollback(t)

-----------------------------------------------------------------------------
(***************************************************************************)
(* The transactions on one order: CancelOrder, cancelExpiredOrder,         *)
(* ConfirmOrderFromPayment and UpdateOrderStatus.                          *)
(***************************************************************************)

Begin(t, kind, o) ==
  /\ txn[t].pc = "idle"
  /\ status[o] # "none"
  /\ txn' = [txn EXCEPT ![t] = [Idle EXCEPT !.pc = "lock", !.kind = kind, !.order = o]]
  /\ UNCHANGED <<vars, lock>>

\* What the handler asks of the locked order row.
Allows(kind, o) ==
  \/ kind \in {"cancel", "confirm"} /\ status[o] = "PENDING"
  \/ kind = "expire" /\ StillExpired(o)
  \/ kind = "complete" /\ status[o] = "CONFIRMED"

\* LockOrderByIDForUpdate; the transaction ends here if the status is not the
\* one it needs.  cancel, expire and complete go on to the order's lines.
LockOrder(t) ==
  /\ txn[t].pc = "lock"
  /\ LET o == txn[t].order
         kind == txn[t].kind
     IN  IF Allows(kind, o)
         THEN /\ Acquire(t, o)
              /\ IF kind = "confirm"
                 THEN txn' = [txn EXCEPT ![t].pc = "commit"]
                 ELSE \E todo \in AnyOrder(LinesOf(o)) :
                        txn' = [txn EXCEPT ![t].pc = "move", ![t].todo = todo]
              /\ UNCHANGED vars
         ELSE lock[o] \in {t, NoTx} /\ Rollback(t)

\* The product of one line is locked and its stock, or for complete its
\* total_sold, incremented.
MoveLine(t) ==
  /\ txn[t].pc = "move"
  /\ LET i == Head(txn[t].todo)
         p == ProductOf(i)
     IN  /\ Acquire(t, p)
         /\ txn' = [txn EXCEPT ![t].moved[p] = @ + lines[txn[t].order][i],
                               ![t].todo = Tail(@),
                               ![t].pc = NextLine(t, "move", "commit")]
  /\ UNCHANGED vars

-----------------------------------------------------------------------------
(***************************************************************************)
(* ClearItems and ClearItemsByIDs.                                         *)
(***************************************************************************)

\* The DELETE finds the rows of I that are committed as it starts, in the order
\* in which it scans them.
BeginClear(t, I) ==
  /\ txn[t].pc = "idle"
  /\ \E todo \in AnyOrder({i \in I : Live(i)}) :
       txn' = [txn EXCEPT ![t] = [Idle EXCEPT !.pc = "clear", !.kind = "clear", !.todo = todo]]
  /\ UNCHANGED <<vars, lock>>

\* It deletes the next row, or waits for the transaction that has its lock; a
\* row that is gone by then is skipped.
DeleteCartRow(t) ==
  /\ txn[t].pc = "clear" /\ txn[t].todo # <<>>
  /\ LET i == Head(txn[t].todo)
     IN  IF Live(i)
         THEN /\ Acquire(t, i)
              /\ txn' = [txn EXCEPT ![t].items = Append(@, i), ![t].todo = Tail(@)]
         ELSE /\ lock[i] \in {t, NoTx}
              /\ txn' = [txn EXCEPT ![t].todo = Tail(@)]
              /\ UNCHANGED lock
  /\ UNCHANGED vars

CommitClear(t) ==
  /\ txn[t].pc = "clear" /\ txn[t].todo = <<>>
  /\ ClearItemsByIDs(ItemsOf(t))
  /\ txn' = [txn EXCEPT ![t] = Idle]
  /\ lock' = Released(t)

-----------------------------------------------------------------------------
(***************************************************************************)
(* COMMIT, failures and the rest of the system.                            *)
(***************************************************************************)

\* The status t has written for order o.
Written(t, o) ==
  LET kind == txn[t].kind
  IN  IF o \in txn[t].ended THEN "CANCELLED"
      ELSE IF o # txn[t].order THEN status[o]
      ELSE CASE kind = "checkout" -> "PENDING"
             [] kind \in {"cancel", "expire"} -> "CANCELLED"
             [] kind = "confirm" -> "CONFIRMED"
             [] kind = "complete" -> "COMPLETED"

Plus(f, g) == [p \in Product |-> f[p] + g[p]]

Commit(t) ==
  LET o == txn[t].order
      kind == txn[t].kind
  IN
  /\ txn[t].pc = "commit"
  /\ status' = [r \in OrderId |-> Written(t, r)]
  /\ overdue' = {r \in overdue : Written(t, r) = "PENDING"}
  /\ IF kind = "complete"
     THEN sold' = Plus(sold, txn[t].moved) /\ UNCHANGED stock
     ELSE stock' = Plus(stock, txn[t].moved) /\ UNCHANGED sold
  /\ IF kind = "checkout"
     THEN /\ owner' = [owner EXCEPT ![o] = txn[t].user]
          /\ lines' = [lines EXCEPT ![o] =
               [i \in CartItem |-> IF i \in ItemsOf(t) THEN cartQty[i] ELSE 0]]
     ELSE UNCHANGED <<owner, lines>>
  /\ txn' = [txn EXCEPT ![t] = Idle]
  /\ lock' = Released(t)
  /\ UNCHANGED <<shelf, deleted, cartVars>>

\* A statement fails, the request is cancelled or the server dies.
Fail(t) == txn[t].pc # "idle" /\ Rollback(t)

\* The row that t's next statement locks.
Wants(t) ==
  CASE txn[t].pc \in {"rows", "clear"} /\ txn[t].todo # <<>> -> {Head(txn[t].todo)}
    [] txn[t].pc = "expired" /\ txn[t].expd # <<>> -> {Head(txn[t].expd)}
    [] txn[t].pc \in {"restock", "take", "move"} -> {ProductOf(Head(txn[t].todo))}
    [] txn[t].pc = "number" -> {DateLock}
    [] txn[t].pc = "lock" -> {txn[t].order}
    [] OTHER -> {}

WaitsFor(t) == {lock[r] : r \in Wants(t)} \ {NoTx, t}

\* T are transactions each of which waits for one of T, and for no fewer.
Circular(T) == T # {} /\ \A t \in T : WaitsFor(t) \cap T # {}
Cycle(T) == Circular(T) /\ \A S \in SUBSET T : Circular(S) => S = T

\* t has locked, or is about to lock, the products of an order that exists.
MovesLines(t) ==
  \/ txn[t].kind \in {"cancel", "expire", "complete"}
  \/ txn[t].pc = "restock"
  \/ txn[t].ended # {}

ClearsCart(t) == txn[t].kind = "clear"

\* PostgreSQL's deadlock detector fails one transaction of a cycle.  Faulty:
\* there is none.
NeverDeadlocked(t) == FALSE
Deadlocked(t) == \E T \in SUBSET Tx : t \in T /\ Cycle(T)

BreakDeadlock(t) == Deadlocked(t) /\ Rollback(t)

\* The next statement of the transaction that t runs.
Statement(t) ==
  \/ LockCartRow(t)
  \/ ListExpired(t)
  \/ LockExpiredOrder(t)
  \/ RestockExpired(t)
  \/ CountPending(t)
  \/ CreateOrder(t)
  \/ TakeFromStock(t)
  \/ LockOrder(t)
  \/ MoveLine(t)
  \/ DeleteCartRow(t)
  \/ CommitClear(t)
  \/ Commit(t)

\* The handlers of one product or one cart row wait until its lock is free; the
\* foreign key of a new cart row waits for its product's lock as well.  They
\* are single steps: nobody sees a new row, and after an old one they lock only
\* the row of carts, whose holders wait for nothing but other rows of carts.  So
\* no circle of waits goes through one of them.
Unlocked(r) == lock[r] = NoTx

ProductHandler ==
  /\ ProductStep
  /\ \A p \in Product :
       <<shelf[p], p \in deleted>>' # <<shelf[p], p \in deleted>>
         => Unlocked(p) /\ shelf'[p] \in Admin
  /\ UNCHANGED <<txn, lock>>

CartHandler ==
  /\ \/ \E i \in CartItem, n \in 1..MaxQty : AddItemTx(i, n)
     \/ RowStep
  /\ \A i \in CartItem :
       /\ cartQty'[i] # cartQty[i] => Unlocked(i)
       /\ i \in usedItems' \ usedItems => Unlocked(ProductOf(i))
  /\ UNCHANGED <<txn, lock>>

TimePasses ==
  /\ \E o \in OrderId : Expire(o)
  /\ UNCHANGED <<txn, lock>>

Start(t) ==
  \/ \E u \in User, I \in (SUBSET CartItem) \ {{}} :
       \E items \in AnyOrder(I) : BeginCheckout(t, u, items)
  \/ \E kind \in Started \ {"checkout", "clear"}, o \in OrderId : Begin(t, kind, o)
  \/ "clear" \in Started /\ \E I \in (SUBSET CartItem) \ {{}} : BeginClear(t, I)

TxNext ==
  \/ \E t \in Tx : Start(t) \/ Statement(t) \/ Fail(t) \/ BreakDeadlock(t)
  \/ ProductHandler
  \/ CartHandler
  \/ TimePasses

\* A started transaction goes on: the database grants a lock in the order it
\* was asked for, so a transaction whose lock is free again and again gets it,
\* and it finds every deadlock.
Fairness == \A t \in Tx : SF_txVars(Statement(t)) /\ WF_txVars(BreakDeadlock(t))

TxSpec == TxInit /\ [][TxNext]_txVars

FairTxSpec == TxSpec /\ Fairness

-----------------------------------------------------------------------------
(***************************************************************************)
(* Properties.                                                             *)
(***************************************************************************)

\* Interleaved, the transactions do to the committed rows only what whole
\* handlers do: every COMMIT is a step of Orders, and nothing else changes
\* them.  What is proved of ConcurrentSpec holds of the transactions.
Serializable == ConcurrentSpec

\* The same of transactions that find carts full and orders as they are.
CommitsAreSteps == [][ConcurrentNext]_vars

\* Every transaction ends: none waits for ever, whatever locks the others
\* take (they are taken in no common order).
TransactionsEnd == \A t \in Tx : txn[t].pc # "idle" ~> txn[t].pc = "idle"

\* Checkouts of one day alone cannot deadlock (OrderNumbers has several days),
\* although each locks its products in the order of its client's request: cart
\* rows are locked in the order of their creation, and the order-number lock
\* comes before the products.  Every deadlock has a transaction that locks rows
\* in an order of its own: it moves the lines of an order, because it cancels or
\* completes one or checks rows out again whose order expired, or it clears a
\* cart, which deletes the rows as the DELETE finds them.
CheckoutsDoNotDeadlock ==
  \A T \in SUBSET Tx : Cycle(T) => \E t \in T : MovesLines(t) \/ ClearsCart(t)

\* A transaction never cancels, confirms or completes an order that another
\* one decided meanwhile: what it is about to write follows from the status
\* that is still committed.
DecisionStillHolds ==
  \A t \in Tx :
    /\ txn[t].pc \in {"move", "commit"} /\ txn[t].kind # "checkout"
         => Allows(txn[t].kind, txn[t].order)
    /\ \A o \in txn[t].ended : status[o] = "PENDING" /\ o \in overdue
=============================================================================
