------------------------------- MODULE Orders -------------------------------
(***************************************************************************)
(* Carts, stock and orders of CafeTelkom, one action per handler that      *)
(* changes them: internal/service/cart.go, internal/service/order.go, the  *)
(* product status handlers of internal/service/product.go and the lazy     *)
(* expiry of internal/service/payment.go.  Every handler runs in one       *)
(* database transaction; here a transaction is one atomic step.  OrderTx   *)
(* splits the order transactions into their statements and is shown to     *)
(* implement ConcurrentSpec below.                                         *)
(*                                                                         *)
(* A cart row never changes its cart, product or attributes, so its id     *)
(* determines them (RowOf).  Prices, notes and table numbers are left out. *)
(***************************************************************************)
EXTENDS Integers, FiniteSets

CONSTANTS
  User,       \* customers
  NoUser,     \* the owner of an order row that does not exist yet
  Product,
  CartItem,   \* ids of cart_items rows; an id is never used twice
  OrderId,    \* ids of orders rows
  RowOf,      \* RowOf[i]: the cart's user, the product and the attributes key
  MaxQty,     \* bound on the quantity of one cart row
  InitStock   \* InitStock[p]: the stock p is created with

ASSUME NoUserAssumption == NoUser \notin User
ASSUME CartItemAssumption == IsFiniteSet(CartItem)
ASSUME OrderIdAssumption == IsFiniteSet(OrderId)
ASSUME RowAssumption ==
  \A i \in CartItem : RowOf[i].user \in User /\ RowOf[i].product \in Product
ASSUME QtyAssumption == MaxQty \in Nat
ASSUME StockAssumption == InitStock \in [Product -> Nat]

VARIABLES
  stock,      \* products.stock
  sold,       \* products.total_sold
  shelf,      \* products.status
  deleted,    \* products with a deleted_at
  cartQty,    \* cart_items.quantity; 0: there is no such row
  usedItems,  \* ids that were ever given to a cart row
  status,     \* orders.status; "none": there is no such row
  owner,      \* orders.user_id
  lines,      \* lines[o][i]: order_items.quantity of o for cart row i
  overdue     \* pending orders whose expires_at has passed

productVars == <<stock, sold, shelf, deleted>>
cartVars    == <<cartQty, usedItems>>
orderVars   == <<status, owner, lines, overdue>>
vars        == <<productVars, cartVars, orderVars>>

ProductStatus == {"available", "out_of_stock", "unavailable"}
OrderStatus   == {"PENDING", "CONFIRMED", "COMPLETED", "CANCELLED"}

TypeOK ==
  /\ stock \in [Product -> Nat]
  /\ sold \in [Product -> Nat]
  /\ shelf \in [Product -> ProductStatus]
  /\ deleted \in SUBSET Product
  /\ cartQty \in [CartItem -> 0..MaxQty]
  /\ usedItems \in SUBSET CartItem
  /\ status \in [OrderId -> OrderStatus \cup {"none"}]
  /\ owner \in [OrderId -> User \cup {NoUser}]
  /\ lines \in [OrderId -> [CartItem -> 0..MaxQty]]
  /\ overdue \in SUBSET OrderId

ProductOf(i) == RowOf[i].product

\* The single units of product p that the orders O carry in the lines L: the
\* n-th unit of the line of cart row i in order o is <<<<o, i>>, n>>.
Units(O, L, p) ==
  {x \in (O \X CartItem) \X (1..MaxQty) :
      x[2] <= L[x[1][1]][x[1][2]] /\ ProductOf(x[1][2]) = p}

\* SUM(quantity) of the order_items of the orders O for product p.
Quantity(O, L, p) == Cardinality(Units(O, L, p))

OnSale(p) == p \notin deleted /\ shelf[p] = "available"

WithStatus(S) == {o \in OrderId : status[o] \in S}

Init ==
  /\ stock = InitStock
  /\ sold = [p \in Product |-> 0]
  /\ shelf = [p \in Product |-> "available"]
  /\ deleted = {}
  /\ cartQty = [i \in CartItem |-> 0]
  /\ usedItems = {}
  /\ status = [o \in OrderId |-> "none"]
  /\ owner = [o \in OrderId |-> NoUser]
  /\ lines = [o \in OrderId |-> [i \in CartItem |-> 0]]
  /\ overdue = {}

-----------------------------------------------------------------------------
(***************************************************************************)
(* Product administration: only status and deleted_at matter to orders; no *)
(* handler writes stock.                                                   *)
(***************************************************************************)

\* UpdateProductStatus, and UpdateProduct as far as orders can tell.
UpdateProductStatus(p, s) ==
  /\ p \notin deleted
  /\ shelf' = [shelf EXCEPT ![p] = s]
  /\ UNCHANGED <<stock, sold, deleted, cartVars, orderVars>>

DeleteProduct(p) ==
  /\ p \notin deleted
  /\ deleted' = deleted \cup {p}
  /\ shelf' = [shelf EXCEPT ![p] = "unavailable"]
  /\ UNCHANGED <<stock, sold, cartVars, orderVars>>

RestoreProduct(p) ==
  /\ p \in deleted
  /\ deleted' = deleted \ {p}
  /\ shelf' = [shelf EXCEPT ![p] = "available"]
  /\ UNCHANGED <<stock, sold, cartVars, orderVars>>

-----------------------------------------------------------------------------
(***************************************************************************)
(* The cart.                                                               *)
(***************************************************************************)

Live(i) == cartQty[i] > 0

\* The transaction of AddItem but for its look at the product, which is not
\* locked: AddOrIncrementCartItem gives the quantity to the row with the same
\* cart, product and attributes, or inserts a row with a fresh id.
AddItemTx(i, n) ==
  /\ \/ Live(i)
     \/ /\ i \notin usedItems
        /\ \A j \in CartItem : Live(j) => RowOf[j] # RowOf[i]
  /\ cartQty[i] + n <= MaxQty
  /\ cartQty' = [cartQty EXCEPT ![i] = cartQty[i] + n]
  /\ usedItems' = usedItems \cup {i}
  /\ UNCHANGED <<productVars, orderVars>>

AddItem(i, n) == OnSale(ProductOf(i)) /\ AddItemTx(i, n)

UpdateItemQuantity(i, n) ==
  /\ Live(i)
  /\ cartQty' = [cartQty EXCEPT ![i] = n]
  /\ UNCHANGED <<productVars, usedItems, orderVars>>

\* The rows I are deleted; ids that match no row are ignored.
RemoveRows(I) ==
  /\ cartQty' = [i \in CartItem |-> IF i \in I THEN 0 ELSE cartQty[i]]
  /\ UNCHANGED <<productVars, usedItems, orderVars>>

DeleteItem(i) == Live(i) /\ RemoveRows({i})

ClearItems(u) == RemoveRows({i \in CartItem : RowOf[i].user = u})

ClearItemsByIDs(I) == RemoveRows(I)

-----------------------------------------------------------------------------
(***************************************************************************)
(* Orders.                                                                 *)
(***************************************************************************)

\* ListExpiredPendingOrdersByCartItemIDs.
ExpiredOrders(u, I) ==
  {o \in overdue : owner[o] = u /\ \E i \in I : lines[o][i] > 0}

\* The rows ListCheckoutCartItemsForUser returns are all of I.
OwnRowsAnyUser(u, I) == \A i \in I : Live(i)   \* faulty: no c.user_id = $1
OwnRows(u, I) == \A i \in I : Live(i) /\ RowOf[i].user = u

\* CountPendingOrderItemsByCartItemIDs is 0 once the orders in expired are
\* cancelled.  The faulty variant is content with one row that is free.
NonePendingAny(u, I, expired) ==
  \A o \in OrderId \ expired :
    status[o] = "PENDING" /\ owner[o] = u => \E i \in I : lines[o][i] = 0
NonePending(u, I, expired) ==
  \A o \in OrderId \ expired :
    status[o] = "PENDING" /\ owner[o] = u => \A i \in I : lines[o][i] = 0

\* LockProductByIDForUpdate and DecrementProductStock find enough stock.
Takes1TooMany(quantity, inStock) == quantity <= inStock + 1   \* faulty
CanTake(quantity, inStock) == quantity <= inStock

\* The checks Checkout makes on the rows it has just read, before it cancels
\* expired orders in effect: their stock is the stock before the restore.
FirstLook(I) ==
  \A i \in I : OnSale(ProductOf(i)) /\ cartQty[i] <= stock[ProductOf(i)]

\* The transaction of Checkout but for FirstLook: expired orders that hold
\* one of the rows are cancelled, then the rows are ordered.
CheckoutTx(u, I) ==
  LET expired == ExpiredOrders(u, I)
  IN
  /\ OwnRows(u, I)
  /\ NonePending(u, I, expired)
  /\ \A i \in I : OnSale(ProductOf(i))
  /\ \E o \in OrderId :
        /\ status[o] = "none"
        /\ lines' = [lines EXCEPT
                       ![o] = [i \in CartItem |-> IF i \in I THEN cartQty[i] ELSE 0]]
        /\ \A p \in Product :
              CanTake(Quantity({o}, lines', p), stock[p] + Quantity(expired, lines, p))
        /\ stock' = [p \in Product |-> stock[p] + Quantity(expired, lines, p)
                                                - Quantity({o}, lines', p)]
        /\ status' = [r \in OrderId |-> IF r = o THEN "PENDING"
                                        ELSE IF r \in expired THEN "CANCELLED"
                                        ELSE status[r]]
        /\ owner' = [owner EXCEPT ![o] = u]
  /\ overdue' = overdue \ expired
  /\ UNCHANGED <<sold, shelf, deleted, cartVars>>

Checkout(u, I) == FirstLook(I) /\ CheckoutTx(u, I)

\* The order is cancelled and every line's quantity returned to stock.
CancelAndRestock(o) ==
  /\ stock' = [p \in Product |-> stock[p] + Quantity({o}, lines, p)]
  /\ status' = [status EXCEPT ![o] = "CANCELLED"]
  /\ overdue' = overdue \ {o}
  /\ UNCHANGED <<sold, shelf, deleted, cartVars, owner, lines>>

\* CancelOrder, by the order's owner or an admin.  Faulty: cancels twice.
CancelOrderAnyStatus(o) == status[o] # "none" /\ CancelAndRestock(o)
CancelOrder(o) == status[o] = "PENDING" /\ CancelAndRestock(o)

\* cancelExpiredOrder: InitiatePayment found the order past its expires_at.
CancelExpiredOrder(o) == o \in overdue /\ CancelAndRestock(o)

\* ConfirmOrderFromPayment; on a CONFIRMED order it changes nothing.
ConfirmOrder(o) ==
  /\ status[o] = "PENDING"
  /\ status' = [status EXCEPT ![o] = "CONFIRMED"]
  /\ overdue' = overdue \ {o}
  /\ UNCHANGED <<productVars, cartVars, owner, lines>>

\* The order is done: its quantities count as sold.
RecordSale(o) ==
  /\ status' = [status EXCEPT ![o] = "COMPLETED"]
  /\ sold' = [p \in Product |-> sold[p] + Quantity({o}, lines, p)]
  /\ UNCHANGED <<stock, shelf, deleted, cartVars, owner, lines, overdue>>

\* UpdateOrderStatus, whose only legal target is COMPLETED.  Faulty: counts
\* a completed order again.
CompleteOrderAgain(o) == status[o] \in {"CONFIRMED", "COMPLETED"} /\ RecordSale(o)
CompleteOrder(o) == status[o] = "CONFIRMED" /\ RecordSale(o)

\* Fifteen minutes pass without a payment.
Expire(o) ==
  /\ status[o] = "PENDING" /\ o \notin overdue
  /\ overdue' = overdue \cup {o}
  /\ UNCHANGED <<productVars, cartVars, status, owner, lines>>

-----------------------------------------------------------------------------
ProductStep ==
  \E p \in Product :
    \/ \E s \in ProductStatus : UpdateProductStatus(p, s)
    \/ DeleteProduct(p)
    \/ RestoreProduct(p)

\* A row of a cart that is there changes, or goes.
RowStep ==
  \E i \in CartItem :
    \/ \E n \in 1..MaxQty : UpdateItemQuantity(i, n)
    \/ DeleteItem(i)

ClearStep ==
  \/ \E u \in User : ClearItems(u)
  \/ \E I \in (SUBSET CartItem) \ {{}} : ClearItemsByIDs(I)

CartStep ==
  \/ \E i \in CartItem, n \in 1..MaxQty : AddItemTx(i, n)
  \/ RowStep
  \/ ClearStep

OrderStep ==
  \E o \in OrderId :
    \/ CancelOrder(o)
    \/ CancelExpiredOrder(o)
    \/ ConfirmOrder(o)
    \/ CompleteOrder(o)
    \/ Expire(o)

\* The handlers run one at a time.
Next ==
  \/ ProductStep
  \/ \E i \in CartItem, n \in 1..MaxQty : AddItem(i, n)
  \/ RowStep
  \/ ClearStep
  \/ OrderStep
  \/ \E u \in User, I \in (SUBSET CartItem) \ {{}} : Checkout(u, I)

Spec == Init /\ [][Next]_vars

\* The handlers interleave: FirstLook, and AddItem's look at the product, may
\* have seen older rows, so nothing of them is left when the transaction
\* commits.
ConcurrentNext ==
  \/ ProductStep
  \/ CartStep
  \/ OrderStep
  \/ \E u \in User, I \in (SUBSET CartItem) \ {{}} : CheckoutTx(u, I)

ConcurrentSpec == Init /\ [][ConcurrentNext]_vars

-----------------------------------------------------------------------------
(***************************************************************************)
(* Properties.                                                             *)
(***************************************************************************)

\* Orders that hold stock: it left the shelf and was not given back.
Holding == WithStatus({"PENDING", "CONFIRMED", "COMPLETED"})

\* Stock is neither lost nor created: what a product was created with is its
\* stock plus what orders hold that are not cancelled (Checkout decrements,
\* CancelOrder, cancelExpiredPendingOrders and cancelExpiredOrder restore).
StockConserved ==
  \A p \in Product : stock[p] + Quantity(Holding, lines, p) = InitStock[p]

\* total_sold counts the quantities of completed orders, each once.
SoldMatchesCompleted ==
  \A p \in Product : sold[p] = Quantity(WithStatus({"COMPLETED"}), lines, p)

\* A cart row is in at most one PENDING order (CountPendingOrderItems in
\* Checkout), although its quantity stays in the cart until it is paid.
OnePendingPerCartItem ==
  \A o1, o2 \in WithStatus({"PENDING"}), i \in CartItem :
    lines[o1][i] > 0 /\ lines[o2][i] > 0 => o1 = o2

\* An order has only rows of its owner's cart.  OnePendingPerCartItem rests
\* on it: Checkout looks for pending orders of its own user only.
OwnLines ==
  \A o \in OrderId, i \in CartItem :
    lines[o][i] > 0 => status[o] # "none" /\ owner[o] = RowOf[i].user

\* Only a pending order has an expires_at that can have passed.
OverdueArePending == \A o \in overdue : status[o] = "PENDING"

\* A customer whose order expired and whose cart rows are as they were can
\* check them out again, as long as the products are on sale: Checkout
\* cancels the expired order first, which gives their stock back.
RetryAfterExpiry ==
  \A o \in overdue :
    LET I == {i \in CartItem : lines[o][i] > 0}
    IN  (\A i \in I : cartQty[i] = lines[o][i] /\ OnSale(ProductOf(i)))
          => FirstLook(I)
=============================================================================
