------------------------------- MODULE CartTx -------------------------------
(***************************************************************************)
(* The cart handlers of internal/service/cart.go statement by statement at *)
(* READ COMMITTED, for requests of one or several customers at a time, and *)
(* for payments that clear the rows they paid.  AddItem looks at the       *)
(* product, which it does not lock, and creates the cart of a customer who *)
(* has none.  Admins take products off the menu and put them back.         *)
(*                                                                         *)
(* A statement sees what is committed; a write waits for a transaction     *)
(* that wrote the same row, or inserted the same key into a unique index.  *)
(***************************************************************************)
EXTENDS Integers, FiniteSets

CONSTANTS
  Customer,
  NoCustomer,
  ItemId,       \* ids of cart_items rows; an id is never used twice
  ItemOf,       \* ItemOf[i]: the cart's user, the product and the attributes key
  MaxItemQty,   \* bound on the quantity of one row
  CartRequest,  \* requests that run at a time
  Asked,        \* bound: the quantities that requests ask for
  MenuAsks      \* bound: products, each with what admins make of it

Reference == {ItemOf[i] : i \in ItemId}

OfferedProduct == {ItemOf[i].product : i \in ItemId}

\* products.status, and "deleted" for a product with a deleted_at.
MenuStatus == {"available", "out_of_stock", "unavailable", "deleted"}

ASSUME CartAssumption ==
  /\ NoCustomer \notin Customer
  /\ ItemId # {}
  /\ \A i \in ItemId : ItemOf[i].user \in Customer
  /\ MaxItemQty \in Nat
  /\ Asked \subseteq 1..MaxItemQty
  /\ MenuAsks \subseteq OfferedProduct \X MenuStatus

VARIABLES
  menu,        \* menu[p]: the status of product p
  carts,       \* customers with a committed row in carts
  itemQty,     \* the committed cart_items.quantity; 0: there is no such row
  itemUsed,    \* ids that were ever given to a committed row
  cartTx       \* cartTx[r]: a request and what its transaction has written

cartTxVars == <<menu, carts, itemQty, itemUsed, cartTx>>

NoCartTx ==
  [pc |-> "idle", kind |-> "none", user |-> NoCustomer,
   ref |-> CHOOSE ref \in Reference : TRUE,   \* what AddItem adds
   lapsed |-> FALSE,   \* the product left the menu after AddItem looked at it
   qty |-> 0,          \* the quantity the request asks for
   rows |-> {},        \* rows written, with qtys as their new quantities
   qtys |-> [i \in ItemId |-> 0],
   todo |-> {},        \* rows a DELETE found and has still to delete
   made |-> FALSE]     \* the transaction inserted the user's cart

CartTxState ==
  [pc : {"idle", "look", "cart", "create", "again", "add", "set", "delete", "touch", "commit"},
   kind : {"none", "add", "set", "clear"},
   user : Customer \cup {NoCustomer}, ref : Reference, lapsed : BOOLEAN,
   qty : 0..MaxItemQty, rows : SUBSET ItemId, qtys : [ItemId -> 0..MaxItemQty],
   todo : SUBSET ItemId, made : BOOLEAN]

CartTxTypeOK ==
  /\ menu \in [OfferedProduct -> MenuStatus]
  /\ carts \in SUBSET Customer
  /\ itemQty \in [ItemId -> 0..MaxItemQty]
  /\ itemUsed \in SUBSET ItemId
  /\ cartTx \in [CartRequest -> CartTxState]

CartTxInit ==
  /\ menu = [p \in OfferedProduct |-> "available"]
  /\ carts = {}
  /\ itemQty = [i \in ItemId |-> 0]
  /\ itemUsed = {}
  /\ cartTx = [r \in CartRequest |-> NoCartTx]

-----------------------------------------------------------------------------
InCart(i) == itemQty[i] > 0

ItemsOfCart(u) == {i \in ItemId : InCart(i) /\ ItemOf[i].user = u}

\* Nobody else wrote row i, or inserts a row with the same key.
RowFree(r, i) ==
  \A q \in CartRequest \ {r} : \A j \in cartTx[q].rows : ItemOf[j] # ItemOf[i]

Ends(r) == cartTx' = [cartTx EXCEPT ![r] = NoCartTx]
Becomes(r, tx) == cartTx' = [cartTx EXCEPT ![r] = tx]

\* The statement wrote quantity n (0: deleted) into row i.
WithRow(tx, i, n, next) ==
  [tx EXCEPT !.pc = next, !.rows = @ \cup {i}, !.qtys = [@ EXCEPT ![i] = n]]

-----------------------------------------------------------------------------
(***************************************************************************)
(* AddItem.                                                                *)
(***************************************************************************)

BeginAddItem(r, ref, n) ==
  /\ cartTx[r].pc = "idle"
  /\ Becomes(r, [NoCartTx EXCEPT !.pc = "look", !.kind = "add", !.user = ref.user,
                                 !.ref = ref, !.qty = n])

\* GetProductByIDIncludingDeleted, a plain SELECT: a product that is deleted,
\* unavailable or out of stock is refused.
LookAtProduct(r) ==
  /\ cartTx[r].pc = "look"
  /\ IF menu[cartTx[r].ref.product] = "available"
     THEN Becomes(r, [cartTx[r] EXCEPT !.pc = "cart"])
     ELSE Ends(r)

GetCartByUserID(r) ==
  /\ cartTx[r].pc = "cart"
  /\ Becomes(r, [cartTx[r] EXCEPT !.pc = IF cartTx[r].user \in carts THEN "add" ELSE "create"])

\* carts_user_unique: an INSERT waits while another one of the same user is
\* not committed.  Faulty: it fails at once.
NeverWaits(r) == TRUE
CartKeyFree(r) ==
  \A q \in CartRequest \ {r} : ~(cartTx[q].made /\ cartTx[q].user = cartTx[r].user)

KeyTaken(r) ==
  \/ cartTx[r].user \in carts
  \/ \E q \in CartRequest \ {r} : cartTx[q].made /\ cartTx[q].user = cartTx[r].user

CreateCart(r) ==
  /\ cartTx[r].pc = "create"
  /\ CartKeyFree(r)
  /\ Becomes(r, IF KeyTaken(r) THEN [cartTx[r] EXCEPT !.pc = "again"]
                ELSE [cartTx[r] EXCEPT !.pc = "add", !.made = TRUE])

\* After the unique violation AddItem reads the cart again, but PostgreSQL
\* refuses every statement of a transaction that failed: the request fails.
GetCartAgain(r) == cartTx[r].pc = "again" /\ Ends(r)

\* AddOrIncrementCartItem increments the newest version of the row, or inserts
\* one with a fresh id.  Faulty: it writes the quantity asked for.
AddedQtyLost(i, n) == n
AddedQty(i, n) == itemQty[i] + n

AddOrIncrementCartItem(r) ==
  /\ cartTx[r].pc = "add"
  /\ \E i \in ItemId :
       /\ ItemOf[i] = cartTx[r].ref
       /\ RowFree(r, i)
       /\ \/ InCart(i)
          \/ /\ i \notin itemUsed
             /\ \A j \in ItemId : InCart(j) => ItemOf[j] # ItemOf[i]
       /\ itemQty[i] + cartTx[r].qty <= MaxItemQty
       /\ Becomes(r, WithRow(cartTx[r], i, AddedQty(i, cartTx[r].qty), "touch"))

-----------------------------------------------------------------------------
(***************************************************************************)
(* The other handlers.                                                     *)
(***************************************************************************)

\* UpdateItemQuantity and DeleteItem: one statement that finds the user's row,
\* or not.  n = 0 deletes it.
BeginItem(r, u, i, n) ==
  /\ cartTx[r].pc = "idle"
  /\ i \in ItemsOfCart(u)
  /\ Becomes(r, [NoCartTx EXCEPT !.pc = "set", !.kind = "set", !.user = u, !.qty = n,
                                 !.todo = {i}])

\* ClearItems, and ClearItemsByIDs for paid rows: the DELETE finds the rows
\* that are committed when it starts.
BeginClear(r, u, items) ==
  /\ cartTx[r].pc = "idle"
  /\ u \in carts
  /\ Becomes(r, [NoCartTx EXCEPT !.pc = "delete", !.kind = "clear", !.user = u,
                                 !.todo = items \cap ItemsOfCart(u)])

\* The row as it is once no other transaction holds it; if it is gone the
\* handler ends.
SetItem(r) ==
  /\ cartTx[r].pc = "set"
  /\ \E i \in cartTx[r].todo :
       /\ RowFree(r, i)
       /\ IF InCart(i)
          THEN Becomes(r, [WithRow(cartTx[r], i, cartTx[r].qty, "touch") EXCEPT !.todo = {}])
          ELSE Ends(r)

\* The DELETE takes its rows in any order, skips those that are gone, and ends.
DeleteRow(r) ==
  /\ cartTx[r].pc = "delete" /\ cartTx[r].todo # {}
  /\ \E i \in cartTx[r].todo :
       /\ RowFree(r, i)
       /\ Becomes(r, IF InCart(i)
                     THEN [WithRow(cartTx[r], i, 0, "delete") EXCEPT !.todo = @ \ {i}]
                     ELSE [cartTx[r] EXCEPT !.todo = @ \ {i}])

DeleteDone(r) ==
  /\ cartTx[r].pc = "delete" /\ cartTx[r].todo = {}
  /\ Becomes(r, [cartTx[r] EXCEPT !.pc = "touch"])

\* TouchCart: UPDATE of the row in carts.
TouchCart(r) ==
  /\ cartTx[r].pc = "touch"
  /\ \A q \in CartRequest : ~(cartTx[q].pc = "commit" /\ cartTx[q].user = cartTx[r].user)
  /\ Becomes(r, [cartTx[r] EXCEPT !.pc = "commit"])

CommitCart(r) ==
  LET tx == cartTx[r]
  IN
  /\ tx.pc = "commit"
  /\ menu' = menu
  /\ carts' = IF tx.made THEN carts \cup {tx.user} ELSE carts
  /\ itemQty' = [i \in ItemId |-> IF i \in tx.rows THEN tx.qtys[i] ELSE itemQty[i]]
  /\ itemUsed' = itemUsed \cup tx.rows
  /\ Ends(r)

\* A statement fails, the request is cancelled or the server dies.
CartFails(r) == cartTx[r].pc # "idle" /\ Ends(r)

\* Requests wait for each other's rows in a circle: each has deleted a row
\* that another one wants.  PostgreSQL fails one of them (CartFails).
CartStatement(r) ==
  \/ \E ref \in Reference, n \in Asked : BeginAddItem(r, ref, n)
  \/ \E u \in Customer :
       \/ \E i \in ItemId, n \in Asked \cup {0} : BeginItem(r, u, i, n)
       \/ \E items \in (SUBSET ItemId) \ {{}} : BeginClear(r, u, items)
  \/ LookAtProduct(r)
  \/ GetCartByUserID(r)
  \/ CreateCart(r)
  \/ GetCartAgain(r)
  \/ AddOrIncrementCartItem(r)
  \/ SetItem(r)
  \/ DeleteRow(r)
  \/ DeleteDone(r)
  \/ TouchCart(r)
  \/ CartFails(r)

\* UpdateProductStatus, DeleteProduct and RestoreProduct of the product, whose
\* row no cart handler locks: a restored product is available.
MenuChanges(p, m) ==
  /\ menu[p] = "deleted" => m = "available"
  /\ menu' = [menu EXCEPT ![p] = m]
  /\ cartTx' = [r \in CartRequest |->
       IF /\ cartTx[r].kind = "add" /\ cartTx[r].pc # "look"
          /\ cartTx[r].ref.product = p /\ m # "available"
       THEN [cartTx[r] EXCEPT !.lapsed = TRUE]
       ELSE cartTx[r]]
  /\ UNCHANGED <<carts, itemQty, itemUsed>>

CartTxNext ==
  \/ \E r \in CartRequest :
       \/ CartStatement(r) /\ UNCHANGED <<menu, carts, itemQty, itemUsed>>
       \/ CommitCart(r)
  \/ \E ask \in MenuAsks : MenuChanges(ask[1], ask[2])

CartTxSpec == CartTxInit /\ [][CartTxNext]_cartTxVars

-----------------------------------------------------------------------------
(***************************************************************************)
(* Properties.                                                             *)
(***************************************************************************)

W == INSTANCE Orders WITH
  User <- Customer, NoUser <- NoCustomer, Product <- OfferedProduct,
  CartItem <- ItemId, OrderId <- {}, RowOf <- ItemOf, MaxQty <- MaxItemQty, InitStock <- <<>>,
  stock <- <<>>, sold <- <<>>, deleted <- {p \in OfferedProduct : menu[p] = "deleted"},
  shelf <- [p \in OfferedProduct |-> IF menu[p] = "deleted" THEN "unavailable" ELSE menu[p]],
  status <- <<>>, owner <- <<>>, lines <- <<>>, overdue <- {},
  cartQty <- itemQty, usedItems <- itemUsed

\* What the COMMIT of r is in Orders.  An AddItem whose product left the menu
\* after it looked commits all the same: the row is there, although AddItem as a
\* whole would refuse it now.  (Checkout looks at the locked product again.)
AsInOrders(r) ==
  LET tx == cartTx[r]
  IN  CASE tx.kind = "add" ->
             \E i \in ItemId :
               /\ ItemOf[i] = tx.ref
               /\ W!AddItem(i, tx.qty) \/ (tx.lapsed /\ W!AddItemTx(i, tx.qty))
        [] tx.kind = "set" /\ tx.qty > 0 -> \E i \in tx.rows : W!UpdateItemQuantity(i, tx.qty)
        [] tx.kind = "set" /\ tx.qty = 0 -> \E i \in tx.rows : W!DeleteItem(i)
        [] tx.kind = "clear" -> W!ClearItemsByIDs(tx.rows)

\* Interleaved, the cart handlers do to the committed rows what whole handlers
\* do: a COMMIT is the step of Orders for its handler, but for an AddItem that
\* looked at the product too early, and nothing else changes the rows.  No
\* quantity is lost when two requests add to one row, or one adds to a row that
\* another one sets or deletes.
CartAsInOrders ==
  [][IF \E r \in CartRequest : CommitCart(r)
     THEN \E r \in CartRequest : CommitCart(r) /\ AsInOrders(r)
     ELSE UNCHANGED <<itemQty, itemUsed>> /\ (W!ProductStep \/ UNCHANGED menu)]_cartTxVars

\* A cart row always has a cart, and a first AddItem that lost the race for the
\* cart fails when the winner has committed it: the customer who tries again
\* finds the cart.
FirstUseLeavesCart ==
  /\ \A i \in ItemId : InCart(i) => ItemOf[i].user \in carts
  /\ \A r \in CartRequest : cartTx[r].pc = "again" => cartTx[r].user \in carts
=============================================================================
