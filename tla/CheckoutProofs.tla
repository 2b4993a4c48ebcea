--------------------------- MODULE CheckoutProofs ---------------------------
(***************************************************************************)
(* What holds on the way to an order, for every number of requests,        *)
(* products, rows and days.  Of CartTx: a cart row always has a cart, and   *)
(* interleaved statement by statement the cart handlers do to the committed *)
(* rows what whole handlers of Orders do.  Of OrderNumbers: the numbers of *)
(* a day have no gap and are never used twice, no checkout loses its order *)
(* to the unique constraint, and checkouts of one day do not deadlock.  Of *)
(* Amounts, for every width of integers: what is paid is what the lines    *)
(* come to.                                                                *)
(***************************************************************************)
EXTENDS CartTx, OrderNumbers, Amounts, FiniteSetTheorems, NaturalsInduction,
        WellFoundedInduction, TLAPS


-----------------------------------------------------------------------------
(***************************************************************************)
(* The inductive invariant.                                                *)
(***************************************************************************)

LiveAreUsed == \A i \in ItemId : InCart(i) => i \in itemUsed

\* The rows that two transactions wrote differ in their keys, not only in
\* their ids: two inserts of one key exclude each other as well.
RowsAreLocked ==
  \A r, q \in CartRequest :
    r # q => \A i \in cartTx[r].rows, j \in cartTx[q].rows : ItemOf[i] # ItemOf[j]

\* What the transaction of AddItem wrote is its quantity on top of the row that
\* is still committed, or a row with a fresh id for a key that no row has.
Added(tx) ==
  \E i \in ItemId :
    /\ tx.rows = {i} /\ ItemOf[i] = tx.ref
    /\ itemQty[i] + tx.qty <= MaxItemQty /\ tx.qtys[i] = itemQty[i] + tx.qty
    /\ \/ InCart(i)
       \/ i \notin itemUsed /\ \A j \in ItemId : InCart(j) => ItemOf[j] # ItemOf[i]

\* What UpdateItemQuantity and DeleteItem wrote, and ClearItems.
WasSet(tx) == \E i \in ItemId : tx.rows = {i} /\ InCart(i) /\ tx.qtys[i] = tx.qty
WasCleared(tx) == \A i \in tx.rows : InCart(i) /\ tx.qtys[i] = 0

\* An AddItem that looked found the product on the menu, where it still is
\* unless that is written down.
SeenOnMenu(tx) ==
  tx.kind = "add" /\ tx.pc \notin {"idle", "look"} /\ ~tx.lapsed =>
    menu[tx.ref.product] = "available"

\* How far a transaction is, and what follows of its user's cart and its rows.
TxSound(tx) ==
  /\ tx.pc = "idle" => tx.rows = {}
  /\ tx.pc \in {"look", "cart", "create", "again", "add"} =>
       tx.kind = "add" /\ tx.rows = {}
  /\ tx.pc = "set" => tx.kind = "set" /\ tx.rows = {}
  /\ tx.pc = "delete" => tx.kind = "clear" /\ WasCleared(tx)
  /\ tx.pc \in {"touch", "commit"} =>
       CASE tx.kind = "add" -> Added(tx)
         [] tx.kind = "set" -> WasSet(tx)
         [] tx.kind = "clear" -> WasCleared(tx)
         [] OTHER -> FALSE
  /\ tx.pc # "idle" => tx.user \in Customer
  /\ tx.pc # "idle" /\ tx.kind = "add" => tx.ref.user = tx.user
  /\ SeenOnMenu(tx)
  /\ \A i \in tx.rows \cup tx.todo : ItemOf[i].user = tx.user
  /\ tx.pc \in {"add", "set", "delete", "touch", "commit"} => tx.user \in carts \/ tx.made
  /\ tx.pc = "again" => tx.user \in carts

CartInv ==
  /\ CartTxTypeOK
  /\ LiveAreUsed
  /\ RowsAreLocked
  /\ \A r \in CartRequest : TxSound(cartTx[r])
  /\ FirstUseLeavesCart

LEMMA NoCartTxIsSound ==
  /\ NoCartTx \in CartTxState /\ TxSound(NoCartTx)
  /\ NoCartTx.pc = "idle" /\ NoCartTx.rows = {} /\ NoCartTx.todo = {} /\ ~NoCartTx.made
<1>1. Reference # {}
  BY CartAssumption DEF Reference
<1>2. (CHOOSE ref \in Reference : TRUE) \in Reference
  BY <1>1
<1>3. NoCartTx \in CartTxState
  BY <1>2, CartAssumption DEF NoCartTx, CartTxState
<1>4. TxSound(NoCartTx)
  BY DEF NoCartTx, TxSound, SeenOnMenu
<1> QED
  BY <1>3, <1>4 DEF NoCartTx

LEMMA CartInvInit == CartTxInit => CartInv
<1> SUFFICES ASSUME CartTxInit
             PROVE  CartInv
  OBVIOUS
<1>1. CartTxTypeOK
  BY NoCartTxIsSound, CartAssumption DEF CartTxInit, CartTxTypeOK, MenuStatus
<1>2. \A i \in ItemId : ~InCart(i)
  BY DEF CartTxInit, InCart
<1>3. LiveAreUsed /\ FirstUseLeavesCart
  BY <1>2, NoCartTxIsSound DEF CartTxInit, LiveAreUsed, FirstUseLeavesCart
<1>4. RowsAreLocked /\ \A r \in CartRequest : TxSound(cartTx[r])
  BY NoCartTxIsSound DEF CartTxInit, RowsAreLocked
<1> QED
  BY <1>1, <1>3, <1>4 DEF CartInv

-----------------------------------------------------------------------------
(***************************************************************************)
(* Statements: one transaction steps, and what is committed stays.         *)
(***************************************************************************)

LEMMA TxTyped ==
  ASSUME CartInv, NEW r \in CartRequest
  PROVE  /\ cartTx[r] \in CartTxState /\ TxSound(cartTx[r])
         /\ cartTx[r].qty \in 0..MaxItemQty /\ cartTx[r].qtys \in [ItemId -> 0..MaxItemQty]
         /\ cartTx[r].rows \in SUBSET ItemId /\ cartTx[r].todo \in SUBSET ItemId
<1>1. cartTx[r] \in CartTxState
  BY DEF CartInv, CartTxTypeOK
<1> QED
  BY <1>1 DEF CartInv, CartTxState

\* A transaction that becomes n keeps the invariant if n is sound and no other
\* transaction wrote a row with the key of one that n wrote.
LEMMA TxBecomes ==
  ASSUME CartInv, NEW r \in CartRequest, NEW n \in CartTxState, TxSound(n),
         \A i \in n.rows : RowFree(r, i),
         Becomes(r, n), UNCHANGED <<menu, carts, itemQty, itemUsed>>
  PROVE  CartInv'
<1>1. \A q \in CartRequest : cartTx'[q] = IF q = r THEN n ELSE cartTx[q]
  BY DEF Becomes, CartInv, CartTxTypeOK
<1>2. CartTxTypeOK'
  BY DEF Becomes, CartInv, CartTxTypeOK
<1>3. LiveAreUsed'
  BY DEF CartInv, LiveAreUsed, InCart
<1>4. RowsAreLocked'
  <2> SUFFICES ASSUME NEW p \in CartRequest, NEW q \in CartRequest, p # q,
                      NEW i \in cartTx'[p].rows, NEW j \in cartTx'[q].rows
               PROVE  ItemOf[i] # ItemOf[j]
    BY DEF RowsAreLocked
  <2>1. CASE p = r
    BY <1>1, <2>1 DEF RowFree
  <2>2. CASE q = r
    BY <1>1, <2>2 DEF RowFree
  <2>3. CASE p # r /\ q # r
    BY <1>1, <2>3 DEF CartInv, RowsAreLocked
  <2> QED
    BY <2>1, <2>2, <2>3
<1>5. \A tx : TxSound(tx) =>
        /\ tx.pc = "idle" => tx.rows = {}
        /\ tx.pc = "again" => tx.user \in carts
  BY DEF TxSound
<1>6. \A q \in CartRequest : TxSound(cartTx[q])'
  <2> SUFFICES ASSUME NEW q \in CartRequest
               PROVE  TxSound(cartTx[q])'
    OBVIOUS
  <2>1. CASE q = r
    BY <1>1, <2>1 DEF TxSound, SeenOnMenu, Added, WasSet, WasCleared, InCart
  <2>2. CASE q # r
    <3>1. TxSound(cartTx[q]) /\ cartTx'[q] = cartTx[q]
      BY <1>1, <2>2 DEF CartInv
    <3> QED
      BY <3>1 DEF TxSound, SeenOnMenu, Added, WasSet, WasCleared, InCart
  <2> QED
    BY <2>1, <2>2
<1>7. FirstUseLeavesCart'
  BY <1>1, <1>5 DEF CartInv, FirstUseLeavesCart, InCart
<1> QED
  BY <1>2, <1>3, <1>4, <1>6, <1>7 DEF CartInv

\* The rows that a transaction wrote earlier stay free of others.
LEMMA OwnRowsFree ==
  ASSUME CartInv, NEW r \in CartRequest, NEW i \in cartTx[r].rows
  PROVE  RowFree(r, i)
BY DEF CartInv, RowsAreLocked, RowFree

LEMMA EndsInv ==
  ASSUME CartInv, NEW r \in CartRequest, Ends(r), UNCHANGED <<menu, carts, itemQty, itemUsed>>
  PROVE  CartInv'
<1>1. Becomes(r, NoCartTx)
  BY DEF Ends, Becomes
<1> QED
  BY <1>1, NoCartTxIsSound, TxBecomes

LEMMA BeginAddItemInv ==
  ASSUME CartInv, NEW r \in CartRequest, NEW ref \in Reference, NEW n \in Asked,
         BeginAddItem(r, ref, n), UNCHANGED <<menu, carts, itemQty, itemUsed>>
  PROVE  CartInv'
<1> DEFINE tx == [NoCartTx EXCEPT !.pc = "look", !.kind = "add", !.user = ref.user,
                                  !.ref = ref, !.qty = n]
<1>1. ref.user \in Customer /\ n \in 0..MaxItemQty
  BY CartAssumption DEF Reference
<1>2. /\ tx \in CartTxState /\ tx.pc = "look" /\ tx.kind = "add" /\ tx.user = ref.user
      /\ tx.ref = ref /\ tx.rows = {} /\ tx.todo = {}
  BY <1>1, NoCartTxIsSound DEF CartTxState
<1>3. Becomes(r, tx)
  BY DEF BeginAddItem
<1> HIDE DEF tx
<1>4. TxSound(tx)
  BY <1>1, <1>2 DEF TxSound, SeenOnMenu
<1> QED
  BY <1>2, <1>3, <1>4, TxBecomes

\* A look that does not refuse has found the product on the menu.
LEMMA LookAtProductInv ==
  ASSUME CartInv, NEW r \in CartRequest, LookAtProduct(r),
         UNCHANGED <<menu, carts, itemQty, itemUsed>>
  PROVE  CartInv'
<1>1. cartTx[r] \in CartTxState /\ TxSound(cartTx[r]) /\ cartTx[r].pc = "look"
  BY TxTyped DEF LookAtProduct
<1>2. CASE menu[cartTx[r].ref.product] # "available"
  BY <1>2, EndsInv DEF LookAtProduct
<1>3. CASE menu[cartTx[r].ref.product] = "available"
  <2> DEFINE tx == [cartTx[r] EXCEPT !.pc = "cart"]
  <2>1. /\ tx \in CartTxState /\ tx.pc = "cart" /\ tx.kind = cartTx[r].kind
        /\ tx.user = cartTx[r].user /\ tx.ref = cartTx[r].ref /\ tx.rows = cartTx[r].rows
        /\ tx.todo = cartTx[r].todo
    BY <1>1 DEF CartTxState
  <2>2. Becomes(r, tx)
    BY <1>3 DEF LookAtProduct
  <2> HIDE DEF tx
  <2>3. TxSound(tx) /\ tx.rows = {}
    BY <1>1, <1>3, <2>1 DEF TxSound, SeenOnMenu
  <2> QED
    BY <2>1, <2>2, <2>3, TxBecomes
<1> QED
  BY <1>2, <1>3

LEMMA GetCartInv ==
  ASSUME CartInv, NEW r \in CartRequest, GetCartByUserID(r),
         UNCHANGED <<menu, carts, itemQty, itemUsed>>
  PROVE  CartInv'
<1> DEFINE next == IF cartTx[r].user \in carts THEN "add" ELSE "create"
           tx == [cartTx[r] EXCEPT !.pc = next]
<1>1. cartTx[r] \in CartTxState /\ TxSound(cartTx[r]) /\ cartTx[r].pc = "cart"
  BY TxTyped DEF GetCartByUserID
<1>2. /\ tx \in CartTxState /\ tx.pc = next /\ tx.kind = cartTx[r].kind
      /\ tx.user = cartTx[r].user /\ tx.ref = cartTx[r].ref /\ tx.rows = cartTx[r].rows
      /\ tx.todo = cartTx[r].todo /\ tx.lapsed = cartTx[r].lapsed
  BY <1>1 DEF CartTxState
<1>3. Becomes(r, tx)
  BY DEF GetCartByUserID
<1> HIDE DEF tx
<1>4. TxSound(tx)
  BY <1>1, <1>2 DEF TxSound, SeenOnMenu
<1>5. tx.rows = {}
  BY <1>1, <1>2 DEF TxSound
<1> QED
  BY <1>2, <1>3, <1>4, <1>5, TxBecomes

\* The loser of the race for the cart has waited for the winner's COMMIT.
LEMMA CreateCartInv ==
  ASSUME CartInv, NEW r \in CartRequest, CreateCart(r), UNCHANGED <<menu, carts, itemQty, itemUsed>>
  PROVE  CartInv'
<1>1. cartTx[r] \in CartTxState /\ TxSound(cartTx[r]) /\ cartTx[r].pc = "create"
  BY TxTyped DEF CreateCart
<1>2. CASE KeyTaken(r)
  <2> DEFINE tx == [cartTx[r] EXCEPT !.pc = "again"]
  <2>1. /\ tx \in CartTxState /\ tx.pc = "again" /\ tx.kind = cartTx[r].kind
        /\ tx.user = cartTx[r].user /\ tx.ref = cartTx[r].ref /\ tx.rows = cartTx[r].rows
        /\ tx.todo = cartTx[r].todo /\ tx.lapsed = cartTx[r].lapsed
    BY <1>1 DEF CartTxState
  <2>2. Becomes(r, tx)
    BY <1>2 DEF CreateCart
  <2>3. cartTx[r].user \in carts
    BY <1>2 DEF CreateCart, KeyTaken, CartKeyFree
  <2> HIDE DEF tx
  <2>4. TxSound(tx) /\ tx.rows = {}
    BY <1>1, <2>1, <2>3 DEF TxSound, SeenOnMenu
  <2> QED
    BY <2>1, <2>2, <2>4, TxBecomes
<1>3. CASE ~KeyTaken(r)
  <2> DEFINE tx == [cartTx[r] EXCEPT !.pc = "add", !.made = TRUE]
  <2>1. /\ tx \in CartTxState /\ tx.pc = "add" /\ tx.kind = cartTx[r].kind /\ tx.made
        /\ tx.user = cartTx[r].user /\ tx.ref = cartTx[r].ref /\ tx.rows = cartTx[r].rows
        /\ tx.todo = cartTx[r].todo /\ tx.lapsed = cartTx[r].lapsed
    BY <1>1 DEF CartTxState
  <2>2. Becomes(r, tx)
    BY <1>3 DEF CreateCart
  <2> HIDE DEF tx
  <2>3. TxSound(tx) /\ tx.rows = {}
    BY <1>1, <2>1 DEF TxSound, SeenOnMenu
  <2> QED
    BY <2>1, <2>2, <2>3, TxBecomes
<1> QED
  BY <1>2, <1>3

ItemQty == 0..MaxItemQty

\* What a statement that writes row i leaves of the transaction.
LEMMA WithRowIs ==
  ASSUME NEW tx \in CartTxState, NEW i \in ItemId, NEW n \in ItemQty,
         NEW next \in {"touch", "delete"}, NEW w, w = WithRow(tx, i, n, next)
  PROVE  /\ w \in CartTxState /\ w.pc = next /\ w.rows = tx.rows \cup {i}
         /\ w.qtys = [tx.qtys EXCEPT ![i] = n]
         /\ w.kind = tx.kind /\ w.user = tx.user /\ w.ref = tx.ref /\ w.qty = tx.qty
         /\ w.todo = tx.todo /\ w.made = tx.made /\ w.lapsed = tx.lapsed
<1>1. tx.rows \in SUBSET ItemId /\ tx.qtys \in [ItemId -> 0..MaxItemQty]
  BY DEF CartTxState
<1>2. tx.rows \cup {i} \in SUBSET ItemId /\ [tx.qtys EXCEPT ![i] = n] \in [ItemId -> 0..MaxItemQty]
  BY <1>1 DEF ItemQty
<1> QED
  BY <1>1, <1>2 DEF WithRow, CartTxState, ItemQty

LEMMA AddInv ==
  ASSUME CartInv, NEW r \in CartRequest, AddOrIncrementCartItem(r),
         UNCHANGED <<menu, carts, itemQty, itemUsed>>
  PROVE  CartInv'
<1>1. cartTx[r] \in CartTxState /\ TxSound(cartTx[r]) /\ cartTx[r].pc = "add"
  BY TxTyped DEF AddOrIncrementCartItem
<1>2. PICK i \in ItemId :
        /\ ItemOf[i] = cartTx[r].ref
        /\ RowFree(r, i)
        /\ \/ InCart(i)
           \/ i \notin itemUsed /\ \A j \in ItemId : InCart(j) => ItemOf[j] # ItemOf[i]
        /\ itemQty[i] + cartTx[r].qty <= MaxItemQty
        /\ Becomes(r, WithRow(cartTx[r], i, itemQty[i] + cartTx[r].qty, "touch"))
  BY DEF AddOrIncrementCartItem, AddedQty
<1> DEFINE n == itemQty[i] + cartTx[r].qty
           tx == WithRow(cartTx[r], i, n, "touch")
<1>3. n \in ItemQty
  <2>1. itemQty[i] \in 0..MaxItemQty /\ cartTx[r].qty \in 0..MaxItemQty
    BY TxTyped DEF CartInv, CartTxTypeOK
  <2> QED
    BY <1>2, <2>1, CartAssumption DEF ItemQty
<1>0. tx = WithRow(cartTx[r], i, n, "touch")
  OBVIOUS
<1> HIDE DEF n, tx
<1>4. /\ tx \in CartTxState /\ tx.pc = "touch" /\ tx.rows = cartTx[r].rows \cup {i}
      /\ tx.qtys = [cartTx[r].qtys EXCEPT ![i] = n]
      /\ tx.kind = cartTx[r].kind /\ tx.user = cartTx[r].user /\ tx.ref = cartTx[r].ref
      /\ tx.qty = cartTx[r].qty /\ tx.todo = cartTx[r].todo /\ tx.made = cartTx[r].made
      /\ tx.lapsed = cartTx[r].lapsed
  BY <1>0, <1>1, <1>3, WithRowIs
<1>5. cartTx[r].rows = {} /\ cartTx[r].kind = "add" /\ cartTx[r].user \in Customer
      /\ cartTx[r].ref.user = cartTx[r].user /\ (cartTx[r].user \in carts \/ cartTx[r].made)
      /\ \A j \in cartTx[r].todo : ItemOf[j].user = cartTx[r].user
  BY <1>1 DEF TxSound
<1>6. tx.rows = {i} /\ tx.qtys[i] = n
  <2>1. cartTx[r].qtys \in [ItemId -> 0..MaxItemQty]
    BY TxTyped
  <2> QED
    BY <1>4, <1>5, <2>1
<1>7. Added(tx)
  BY <1>2, <1>4, <1>6 DEF Added, n
<1>8. SeenOnMenu(tx)
  <2>1. SeenOnMenu(cartTx[r])
    BY <1>1 DEF TxSound
  <2> QED
    BY <1>1, <1>4, <2>1, Zenon DEF SeenOnMenu
<1>9. TxSound(tx)
  BY <1>2, <1>4, <1>5, <1>6, <1>7, <1>8 DEF TxSound
<1> QED
  BY <1>2, <1>4, <1>6, <1>9, TxBecomes DEF tx, n

LEMMA BeginItemInv ==
  ASSUME CartInv, NEW r \in CartRequest, NEW u \in Customer, NEW i \in ItemId,
         NEW n \in Asked \cup {0}, BeginItem(r, u, i, n), UNCHANGED <<menu, carts, itemQty, itemUsed>>
  PROVE  CartInv'
<1> DEFINE tx == [NoCartTx EXCEPT !.pc = "set", !.kind = "set", !.user = u, !.qty = n,
                                  !.todo = {i}]
<1>1. n \in 0..MaxItemQty
  BY CartAssumption
<1>2. /\ tx \in CartTxState /\ tx.pc = "set" /\ tx.kind = "set" /\ tx.user = u
      /\ tx.rows = {} /\ tx.todo = {i}
  BY <1>1, NoCartTxIsSound DEF CartTxState
<1>3. Becomes(r, tx) /\ InCart(i) /\ ItemOf[i].user = u
  BY DEF BeginItem, ItemsOfCart
<1>4. u \in carts
  BY <1>3 DEF CartInv, FirstUseLeavesCart
<1> HIDE DEF tx
<1>5. TxSound(tx)
  BY <1>2, <1>3, <1>4 DEF TxSound, SeenOnMenu
<1> QED
  BY <1>2, <1>3, <1>5, TxBecomes

LEMMA BeginClearInv ==
  ASSUME CartInv, NEW r \in CartRequest, NEW u \in Customer, NEW items \in SUBSET ItemId,
         BeginClear(r, u, items), UNCHANGED <<menu, carts, itemQty, itemUsed>>
  PROVE  CartInv'
<1> DEFINE found == items \cap ItemsOfCart(u)
           tx == [NoCartTx EXCEPT !.pc = "delete", !.kind = "clear", !.user = u, !.todo = found]
<1>1. found \in SUBSET ItemId /\ \A i \in found : ItemOf[i].user = u
  BY DEF ItemsOfCart
<1>2. Becomes(r, tx) /\ u \in carts
  BY DEF BeginClear
<1> HIDE DEF found
<1>3. /\ tx \in CartTxState /\ tx.pc = "delete" /\ tx.kind = "clear" /\ tx.user = u
      /\ tx.rows = {} /\ tx.todo = found
  BY <1>1, NoCartTxIsSound DEF CartTxState
<1> HIDE DEF tx
<1>4. TxSound(tx)
  BY <1>1, <1>2, <1>3 DEF TxSound, WasCleared, SeenOnMenu
<1> QED
  BY <1>2, <1>3, <1>4, TxBecomes

LEMMA SetItemInv ==
  ASSUME CartInv, NEW r \in CartRequest, SetItem(r), UNCHANGED <<menu, carts, itemQty, itemUsed>>
  PROVE  CartInv'
<1>1. cartTx[r] \in CartTxState /\ TxSound(cartTx[r]) /\ cartTx[r].pc = "set"
      /\ cartTx[r].qty \in 0..MaxItemQty /\ cartTx[r].todo \in SUBSET ItemId
  BY TxTyped DEF SetItem
<1>2. PICK i \in cartTx[r].todo :
        /\ RowFree(r, i)
        /\ IF InCart(i)
           THEN Becomes(r, [WithRow(cartTx[r], i, cartTx[r].qty, "touch") EXCEPT !.todo = {}])
           ELSE Ends(r)
  BY DEF SetItem
<1>3. CASE ~InCart(i)
  BY <1>2, <1>3, EndsInv
<1>4. CASE InCart(i)
  <2> DEFINE n == cartTx[r].qty
             w == WithRow(cartTx[r], i, n, "touch")
             tx == [w EXCEPT !.todo = {}]
  <2>0. w = WithRow(cartTx[r], i, n, "touch") /\ n \in ItemQty
    BY <1>1 DEF ItemQty
  <2>1. i \in ItemId
    BY <1>1
  <2>2. /\ w \in CartTxState /\ w.pc = "touch" /\ w.rows = cartTx[r].rows \cup {i}
        /\ w.qtys[i] = cartTx[r].qty /\ w.kind = cartTx[r].kind /\ w.user = cartTx[r].user
        /\ w.qty = cartTx[r].qty /\ w.made = cartTx[r].made
    <3> HIDE DEF n, w
    <3>1. /\ w \in CartTxState /\ w.pc = "touch" /\ w.rows = cartTx[r].rows \cup {i}
          /\ w.qtys = [cartTx[r].qtys EXCEPT ![i] = n] /\ w.kind = cartTx[r].kind
          /\ w.user = cartTx[r].user /\ w.qty = cartTx[r].qty /\ w.made = cartTx[r].made
      BY <1>1, <2>0, <2>1, WithRowIs
    <3>2. cartTx[r].qtys \in [ItemId -> 0..MaxItemQty]
      BY TxTyped
    <3> QED
      BY <2>1, <3>1, <3>2 DEF n
  <2>3. Becomes(r, tx)
    BY <1>2, <1>4
  <2> HIDE DEF w
  <2>4. /\ tx \in CartTxState /\ tx.pc = w.pc /\ tx.rows = w.rows /\ tx.qtys = w.qtys
        /\ tx.kind = w.kind /\ tx.user = w.user /\ tx.qty = w.qty /\ tx.made = w.made
        /\ tx.todo = {}
    BY <2>2 DEF CartTxState
  <2>5. /\ cartTx[r].rows = {} /\ cartTx[r].kind = "set" /\ cartTx[r].user \in Customer
        /\ (cartTx[r].user \in carts \/ cartTx[r].made) /\ ItemOf[i].user = cartTx[r].user
    BY <1>1 DEF TxSound
  <2> HIDE DEF tx
  <2>6. tx.rows = {i}
    BY <2>2, <2>4, <2>5
  <2>7. WasSet(tx)
    BY <1>4, <2>1, <2>2, <2>4, <2>6 DEF WasSet
  <2>8. TxSound(tx)
    BY <2>2, <2>4, <2>5, <2>6, <2>7 DEF TxSound, SeenOnMenu
  <2> QED
    BY <1>2, <2>3, <2>4, <2>6, <2>8, TxBecomes
<1> QED
  BY <1>3, <1>4

LEMMA DeleteRowInv ==
  ASSUME CartInv, NEW r \in CartRequest, DeleteRow(r), UNCHANGED <<menu, carts, itemQty, itemUsed>>
  PROVE  CartInv'
<1>1. cartTx[r] \in CartTxState /\ TxSound(cartTx[r]) /\ cartTx[r].pc = "delete"
      /\ cartTx[r].todo \in SUBSET ItemId /\ cartTx[r].rows \in SUBSET ItemId
      /\ cartTx[r].qtys \in [ItemId -> 0..MaxItemQty]
  BY TxTyped DEF DeleteRow
<1>2. PICK i \in cartTx[r].todo :
        /\ RowFree(r, i)
        /\ Becomes(r, IF InCart(i)
                      THEN [WithRow(cartTx[r], i, 0, "delete") EXCEPT !.todo = @ \ {i}]
                      ELSE [cartTx[r] EXCEPT !.todo = @ \ {i}])
  BY DEF DeleteRow
<1>3. /\ cartTx[r].kind = "clear" /\ cartTx[r].user \in Customer /\ WasCleared(cartTx[r])
      /\ (cartTx[r].user \in carts \/ cartTx[r].made)
      /\ \A j \in cartTx[r].rows \cup cartTx[r].todo : ItemOf[j].user = cartTx[r].user
  BY <1>1 DEF TxSound
<1> DEFINE left == cartTx[r].todo \ {i}
<1>4. left \in SUBSET ItemId /\ left \subseteq cartTx[r].todo /\ i \in ItemId
  BY <1>1
<1>5. CASE ~InCart(i)
  <2> DEFINE tx == [cartTx[r] EXCEPT !.todo = left]
  <2>1. Becomes(r, tx)
    BY <1>2, <1>5
  <2> HIDE DEF left
  <2>2. /\ tx \in CartTxState /\ tx.pc = "delete" /\ tx.rows = cartTx[r].rows
        /\ tx.qtys = cartTx[r].qtys /\ tx.kind = "clear" /\ tx.user = cartTx[r].user
        /\ tx.made = cartTx[r].made /\ tx.todo = left
    BY <1>1, <1>3, <1>4 DEF CartTxState
  <2> HIDE DEF tx
  <2>3. TxSound(tx)
    BY <1>3, <1>4, <2>2 DEF TxSound, WasCleared, SeenOnMenu
  <2> QED
    BY <2>1, <2>2, <2>3, OwnRowsFree, TxBecomes
<1>6. CASE InCart(i)
  <2> DEFINE w == WithRow(cartTx[r], i, 0, "delete")
             tx == [w EXCEPT !.todo = left]
  <2>1. 0 \in ItemQty
    BY CartAssumption DEF ItemQty
  <2>2. /\ w \in CartTxState /\ w.pc = "delete" /\ w.rows = cartTx[r].rows \cup {i}
        /\ w.qtys = [cartTx[r].qtys EXCEPT ![i] = 0] /\ w.kind = cartTx[r].kind
        /\ w.user = cartTx[r].user /\ w.made = cartTx[r].made /\ w.todo = cartTx[r].todo
    BY <1>1, <1>4, <2>1, WithRowIs
  <2>3. Becomes(r, tx)
    BY <1>2, <1>6, <2>2
  <2> HIDE DEF w, left
  <2>4. /\ tx \in CartTxState /\ tx.pc = w.pc /\ tx.rows = w.rows /\ tx.qtys = w.qtys
        /\ tx.kind = w.kind /\ tx.user = w.user /\ tx.made = w.made /\ tx.todo = left
    BY <1>4, <2>2 DEF CartTxState
  <2> HIDE DEF tx
  <2>5. WasCleared(tx)
    BY <1>1, <1>3, <1>6, <2>2, <2>4 DEF WasCleared
  <2>6. TxSound(tx)
    BY <1>3, <1>4, <2>2, <2>4, <2>5 DEF TxSound, SeenOnMenu
  <2>7. \A j \in tx.rows : RowFree(r, j)
    BY <1>2, <2>2, <2>4, OwnRowsFree
  <2> QED
    BY <2>3, <2>4, <2>6, <2>7, TxBecomes
<1> QED
  BY <1>5, <1>6

\* A statement that writes nothing more.
LEMMA MovesOnInv ==
  ASSUME CartInv, NEW r \in CartRequest, DeleteDone(r) \/ TouchCart(r),
         UNCHANGED <<menu, carts, itemQty, itemUsed>>
  PROVE  CartInv'
<1>1. PICK next \in {"touch", "commit"} :
        /\ Becomes(r, [cartTx[r] EXCEPT !.pc = next])
        /\ cartTx[r].pc \in {"delete", "touch"}
  BY DEF DeleteDone, TouchCart
<1> DEFINE tx == [cartTx[r] EXCEPT !.pc = next]
<1>2. cartTx[r] \in CartTxState /\ TxSound(cartTx[r])
  BY TxTyped
<1>3. /\ tx \in CartTxState /\ tx.pc = next /\ tx.rows = cartTx[r].rows
      /\ tx.qtys = cartTx[r].qtys /\ tx.kind = cartTx[r].kind /\ tx.user = cartTx[r].user
      /\ tx.qty = cartTx[r].qty /\ tx.made = cartTx[r].made /\ tx.todo = cartTx[r].todo
      /\ tx.ref = cartTx[r].ref /\ tx.lapsed = cartTx[r].lapsed
  BY <1>2 DEF CartTxState
<1> HIDE DEF tx
<1>4. TxSound(tx)
  <2>1. /\ Added(cartTx[r]) => Added(tx)
        /\ WasSet(cartTx[r]) => WasSet(tx)
        /\ WasCleared(cartTx[r]) => WasCleared(tx)
    BY <1>3 DEF Added, WasSet, WasCleared
  <2>2. SeenOnMenu(tx)
    BY <1>1, <1>2, <1>3 DEF TxSound, SeenOnMenu
  <2> QED
    BY <1>1, <1>2, <1>3, <2>1, <2>2 DEF TxSound
<1> QED
  BY <1>1, <1>3, <1>4, OwnRowsFree, TxBecomes DEF tx

LEMMA CartStatementInv ==
  ASSUME CartInv, NEW r \in CartRequest, CartStatement(r), UNCHANGED <<menu, carts, itemQty, itemUsed>>
  PROVE  CartInv'
<1>1. CASE GetCartAgain(r) \/ CartFails(r)
  BY <1>1, EndsInv DEF GetCartAgain, CartFails
<1> QED
  BY <1>1, BeginAddItemInv, BeginItemInv, BeginClearInv, LookAtProductInv, GetCartInv, CreateCartInv, AddInv,
     SetItemInv, DeleteRowInv, MovesOnInv DEF CartStatement

-----------------------------------------------------------------------------
(***************************************************************************)
(* COMMIT, and the invariant.                                              *)
(***************************************************************************)

\* What a COMMIT makes of the rows, of this transaction and of the others.
LEMMA CommitsRows ==
  ASSUME CartInv, NEW r \in CartRequest, CommitCart(r)
  PROVE  /\ \A i \in ItemId :
              itemQty'[i] = IF i \in cartTx[r].rows THEN cartTx[r].qtys[i] ELSE itemQty[i]
         /\ itemUsed' = itemUsed \cup cartTx[r].rows
         /\ carts \subseteq carts' /\ cartTx[r].user \in carts'
         /\ \A q \in CartRequest : cartTx'[q] = IF q = r THEN NoCartTx ELSE cartTx[q]
         /\ \A q \in CartRequest \ {r} :
              \A i \in cartTx[q].rows, j \in cartTx[r].rows : ItemOf[i] # ItemOf[j]
<1>1. TxSound(cartTx[r]) /\ cartTx[r].pc = "commit"
  BY TxTyped DEF CommitCart
<1>2. carts \subseteq carts' /\ cartTx[r].user \in carts'
  BY <1>1 DEF CommitCart, TxSound
<1>3. \A q \in CartRequest : cartTx'[q] = IF q = r THEN NoCartTx ELSE cartTx[q]
  BY DEF CommitCart, Ends, CartInv, CartTxTypeOK
<1>4. \A q \in CartRequest \ {r} :
        \A i \in cartTx[q].rows, j \in cartTx[r].rows : ItemOf[i] # ItemOf[j]
  BY DEF CartInv, RowsAreLocked
<1>5. /\ \A i \in ItemId :
           itemQty'[i] = IF i \in cartTx[r].rows THEN cartTx[r].qtys[i] ELSE itemQty[i]
      /\ itemUsed' = itemUsed \cup cartTx[r].rows
  BY DEF CommitCart
<1> QED
  BY <1>2, <1>3, <1>4, <1>5

\* A COMMIT of r does not disturb what another transaction found.
LEMMA OthersStaySound ==
  ASSUME CartInv, NEW r \in CartRequest, CommitCart(r), NEW q \in CartRequest \ {r}
  PROVE  TxSound(cartTx[q])'
<1> DEFINE tx == cartTx[q]
<1>1. /\ TxSound(tx) /\ tx.rows \in SUBSET ItemId /\ cartTx'[q] = tx
  BY TxTyped, CommitsRows
<1>2. \A i \in tx.rows : i \notin cartTx[r].rows /\ itemQty'[i] = itemQty[i]
  BY <1>1, CommitsRows
<1>3. \A i \in tx.rows, j \in ItemId :
        itemQty'[j] > 0 /\ ItemOf[j] = ItemOf[i] => InCart(j)
  <2> TAKE i \in tx.rows, j \in ItemId
  <2> HAVE itemQty'[j] > 0 /\ ItemOf[j] = ItemOf[i]
  <2>1. j \notin cartTx[r].rows
    BY CommitsRows
  <2> QED
    BY <2>1, CommitsRows DEF InCart
<1> HIDE DEF tx
<1>4. Added(tx) => (\E i \in ItemId :
                      /\ tx.rows = {i} /\ ItemOf[i] = tx.ref
                      /\ itemQty'[i] + tx.qty <= MaxItemQty /\ tx.qtys[i] = itemQty'[i] + tx.qty
                      /\ \/ itemQty'[i] > 0
                         \/ /\ i \notin itemUsed'
                            /\ \A j \in ItemId : itemQty'[j] > 0 => ItemOf[j] # ItemOf[i])
  <2> SUFFICES ASSUME NEW i \in ItemId, tx.rows = {i}, ItemOf[i] = tx.ref,
                      itemQty[i] + tx.qty <= MaxItemQty, tx.qtys[i] = itemQty[i] + tx.qty,
                      \/ InCart(i)
                      \/ i \notin itemUsed /\ \A j \in ItemId : InCart(j) => ItemOf[j] # ItemOf[i]
               PROVE  /\ itemQty'[i] + tx.qty <= MaxItemQty /\ tx.qtys[i] = itemQty'[i] + tx.qty
                      /\ \/ itemQty'[i] > 0
                         \/ /\ i \notin itemUsed'
                            /\ \A j \in ItemId : itemQty'[j] > 0 => ItemOf[j] # ItemOf[i]
    BY DEF Added
  <2>1. itemQty'[i] = itemQty[i] /\ i \notin cartTx[r].rows
    BY <1>2
  <2>2. CASE InCart(i)
    BY <2>1, <2>2 DEF InCart
  <2>3. CASE i \notin itemUsed /\ \A j \in ItemId : InCart(j) => ItemOf[j] # ItemOf[i]
    <3>1. i \notin itemUsed'
      BY <2>1, <2>3, CommitsRows
    <3>2. \A j \in ItemId : itemQty'[j] > 0 => ItemOf[j] # ItemOf[i]
      BY <1>3, <2>3
    <3> QED
      BY <2>1, <3>1, <3>2
  <2> QED
    BY <2>2, <2>3
<1>5. WasSet(tx) => \E i \in ItemId : tx.rows = {i} /\ itemQty'[i] > 0 /\ tx.qtys[i] = tx.qty
  BY <1>2 DEF WasSet, InCart
<1>6. WasCleared(tx) => \A i \in tx.rows : itemQty'[i] > 0 /\ tx.qtys[i] = 0
  BY <1>2 DEF WasCleared, InCart
<1>7. (tx.user \in carts => tx.user \in carts') /\ menu' = menu
  BY CommitsRows DEF CommitCart
<1> QED
  BY <1>1, <1>4, <1>5, <1>6, <1>7 DEF TxSound, SeenOnMenu, Added, WasSet, WasCleared, InCart

LEMMA CommitCartInv ==
  ASSUME CartInv, NEW r \in CartRequest, CommitCart(r)
  PROVE  CartInv'
<1> DEFINE tx == cartTx[r]
<1>1. tx \in CartTxState /\ TxSound(tx) /\ tx.pc = "commit" /\ tx.rows \in SUBSET ItemId
      /\ tx.qtys \in [ItemId -> 0..MaxItemQty]
  BY TxTyped DEF CommitCart
<1>2. CartTxTypeOK'
  <2>1. tx.user \in Customer
    BY <1>1 DEF TxSound
  <2>2. carts' \in SUBSET Customer /\ itemUsed' \in SUBSET ItemId
    BY <1>1, <2>1 DEF CommitCart, CartInv, CartTxTypeOK
  <2>3. itemQty' \in [ItemId -> 0..MaxItemQty]
    BY <1>1 DEF CommitCart, CartInv, CartTxTypeOK
  <2>4. cartTx' \in [CartRequest -> CartTxState]
    BY NoCartTxIsSound DEF CommitCart, Ends, CartInv, CartTxTypeOK
  <2> QED
    BY <2>2, <2>3, <2>4 DEF CommitCart, CartInv, CartTxTypeOK
<1>3. LiveAreUsed'
  BY CommitsRows DEF CartInv, LiveAreUsed, InCart
<1>4. RowsAreLocked'
  <2>1. \A q \in CartRequest : cartTx'[q].rows \subseteq cartTx[q].rows
    BY CommitsRows, NoCartTxIsSound
  <2> QED
    BY <2>1 DEF CartInv, RowsAreLocked
<1>5. \A q \in CartRequest : TxSound(cartTx[q])'
  <2> SUFFICES ASSUME NEW q \in CartRequest
               PROVE  TxSound(cartTx[q])'
    OBVIOUS
  <2>1. CASE q = r
    <3>1. cartTx'[q] = NoCartTx
      BY <2>1, CommitsRows
    <3> QED
      BY <3>1, NoCartTxIsSound DEF TxSound, SeenOnMenu, NoCartTx
  <2>2. CASE q # r
    BY <2>2, OthersStaySound
  <2> QED
    BY <2>1, <2>2
<1>6. FirstUseLeavesCart'
  <2>1. \A i \in ItemId : InCart(i)' => ItemOf[i].user \in carts'
    <3> SUFFICES ASSUME NEW i \in ItemId, itemQty'[i] > 0
                 PROVE  ItemOf[i].user \in carts'
      BY DEF InCart
    <3>1. CASE i \in tx.rows
      BY <1>1, <3>1, CommitsRows DEF TxSound
    <3>2. CASE i \notin tx.rows
      BY <3>2, CommitsRows DEF CartInv, FirstUseLeavesCart, InCart
    <3> QED
      BY <3>1, <3>2
  <2>2. \A q \in CartRequest : cartTx'[q].pc = "again" => cartTx'[q].user \in carts'
    BY CommitsRows, NoCartTxIsSound DEF CartInv, FirstUseLeavesCart
  <2> QED
    BY <2>1, <2>2 DEF FirstUseLeavesCart
<1> QED
  BY <1>2, <1>3, <1>4, <1>5, <1>6 DEF CartInv

-----------------------------------------------------------------------------
(***************************************************************************)
(* The menu changes under the requests.                                    *)
(***************************************************************************)

LEMMA OfferedIsReferred == \A ref \in Reference : ref.product \in OfferedProduct
BY DEF Reference, OfferedProduct

\* A change of the menu leaves the requests as they are, but marks those whose
\* product it takes away.
LEMMA MenuChangesTx ==
  ASSUME CartInv, NEW p \in OfferedProduct, NEW m \in MenuStatus, MenuChanges(p, m),
         NEW r \in CartRequest
  PROVE  /\ cartTx'[r] \in CartTxState
         /\ cartTx'[r].pc = cartTx[r].pc /\ cartTx'[r].kind = cartTx[r].kind
         /\ cartTx'[r].user = cartTx[r].user /\ cartTx'[r].ref = cartTx[r].ref
         /\ cartTx'[r].qty = cartTx[r].qty /\ cartTx'[r].rows = cartTx[r].rows
         /\ cartTx'[r].qtys = cartTx[r].qtys /\ cartTx'[r].todo = cartTx[r].todo
         /\ cartTx'[r].made = cartTx[r].made
         /\ SeenOnMenu(cartTx[r])'
<1>1. cartTx[r] \in CartTxState /\ SeenOnMenu(cartTx[r])
      /\ cartTx[r].ref.product \in OfferedProduct
  BY TxTyped, OfferedIsReferred DEF TxSound, CartTxState
<1>2. menu' = [menu EXCEPT ![p] = m] /\ menu \in [OfferedProduct -> MenuStatus]
  BY DEF MenuChanges, CartInv, CartTxTypeOK
<1> DEFINE strikes == /\ cartTx[r].kind = "add" /\ cartTx[r].pc # "look"
                      /\ cartTx[r].ref.product = p /\ m # "available"
<1>3. cartTx'[r] = IF strikes THEN [cartTx[r] EXCEPT !.lapsed = TRUE] ELSE cartTx[r]
  BY DEF MenuChanges
<1>4. CASE strikes
  <2> DEFINE tx == [cartTx[r] EXCEPT !.lapsed = TRUE]
  <2>1. /\ tx \in CartTxState
        /\ tx.pc = cartTx[r].pc /\ tx.kind = cartTx[r].kind /\ tx.user = cartTx[r].user
        /\ tx.ref = cartTx[r].ref /\ tx.qty = cartTx[r].qty /\ tx.rows = cartTx[r].rows
        /\ tx.qtys = cartTx[r].qtys /\ tx.todo = cartTx[r].todo /\ tx.made = cartTx[r].made
        /\ tx.lapsed
    BY <1>1 DEF CartTxState
  <2>2. cartTx'[r] = tx
    BY <1>3, <1>4
  <2> HIDE DEF tx
  <2> QED
    BY <2>1, <2>2 DEF SeenOnMenu
<1>5. CASE ~strikes
  <2>1. cartTx'[r] = cartTx[r]
    BY <1>3, <1>5
  <2>2. SeenOnMenu(cartTx[r])'
    BY <1>1, <1>2, <1>5, <2>1 DEF SeenOnMenu
  <2> QED
    BY <1>1, <2>1, <2>2
<1> QED
  BY <1>4, <1>5

LEMMA MenuChangesInv ==
  ASSUME CartInv, NEW p \in OfferedProduct, NEW m \in MenuStatus, MenuChanges(p, m)
  PROVE  CartInv'
<1>1. UNCHANGED <<carts, itemQty, itemUsed>>
  BY DEF MenuChanges
<1>2. CartTxTypeOK'
  <2>1. menu' \in [OfferedProduct -> MenuStatus]
    BY DEF MenuChanges, CartInv, CartTxTypeOK
  <2>2. cartTx' = [r \in CartRequest |-> cartTx'[r]]
    BY DEF MenuChanges
  <2>3. cartTx' \in [CartRequest -> CartTxState]
    BY <2>2, MenuChangesTx
  <2> QED
    BY <1>1, <2>1, <2>3 DEF CartInv, CartTxTypeOK
<1>3. LiveAreUsed'
  BY <1>1 DEF CartInv, LiveAreUsed, InCart
<1>4. RowsAreLocked' /\ FirstUseLeavesCart'
  BY <1>1, MenuChangesTx DEF CartInv, RowsAreLocked, FirstUseLeavesCart, InCart
<1>5. \A r \in CartRequest : TxSound(cartTx[r])'
  <2> TAKE r \in CartRequest
  <2>1. TxSound(cartTx[r])
    BY TxTyped
  <2> QED
    BY <1>1, <2>1, MenuChangesTx DEF TxSound, Added, WasSet, WasCleared, InCart
<1> QED
  BY <1>2, <1>3, <1>4, <1>5 DEF CartInv

LEMMA CartInvStep == CartInv /\ [CartTxNext]_cartTxVars => CartInv'
<1> SUFFICES ASSUME CartInv, [CartTxNext]_cartTxVars
             PROVE  CartInv'
  OBVIOUS
<1>1. CASE CartTxNext
  BY <1>1, CartStatementInv, CommitCartInv, MenuChangesInv, CartAssumption DEF CartTxNext
<1>2. CASE UNCHANGED cartTxVars
  <2>1. CartTxTypeOK' /\ LiveAreUsed' /\ RowsAreLocked' /\ FirstUseLeavesCart'
    BY <1>2 DEF cartTxVars, CartInv, CartTxTypeOK, LiveAreUsed, RowsAreLocked,
       FirstUseLeavesCart, InCart
  <2>2. \A r \in CartRequest : TxSound(cartTx[r])'
    BY <1>2 DEF cartTxVars, CartInv, TxSound, SeenOnMenu, Added, WasSet, WasCleared, InCart
  <2> QED
    BY <2>1, <2>2 DEF CartInv
<1> QED
  BY <1>1, <1>2

-----------------------------------------------------------------------------
(***************************************************************************)
(* The theorems.                                                           *)
(***************************************************************************)

\* The inductive invariant holds for any number of requests, customers and rows.
THEOREM CartInvariance == CartTxSpec => []CartInv
<1> QED
  BY CartInvInit, CartInvStep, PTL DEF CartTxSpec

\* However many first uses of a cart race, no row is left without its cart, and
\* a request that lost the race finds the cart when it is tried again.
THEOREM CartsAreThere == CartTxSpec => []FirstUseLeavesCart
<1>1. CartInv => FirstUseLeavesCart
  BY DEF CartInv
<1> QED
  BY <1>1, CartInvariance, PTL

\* The step of Orders that a COMMIT is.
LEMMA CommitIsHandler ==
  ASSUME CartInv, NEW r \in CartRequest, CommitCart(r)
  PROVE  AsInOrders(r)
<1> DEFINE tx == cartTx[r]
<1>1. /\ tx \in CartTxState /\ TxSound(tx) /\ tx.pc = "commit" /\ tx.rows \in SUBSET ItemId
      /\ itemQty \in [ItemId -> 0..MaxItemQty]
      /\ itemQty' = [i \in ItemId |-> IF i \in tx.rows THEN tx.qtys[i] ELSE itemQty[i]]
      /\ itemUsed' = itemUsed \cup tx.rows /\ menu' = menu
  BY TxTyped DEF CommitCart, CartInv, CartTxTypeOK
<1>2. CASE tx.kind = "add"
  <2>1. PICK i \in ItemId :
          /\ tx.rows = {i} /\ ItemOf[i] = tx.ref
          /\ itemQty[i] + tx.qty <= MaxItemQty /\ tx.qtys[i] = itemQty[i] + tx.qty
          /\ \/ InCart(i)
             \/ i \notin itemUsed /\ \A j \in ItemId : InCart(j) => ItemOf[j] # ItemOf[i]
    BY <1>1, <1>2 DEF TxSound, Added
  <2>2. itemQty' = [itemQty EXCEPT ![i] = itemQty[i] + tx.qty] /\ itemUsed' = itemUsed \cup {i}
    BY <1>1, <2>1
  <2>3. W!AddItemTx(i, tx.qty)
    BY <1>1, <2>1, <2>2 DEF W!AddItemTx, W!Live, InCart, W!productVars, W!orderVars
  <2>4. CASE tx.lapsed
    BY <1>2, <2>1, <2>3, <2>4 DEF AsInOrders
  <2>5. CASE ~tx.lapsed
    <3>1. menu[ItemOf[i].product] = "available" /\ ItemOf[i].product \in OfferedProduct
      BY <1>1, <1>2, <2>1, <2>5 DEF TxSound, SeenOnMenu, OfferedProduct
    <3>2. W!OnSale(W!ProductOf(i))
      BY <3>1 DEF W!OnSale, W!ProductOf
    <3> QED
      BY <1>2, <2>1, <2>3, <3>2 DEF AsInOrders, W!AddItem
  <2> QED
    BY <2>4, <2>5
<1>3. CASE tx.kind = "set"
  <2>1. PICK i \in ItemId : tx.rows = {i} /\ InCart(i) /\ tx.qtys[i] = tx.qty
    BY <1>1, <1>3 DEF TxSound, WasSet
  <2>2. itemUsed' = itemUsed
    BY <1>1, <2>1 DEF CartInv, LiveAreUsed
  <2>3. tx.qty \in 0..MaxItemQty
    BY <1>1 DEF CartTxState
  <2>4. CASE tx.qty > 0
    <3>1. itemQty' = [itemQty EXCEPT ![i] = tx.qty]
      BY <1>1, <2>1
    <3>2. W!UpdateItemQuantity(i, tx.qty)
      BY <1>1, <2>1, <2>2, <3>1 DEF W!UpdateItemQuantity, W!Live, InCart, W!productVars, W!orderVars
    <3>3. \E j \in tx.rows : W!UpdateItemQuantity(j, tx.qty)
      BY <2>1, <3>2
    <3>4. tx.qty # 0
      BY <2>3, <2>4
    <3> QED
      BY <1>3, <2>4, <3>3, <3>4, Zenon DEF AsInOrders
  <2>5. CASE tx.qty = 0
    <3>1. itemQty' = [j \in ItemId |-> IF j \in {i} THEN 0 ELSE itemQty[j]]
      BY <1>1, <2>1, <2>5
    <3>2. W!DeleteItem(i)
      BY <1>1, <2>1, <2>2, <3>1 DEF W!DeleteItem, W!RemoveRows, W!Live, InCart, W!productVars, W!orderVars
    <3> QED
      BY <1>3, <2>1, <2>5, <3>2 DEF AsInOrders
  <2> QED
    BY <2>3, <2>4, <2>5, CartAssumption
<1>4. CASE tx.kind = "clear"
  <2>1. \A i \in tx.rows : InCart(i) /\ tx.qtys[i] = 0
    BY <1>1, <1>4 DEF TxSound, WasCleared
  <2>2. itemUsed' = itemUsed
    BY <1>1, <2>1 DEF CartInv, LiveAreUsed
  <2>3. itemQty' = [i \in ItemId |-> IF i \in tx.rows THEN 0 ELSE itemQty[i]]
    BY <1>1, <2>1
  <2>4. W!ClearItemsByIDs(tx.rows)
    BY <1>1, <2>2, <2>3 DEF W!ClearItemsByIDs, W!RemoveRows, W!productVars, W!orderVars
  <2> QED
    BY <1>4, <2>4 DEF AsInOrders
<1> QED
  BY <1>1, <1>2, <1>3, <1>4 DEF TxSound

\* A change of the menu is a handler of Orders.
LEMMA MenuIsProductStep ==
  ASSUME CartInv, NEW p \in OfferedProduct, NEW m \in MenuStatus, MenuChanges(p, m)
  PROVE  W!ProductStep
<1>1. /\ menu \in [OfferedProduct -> MenuStatus] /\ menu' = [menu EXCEPT ![p] = m]
      /\ menu[p] = "deleted" => m = "available"
      /\ UNCHANGED <<carts, itemQty, itemUsed>>
  BY DEF MenuChanges, CartInv, CartTxTypeOK
<1> DEFINE gone == {q \in OfferedProduct : menu[q] = "deleted"}
           onShelf == [q \in OfferedProduct |-> IF menu[q] = "deleted" THEN "unavailable"
                                               ELSE menu[q]]
<1>2. CASE menu[p] = "deleted"
  <2>1. gone' = gone \ {p} /\ onShelf' = [onShelf EXCEPT ![p] = "available"] /\ p \in gone
    BY <1>1, <1>2
  <2>2. W!RestoreProduct(p)
    BY <1>1, <2>1 DEF W!RestoreProduct, W!cartVars, W!orderVars
  <2> QED
    BY <2>2 DEF W!ProductStep
<1>3. CASE menu[p] # "deleted" /\ m = "deleted"
  <2>1. gone' = gone \cup {p} /\ onShelf' = [onShelf EXCEPT ![p] = "unavailable"]
        /\ p \notin gone
    BY <1>1, <1>3
  <2>2. W!DeleteProduct(p)
    BY <1>1, <2>1 DEF W!DeleteProduct, W!cartVars, W!orderVars
  <2> QED
    BY <2>2 DEF W!ProductStep
<1>4. CASE menu[p] # "deleted" /\ m # "deleted"
  <2>1. gone' = gone /\ onShelf' = [onShelf EXCEPT ![p] = m] /\ p \notin gone
    BY <1>1, <1>4
  <2>2. W!UpdateProductStatus(p, m)
    BY <1>1, <2>1 DEF W!UpdateProductStatus, W!cartVars, W!orderVars
  <2> QED
    BY <1>4, <2>2 DEF W!ProductStep, W!ProductStatus, MenuStatus
<1> QED
  BY <1>2, <1>3, <1>4

\* For any number of requests that interleave with changes of the menu, every
\* COMMIT is the whole handler of Orders, except that an AddItem may commit a
\* product that left the menu after it looked, and nothing else changes the
\* rows: no quantity is lost.
THEOREM CartIsOrders == CartTxSpec => CartAsInOrders
<1>1. CartInv /\ [CartTxNext]_cartTxVars =>
        [IF \E r \in CartRequest : CommitCart(r)
         THEN \E r \in CartRequest : CommitCart(r) /\ AsInOrders(r)
         ELSE UNCHANGED <<itemQty, itemUsed>> /\ (W!ProductStep \/ UNCHANGED menu)]_cartTxVars
  <2> SUFFICES ASSUME CartInv, CartTxNext, ~\E r \in CartRequest : CommitCart(r)
               PROVE  UNCHANGED <<itemQty, itemUsed>> /\ (W!ProductStep \/ UNCHANGED menu)
    BY CommitIsHandler
  <2>1. CASE \E r \in CartRequest : UNCHANGED <<menu, carts, itemQty, itemUsed>>
    BY <2>1
  <2>2. CASE \E ask \in MenuAsks : MenuChanges(ask[1], ask[2])
    <3>1. PICK ask \in MenuAsks : MenuChanges(ask[1], ask[2])
      BY <2>2
    <3>2. ask[1] \in OfferedProduct /\ ask[2] \in MenuStatus
      BY CartAssumption
    <3>3. W!ProductStep
      BY <3>1, <3>2, MenuIsProductStep
    <3> QED
      BY <3>1, <3>3 DEF MenuChanges
  <2> QED
    BY <2>1, <2>2 DEF CartTxNext
<1> QED
  BY <1>1, CartInvariance, PTL DEF CartTxSpec, CartAsInOrders

-----------------------------------------------------------------------------
(***************************************************************************)
(* The order of the statements.                                            *)
(***************************************************************************)

LEMMA Places ==
  /\ Place("date") = 1
  /\ Place("count") = 2
  /\ Place("insert") = 3
  /\ Place("lines") = 4
  /\ Place("commit") = 5
<1> DEFINE At(step, n) == \A k \in DOMAIN Steps : Steps[k] = step <=> k = n
<1>1. At("date", 1) /\ At("count", 2) /\ At("insert", 3) /\ At("lines", 4) /\ At("commit", 5)
  BY DEF Steps
<1>2. DOMAIN Steps = 1..5
  BY DEF Steps
<1>3. \A step, n : n \in 1..5 /\ At(step, n) => Place(step) = n
  <2> HIDE DEF At
  <2> SUFFICES ASSUME NEW step, NEW n \in 1..5, At(step, n)
               PROVE  Place(step) = n
    OBVIOUS
  <2>1. \E k \in DOMAIN Steps : Steps[k] = step
    BY <1>2 DEF At
  <2>2. Place(step) \in DOMAIN Steps /\ Steps[Place(step)] = step
    BY <2>1 DEF Place
  <2> QED
    BY <2>2 DEF At
<1> QED
  BY <1>1, <1>3

\* What a checkout at each step has done, and where it goes next.
LEMMA Order ==
  /\ \A b : /\ Past(b, "date") <=> buyer[b].pc # "idle" /\ Place(buyer[b].pc) > 1
            /\ Past(b, "count") <=> buyer[b].pc # "idle" /\ Place(buyer[b].pc) > 2
            /\ Past(b, "insert") <=> buyer[b].pc # "idle" /\ Place(buyer[b].pc) > 3
  /\ Steps[1] = "date" /\ After("date") = "count" /\ After("count") = "insert"
  /\ After("insert") = "lines" /\ After("lines") = "commit"
BY Places DEF Past, After, Steps

-----------------------------------------------------------------------------
(***************************************************************************)
(* The inductive invariant of OrderNumbers.                                *)
(***************************************************************************)

\* A checkout that runs has a day, and locks products only after the date.
RunningHaveDay ==
  \A b \in Buyer :
    /\ buyer[b].pc # "idle" => buyer[b].day \in Day
    /\ buyer[b].held # {} => Past(b, "date")

\* One checkout at a time has the lock of a day.
DateLockExclusive ==
  \A b, c \in Buyer :
    Past(b, "date") /\ Past(c, "date") /\ buyer[b].day = buyer[c].day => b = c

\* The number a checkout counted is still the next one of its day.
CountIsNext ==
  \A b \in Buyer :
    Past(b, "count") => /\ buyer[b].number = Cardinality(numbered[buyer[b].day]) + 1
                        /\ buyer[b].number \in 1..MaxNumber

NumbersInv ==
  /\ NumbersTypeOK
  /\ RunningHaveDay
  /\ DateLockExclusive
  /\ CountIsNext
  /\ NumbersConsecutive

\* The date comes before the count.
LEMMA CountedHasDate ==
  ASSUME NumbersInv, NEW b \in Buyer, Past(b, "count")
  PROVE  Past(b, "date")
<1>1. buyer[b].pc \in {"date", "count", "insert", "lines", "commit"}
  BY DEF Past, NumbersInv, NumbersTypeOK, BuyerState
<1> QED
  BY <1>1, Places DEF Past

\* The set of a day's numbers has as many elements as the last number.
LEMMA NumbersOfDay ==
  ASSUME NumbersInv, NEW d \in Day
  PROVE  /\ Cardinality(numbered[d]) \in Nat
         /\ numbered[d] = 1..Cardinality(numbered[d])
<1>1. numbered[d] \in SUBSET (1..MaxNumber)
  BY DEF NumbersInv, NumbersTypeOK
<1>2. IsFiniteSet(numbered[d])
  <2>1. IsFiniteSet(1..MaxNumber)
    BY FS_Interval, NumbersAssumption
  <2> QED
    BY <1>1, <2>1, FS_Subset
<1> QED
  BY <1>2, FS_CardinalityType DEF NumbersInv, NumbersConsecutive

LEMMA NoBuyerType == NoBuyer \in BuyerState
<1>1. << >> \in Seq(WantedProduct)
  OBVIOUS
<1> QED
  BY <1>1, NumbersAssumption DEF NoBuyer, BuyerState

LEMMA NumbersInvInit == NumbersInit => NumbersInv
<1> SUFFICES ASSUME NumbersInit
             PROVE  NumbersInv
  OBVIOUS
<1>2. NumbersTypeOK
  BY NoBuyerType DEF NumbersInit, NumbersTypeOK
<1>3. RunningHaveDay /\ DateLockExclusive /\ CountIsNext
  BY DEF NumbersInit, NoBuyer, RunningHaveDay, DateLockExclusive, CountIsNext, Past
<1>4. NumbersConsecutive
  <2>1. Cardinality({}) = 0 /\ 1..0 = {}
    BY FS_EmptySet
  <2> QED
    BY <2>1 DEF NumbersInit, NumbersConsecutive
<1> QED
  BY <1>2, <1>3, <1>4 DEF NumbersInv

\* A checkout that ends, whatever it had done, disturbs no other one.
LEMMA AbandonInv ==
  ASSUME NumbersInv, NEW b \in Buyer, AbandonsOrder(b)
  PROVE  NumbersInv'
<1>2. /\ buyer'[b].pc = "idle" /\ buyer'[b].held = {}
      /\ \A c \in Buyer \ {b} : buyer'[c] = buyer[c]
  BY DEF AbandonsOrder, NoBuyer, NumbersInv, NumbersTypeOK
<1>3. NumbersTypeOK'
  BY NoBuyerType DEF AbandonsOrder, NumbersInv, NumbersTypeOK
<1>4. UNCHANGED numbered
  BY DEF AbandonsOrder
<1>5. (RunningHaveDay /\ DateLockExclusive /\ CountIsNext /\ NumbersConsecutive)'
  BY <1>2, <1>4 DEF NumbersInv, RunningHaveDay, DateLockExclusive, CountIsNext,
     NumbersConsecutive, Past
<1> QED
  BY <1>3, <1>5 DEF NumbersInv

\* A checkout that goes on with its day, its number and, once it has the date,
\* products it locked.
LEMMA AdvanceInv ==
  ASSUME NumbersInv, NEW b \in Buyer,
         NumbersTypeOK', UNCHANGED numbered,
         \A c \in Buyer \ {b} : buyer'[c] = buyer[c],
         buyer'[b].pc # "idle", buyer'[b].day \in Day,
         buyer'[b].held # {} => Past(b, "date")',
         Past(b, "date")' =>
           \A c \in Buyer \ {b} : ~(Past(c, "date") /\ buyer[c].day = buyer'[b].day),
         Past(b, "count")' =>
           /\ buyer'[b].number = Cardinality(numbered[buyer'[b].day]) + 1
           /\ buyer'[b].number \in 1..MaxNumber
  PROVE  NumbersInv'
<1>1. \A c \in Buyer \ {b} : /\ Past(c, "date")' <=> Past(c, "date")
                             /\ Past(c, "count")' <=> Past(c, "count")
  BY DEF Past
<1>2. RunningHaveDay'
  BY <1>1 DEF NumbersInv, RunningHaveDay
<1>3. DateLockExclusive'
  BY <1>1 DEF NumbersInv, DateLockExclusive
<1>4. CountIsNext'
  BY <1>1 DEF NumbersInv, CountIsNext
<1>5. NumbersConsecutive'
  BY DEF NumbersInv, NumbersConsecutive
<1> QED
  BY <1>2, <1>3, <1>4, <1>5 DEF NumbersInv

-----------------------------------------------------------------------------
(***************************************************************************)
(* One lemma for each statement.                                           *)
(***************************************************************************)

\* The checkout of b becomes r; the others stay as they are.
LEMMA BecomesTypes ==
  ASSUME NumbersInv, NEW b \in Buyer, NEW r \in BuyerState,
         buyer' = [buyer EXCEPT ![b] = r], UNCHANGED numbered
  PROVE  /\ NumbersTypeOK'
         /\ buyer'[b] = r
         /\ \A c \in Buyer \ {b} : buyer'[c] = buyer[c]
BY DEF NumbersInv, NumbersTypeOK

LEMMA ReadClockInv ==
  ASSUME NumbersInv, NEW b \in Buyer, NEW day \in Day, NEW wanted \in Wanted,
         ReadClock(b, day, wanted)
  PROVE  NumbersInv'
<1> DEFINE r == [NoBuyer EXCEPT !.pc = Steps[1], !.day = day, !.todo = wanted]
<1>1. r \in BuyerState /\ r.pc = "date" /\ r.day = day /\ r.held = {}
  BY NoBuyerType, WantedAssumption, Order DEF NoBuyer, BuyerState
<1>2. buyer' = [buyer EXCEPT ![b] = r] /\ UNCHANGED numbered
  BY DEF ReadClock
<1> HIDE DEF r
<1>3. NumbersTypeOK' /\ buyer'[b] = r /\ \A c \in Buyer \ {b} : buyer'[c] = buyer[c]
  BY <1>1, <1>2, BecomesTypes
<1>4. ~Past(b, "date")' /\ ~Past(b, "count")'
  BY <1>1, <1>3, Places DEF Past
<1> QED
  BY <1>1, <1>2, <1>3, <1>4, AdvanceInv

LEMMA LockDateInv ==
  ASSUME NumbersInv, NEW b \in Buyer, LockDate(b)
  PROVE  NumbersInv'
<1> DEFINE r == [buyer[b] EXCEPT !.pc = "count"]
<1>1. buyer[b] \in BuyerState /\ buyer[b].pc = "date" /\ buyer[b].day \in Day
  BY DEF LockDate, NumbersInv, NumbersTypeOK, RunningHaveDay
<1>2. r \in BuyerState /\ r.pc = "count" /\ r.day = buyer[b].day /\ r.held = buyer[b].held
  BY <1>1 DEF BuyerState
<1>3. buyer' = [buyer EXCEPT ![b] = r] /\ UNCHANGED numbered
  BY Order DEF LockDate
<1>4. \A c \in Buyer : ~(Past(c, "date") /\ buyer[c].day = buyer[b].day)
  BY DEF LockDate, HoldsDate
<1> HIDE DEF r
<1>5. NumbersTypeOK' /\ buyer'[b] = r /\ \A c \in Buyer \ {b} : buyer'[c] = buyer[c]
  BY <1>2, <1>3, BecomesTypes
<1>6. Past(b, "date")' /\ ~Past(b, "count")'
  BY <1>2, <1>5, Places DEF Past
<1> QED
  BY <1>1, <1>2, <1>3, <1>4, <1>5, <1>6, AdvanceInv

\* A checkout that has the date goes on, with the same day and number, or the
\* number it has just counted.
LEMMA HoldsOnInv ==
  ASSUME NumbersInv, NEW b \in Buyer, Past(b, "date"), NEW r \in BuyerState,
         buyer' = [buyer EXCEPT ![b] = r], UNCHANGED numbered,
         r.day = buyer[b].day,
         r.pc \in {"insert", "lines", "commit"},
         \/ Past(b, "count") /\ r.number = buyer[b].number
         \/ /\ r.number = Cardinality(numbered[buyer[b].day]) + 1
            /\ Cardinality(numbered[buyer[b].day]) < MaxNumber
  PROVE  NumbersInv'
<1>1. NumbersTypeOK' /\ buyer'[b] = r /\ \A c \in Buyer \ {b} : buyer'[c] = buyer[c]
  BY BecomesTypes
<1>2. buyer[b].day \in Day /\ r.pc # "idle"
  BY DEF Past, NumbersInv, RunningHaveDay
<1>3. Past(b, "date")'
  BY <1>1, Places DEF Past
<1>4. \A c \in Buyer \ {b} : ~(Past(c, "date") /\ buyer[c].day = r.day)
  BY DEF NumbersInv, DateLockExclusive
<1>5. r.number = Cardinality(numbered[r.day]) + 1 /\ r.number \in 1..MaxNumber
  <2>1. Cardinality(numbered[buyer[b].day]) \in Nat
    BY <1>2, NumbersOfDay
  <2> QED
    BY <2>1, NumbersAssumption DEF NumbersInv, CountIsNext
<1> QED
  BY <1>1, <1>2, <1>3, <1>4, <1>5, AdvanceInv

LEMMA CountInv ==
  ASSUME NumbersInv, NEW b \in Buyer, CountOrders(b)
  PROVE  NumbersInv'
<1> DEFINE n == Cardinality(numbered[buyer[b].day])
           r == [buyer[b] EXCEPT !.pc = "insert", !.number = n + 1]
<1>1. buyer[b] \in BuyerState /\ buyer[b].pc = "count" /\ buyer[b].day \in Day
  BY DEF CountOrders, NumbersInv, NumbersTypeOK, RunningHaveDay
<1>2. n \in Nat /\ n < MaxNumber /\ n + 1 \in 0..MaxNumber
  BY <1>1, NumbersOfDay, NumbersAssumption DEF CountOrders, CountOf
<1>3. Past(b, "date")
  BY <1>1, Places DEF Past
<1>4. buyer' = [buyer EXCEPT ![b] = r] /\ UNCHANGED numbered
  BY Order DEF CountOrders, CountOf
<1> HIDE DEF n
<1>5. r \in BuyerState /\ r.pc = "insert" /\ r.day = buyer[b].day /\ r.number = n + 1
  BY <1>1, <1>2 DEF BuyerState
<1> HIDE DEF r
<1> QED
  BY <1>2, <1>3, <1>4, <1>5, HoldsOnInv DEF n

LEMMA InsertOrderInv ==
  ASSUME NumbersInv, NEW b \in Buyer, InsertOrder(b)
  PROVE  NumbersInv'
<1>1. CASE AbandonsOrder(b)
  BY <1>1, AbandonInv
<1>2. CASE buyer' = [buyer EXCEPT ![b].pc = After("insert")] /\ UNCHANGED numbered
  <2> DEFINE r == [buyer[b] EXCEPT !.pc = "lines"]
  <2>1. buyer[b] \in BuyerState /\ buyer[b].pc = "insert"
    BY DEF InsertOrder, NumbersInv, NumbersTypeOK
  <2>2. r \in BuyerState /\ r.pc = "lines" /\ r.day = buyer[b].day /\ r.number = buyer[b].number
    BY <2>1 DEF BuyerState
  <2>3. buyer' = [buyer EXCEPT ![b] = r] /\ UNCHANGED numbered
    BY <1>2, Order
  <2>4. Past(b, "date") /\ Past(b, "count")
    BY <2>1, Places DEF Past
  <2> HIDE DEF r
  <2> QED
    BY <2>2, <2>3, <2>4, HoldsOnInv
<1> QED
  BY <1>1, <1>2 DEF InsertOrder

LEMMA LockLineInv ==
  ASSUME NumbersInv, NEW b \in Buyer, LockLine(b)
  PROVE  NumbersInv'
<1> DEFINE p == Head(buyer[b].todo)
           r == [buyer[b] EXCEPT !.held = @ \cup {p}, !.todo = Tail(@)]
<1>1. buyer[b] \in BuyerState /\ buyer[b].pc = "lines" /\ buyer[b].todo # << >>
  BY DEF LockLine, NumbersInv, NumbersTypeOK
<1>2. p \in WantedProduct /\ Tail(buyer[b].todo) \in Seq(WantedProduct)
  BY <1>1 DEF BuyerState
<1>3. r \in BuyerState /\ r.pc = "lines" /\ r.day = buyer[b].day /\ r.number = buyer[b].number
  BY <1>1, <1>2 DEF BuyerState
<1>4. buyer' = [buyer EXCEPT ![b] = r] /\ UNCHANGED numbered
  BY DEF LockLine
<1>5. Past(b, "date") /\ Past(b, "count")
  BY <1>1, Places DEF Past
<1> HIDE DEF r
<1> QED
  BY <1>3, <1>4, <1>5, HoldsOnInv

LEMMA LinesDoneInv ==
  ASSUME NumbersInv, NEW b \in Buyer, LinesDone(b)
  PROVE  NumbersInv'
<1> DEFINE r == [buyer[b] EXCEPT !.pc = "commit"]
<1>1. buyer[b] \in BuyerState /\ buyer[b].pc = "lines"
  BY DEF LinesDone, NumbersInv, NumbersTypeOK
<1>2. r \in BuyerState /\ r.pc = "commit" /\ r.day = buyer[b].day /\ r.number = buyer[b].number
  BY <1>1 DEF BuyerState
<1>3. buyer' = [buyer EXCEPT ![b] = r] /\ UNCHANGED numbered
  BY Order DEF LinesDone
<1>4. Past(b, "date") /\ Past(b, "count")
  BY <1>1, Places DEF Past
<1> HIDE DEF r
<1> QED
  BY <1>2, <1>3, <1>4, HoldsOnInv

\* The day gets its next number.
LEMMA CommitInv ==
  ASSUME NumbersInv, NEW b \in Buyer, CommitOrderNumber(b)
  PROVE  NumbersInv'
<1> DEFINE d == buyer[b].day
           n == Cardinality(numbered[d])
<1>1. /\ buyer[b].pc = "commit" /\ d \in Day
      /\ numbered' = [numbered EXCEPT ![d] = @ \cup {buyer[b].number}]
      /\ buyer' = [buyer EXCEPT ![b] = NoBuyer]
  BY DEF CommitOrderNumber, NumbersInv, RunningHaveDay
<1>2. Past(b, "date") /\ Past(b, "count")
  BY <1>1, Places DEF Past
<1>3. n \in Nat /\ numbered[d] = 1..n /\ buyer[b].number = n + 1 /\ n + 1 \in 1..MaxNumber
  BY <1>1, <1>2, NumbersOfDay DEF NumbersInv, CountIsNext
<1> HIDE DEF d, n
<1>4. numbered'[d] = 1..(n + 1) /\ \A e \in Day \ {d} : numbered'[e] = numbered[e]
  BY <1>1, <1>3 DEF NumbersInv, NumbersTypeOK
<1>5. Cardinality(1..(n + 1)) = n + 1
  BY <1>3, FS_Interval
<1>6. NumbersConsecutive'
  BY <1>4, <1>5 DEF NumbersInv, NumbersConsecutive
<1>7. NumbersTypeOK'
  BY <1>1, <1>3, NoBuyerType DEF NumbersInv, NumbersTypeOK
<1>8. /\ buyer'[b].pc = "idle" /\ buyer'[b].held = {}
      /\ \A c \in Buyer \ {b} : buyer'[c] = buyer[c]
  BY <1>1 DEF NoBuyer, NumbersInv, NumbersTypeOK
<1>9. RunningHaveDay' /\ DateLockExclusive'
  BY <1>8 DEF NumbersInv, RunningHaveDay, DateLockExclusive, Past
<1>10. CountIsNext'
  <2> SUFFICES ASSUME NEW c \in Buyer, Past(c, "count")'
               PROVE  /\ buyer'[c].number = Cardinality(numbered'[buyer'[c].day]) + 1
                      /\ buyer'[c].number \in 1..MaxNumber
    BY DEF CountIsNext
  <2>1. c # b /\ buyer'[c] = buyer[c]
    BY <1>8 DEF Past
  <2>2. Past(c, "count") /\ Past(c, "date")
    BY <2>1, CountedHasDate DEF Past
  <2>3. buyer[c].day \in Day /\ buyer[c].day # d
    BY <1>2, <2>1, <2>2 DEF NumbersInv, RunningHaveDay, DateLockExclusive, Past, d
  <2> QED
    BY <1>4, <2>1, <2>2, <2>3 DEF NumbersInv, CountIsNext
<1> QED
  BY <1>6, <1>7, <1>9, <1>10 DEF NumbersInv

LEMMA NumbersInvStep == NumbersInv /\ [NumbersNext]_numbersVars => NumbersInv'
<1> SUFFICES ASSUME NumbersInv, [NumbersNext]_numbersVars
             PROVE  NumbersInv'
  OBVIOUS
<1>1. ASSUME NEW b \in Buyer,
             \/ \E day \in Day, wanted \in Wanted : ReadClock(b, day, wanted)
             \/ LockDate(b) \/ CountOrders(b) \/ InsertOrder(b) \/ LockLine(b)
             \/ LinesDone(b) \/ CommitOrderNumber(b) \/ CheckoutFails(b)
      PROVE  NumbersInv'
  BY <1>1, ReadClockInv, LockDateInv, CountInv, InsertOrderInv, LockLineInv, LinesDoneInv,
     CommitInv, AbandonInv DEF CheckoutFails
<1>2. CASE UNCHANGED numbersVars
  BY <1>2 DEF numbersVars, NumbersInv, NumbersTypeOK, RunningHaveDay, DateLockExclusive,
     CountIsNext, NumbersConsecutive, Past
<1> QED
  BY <1>1, <1>2 DEF NumbersNext

-----------------------------------------------------------------------------
(***************************************************************************)
(* The theorems about OrderNumbers.                                        *)
(***************************************************************************)

\* The inductive invariant holds in every state of any number of checkouts on
\* any number of servers and days.
THEOREM NumbersInvariance == NumbersSpec => []NumbersInv
<1> QED
  BY NumbersInvInit, NumbersInvStep, PTL DEF NumbersSpec

\* The numbers of every day are 1, 2, ... without a gap.
THEOREM NoGaps == NumbersSpec => []NumbersConsecutive
<1>1. NumbersInv => NumbersConsecutive
  BY DEF NumbersInv
<1> QED
  BY <1>1, NumbersInvariance, PTL

LEMMA FreeInInv == NumbersInv => NumberIsFree
<1> SUFFICES ASSUME NumbersInv, NEW b \in Buyer, Past(b, "count")
             PROVE  /\ buyer[b].number \notin numbered[buyer[b].day]
                    /\ \A c \in Buyer \ {b} :
                         Past(c, "count") /\ buyer[c].day = buyer[b].day
                           => buyer[c].number # buyer[b].number
  BY DEF NumberIsFree
<1>1. Past(b, "date") /\ buyer[b].day \in Day
  BY CountedHasDate DEF NumbersInv, RunningHaveDay, Past
<1>2. buyer[b].number \notin numbered[buyer[b].day]
  <2> DEFINE n == Cardinality(numbered[buyer[b].day])
  <2>1. n \in Nat /\ numbered[buyer[b].day] = 1..n
    BY <1>1, NumbersOfDay
  <2>2. buyer[b].number = n + 1
    BY DEF NumbersInv, CountIsNext
  <2> HIDE DEF n
  <2> QED
    BY <2>1, <2>2
<1>3. \A c \in Buyer \ {b} : ~(Past(c, "count") /\ buyer[c].day = buyer[b].day)
  BY <1>1, CountedHasDate DEF NumbersInv, DateLockExclusive
<1> QED
  BY <1>2, <1>3

\* No checkout loses its order to the unique constraint of order numbers: the
\* lock of the day keeps the number it counted free until it commits.
THEOREM NumbersAreFree == NumbersSpec => []NumberIsFree
<1> QED
  BY FreeInInv, NumbersInvariance, PTL

\* A checkout of the same day that another one waits for has the day's lock.
LEMMA AwaitedHasDate ==
  ASSUME NumbersInv, NEW b \in Buyer, NEW c \in Awaited(b), buyer[c].day = buyer[b].day
  PROVE  c \in Buyer \ {b} /\ Past(c, "date") /\ ~Past(b, "date")
<1>1. CASE buyer[b].pc = "date"
  BY <1>1, Places DEF Awaited, HoldsDate, Past
<1>2. CASE buyer[b].pc = "insert"
  <2>1. c \in SameNumber(b)
    BY <1>2 DEF Awaited
  <2>2. c \in Buyer \ {b} /\ Past(c, "count") /\ Past(b, "count")
    <3>1. c \in Buyer \ {b} /\ Past(c, "insert")
      BY <2>1 DEF SameNumber
    <3>2. buyer[c].pc \in {"idle", "date", "count", "insert", "lines", "commit"}
      BY <3>1 DEF NumbersInv, NumbersTypeOK, BuyerState
    <3> QED
      BY <1>2, <3>1, <3>2, Places DEF Past
  <2>3. FALSE
    BY <2>1, <2>2, FreeInInv DEF SameNumber, NumberIsFree
  <2> QED
    BY <2>3
<1>3. CASE buyer[b].pc = "lines" /\ buyer[b].todo # << >>
  <2>1. c \in Buyer \ {b} /\ buyer[c].held # {}
    BY <1>3 DEF Awaited
  <2>2. Past(c, "date") /\ Past(b, "date")
    BY <1>3, <2>1, Places DEF Past, NumbersInv, RunningHaveDay
  <2> QED
    BY <2>1, <2>2 DEF NumbersInv, DateLockExclusive
<1> QED
  BY <1>1, <1>2, <1>3 DEF Awaited

LEMMA DeadlocksInInv == NumbersInv => DeadlocksSpanDays
<1> SUFFICES ASSUME NumbersInv, NEW B \in SUBSET Buyer, B # {},
                    \A b \in B : Awaited(b) \cap B # {}
             PROVE  Cardinality({buyer[b].day : b \in B}) > 1
  BY DEF DeadlocksSpanDays
<1> DEFINE D == {buyer[b].day : b \in B}
<1>1. PICK b \in B : TRUE
  OBVIOUS
<1>2. PICK c \in B : c \in Awaited(b)
  BY <1>1
<1>3. PICK e \in B : e \in Awaited(c)
  BY <1>2
<1>4. \E x, y \in D : x # y
  <2> SUFFICES ASSUME \A x, y \in D : x = y
               PROVE  FALSE
    OBVIOUS
  <2>1. buyer[c].day = buyer[b].day /\ buyer[e].day = buyer[c].day
    OBVIOUS
  <2>2. Past(c, "date")
    BY <1>2, <2>1, AwaitedHasDate
  <2>3. ~Past(c, "date")
    BY <1>3, <2>1, AwaitedHasDate
  <2> QED
    BY <2>2, <2>3
<1>5. IsFiniteSet(D) /\ Cardinality(D) \in Nat
  <2>1. IsFiniteSet(B)
    BY BuyerAssumption, FS_Subset
  <2> DEFINE day == [x \in B |-> buyer[x].day]
  <2>2. IsFiniteSet(D)
    <3>1. day \in [B -> D] /\ \A y \in D : \E x \in B : day[x] = y
      OBVIOUS
    <3>2. day \in Surjection(B, D)
      BY <3>1 DEF Surjection
    <3> QED
      BY <2>1, <3>2, FS_Surjection
  <2> QED
    BY <2>2, FS_CardinalityType
<1>6. Cardinality(D) # 0 /\ Cardinality(D) # 1
  <2> HIDE DEF D
  <2> QED
    BY <1>4, <1>5, FS_EmptySet, FS_Singleton
<1> QED
  BY <1>5, <1>6

\* Checkouts that wait for each other in a circle have numbers of at least two
\* days: those of one day never deadlock, in whatever order they lock products.
THEOREM OneDayNeverDeadlocks == NumbersSpec => []DeadlocksSpanDays
<1> QED
  BY DeadlocksInInv, NumbersInvariance, PTL

-----------------------------------------------------------------------------
(***************************************************************************)
(* Amounts: folds over the lines of an order.                              *)
(***************************************************************************)

\* The element that a fold takes out of a set.
Picked(s) == CHOOSE x \in s : TRUE

\* A set of natural numbers has a least one, and a set of finite sets has one
\* of which nothing can be taken out: what is wrong of some set of lines is
\* wrong of a smallest one.  This stands in for induction over the lines.
LEMMA LeastNatural ==
  ASSUME NEW N \in SUBSET Nat, N # {}
  PROVE  \E n \in N : \A k \in N : n <= k
<1>1. IsWellFoundedOn(OpToRel(<, Nat), Nat)
  BY NatLessThanWellFounded
<1>2. PICK n \in N : \A k \in N : ~ (<<k, n>> \in OpToRel(<, Nat))
  BY <1>1, WFMin
<1>3. \A k \in N : ~ (k < n)
  BY <1>2, Zenon DEF OpToRel
<1> QED
  BY <1>3

LEMMA LeastSubset ==
  ASSUME NEW S, IsFiniteSet(S), NEW T \in SUBSET (SUBSET S), T # {}
  PROVE  \E s \in T : \A x \in s : s \ {x} \notin T
<1>1. \A s \in SUBSET S : IsFiniteSet(s) /\ Cardinality(s) \in Nat
  BY FS_Subset, FS_CardinalityType
<1> DEFINE N == {Cardinality(s) : s \in T}
<1>2. PICK n \in N : \A k \in N : n <= k
  <2>1. N \in SUBSET Nat /\ N # {}
    BY <1>1
  <2> HIDE DEF N
  <2> QED
    BY <2>1, LeastNatural
<1>3. PICK s \in T : n = Cardinality(s)
  OBVIOUS
<1>4. ASSUME NEW x \in s, s \ {x} \in T
      PROVE  FALSE
  <2>1. Cardinality(s \ {x}) = Cardinality(s) - 1
    BY <1>1, FS_RemoveElement
  <2>2. Cardinality(s) <= Cardinality(s \ {x})
    BY <1>2, <1>3, <1>4
  <2> QED
    BY <1>1, <2>1, <2>2
<1> QED
  BY <1>3, <1>4

\* g is the fold over S that starts with base and takes step.
IsFold(g, S, base, step) ==
  g = [s \in SUBSET S |->
         IF s = {} THEN base ELSE step[<<Picked(s), g[s \ {Picked(s)}]>>]]

\* A fold over a finite set exists and keeps the type of what it folds.
LEMMA FoldExists ==
  ASSUME NEW S, IsFiniteSet(S), NEW V, NEW base \in V, NEW step \in [S \X V -> V]
  PROVE  \E g \in [SUBSET S -> V] : IsFold(g, S, base, step)
<1> DEFINE Small(n) == {s \in SUBSET S : Cardinality(s) <= n}
           FoldsTo(g, n) ==
             \A s \in Small(n) :
               g[s] = IF s = {} THEN base ELSE step[<<Picked(s), g[s \ {Picked(s)}]>>]
           Missing == {n \in Nat : ~ \E g \in [Small(n) -> V] : FoldsTo(g, n)}
<1>1. \A s \in SUBSET S : IsFiniteSet(s) /\ Cardinality(s) \in Nat
  BY FS_Subset, FS_CardinalityType
<1>2. ASSUME NEW n \in Nat, NEW s \in Small(n), s # {}
      PROVE  /\ Picked(s) \in s /\ Picked(s) \in S
             /\ n # 0 /\ s \ {Picked(s)} \in Small(n - 1) /\ s \ {Picked(s)} \in Small(n)
  <2>1. Picked(s) \in s
    BY <1>2 DEF Picked
  <2>2. Cardinality(s \ {Picked(s)}) = Cardinality(s) - 1
    BY <1>1, <2>1, FS_RemoveElement
  <2>3. Cardinality(s) # 0
    BY <1>1, <1>2, FS_EmptySet
  <2> QED
    BY <1>1, <2>1, <2>2, <2>3
<1>3. Missing = {}
  <2> SUFFICES ASSUME Missing # {}
               PROVE  FALSE
    OBVIOUS
  <2>1. PICK n \in Missing : \A k \in Missing : n <= k
    <3>1. Missing \in SUBSET Nat
      OBVIOUS
    <3> HIDE DEF Missing
    <3> QED
      BY <3>1, LeastNatural
  <2>2. CASE n = 0
    <3> DEFINE g == [s \in Small(0) |-> base]
    <3>1. g \in [Small(0) -> V] /\ FoldsTo(g, 0)
      BY <1>2
    <3> QED
      BY <2>1, <2>2, <3>1
  <2>3. CASE n # 0
    <3>1. n \in Nat /\ n - 1 \in Nat /\ n - 1 \notin Missing
      <4>1. n \in Nat
        BY <2>1
      <4> HIDE DEF Missing
      <4> QED
        BY <2>1, <2>3, <4>1
    <3>2. PICK g \in [Small(n - 1) -> V] : FoldsTo(g, n - 1)
      BY <3>1
    <3> DEFINE h == [s \in Small(n) |->
                       IF s = {} THEN base ELSE step[<<Picked(s), g[s \ {Picked(s)}]>>]]
    <3> HIDE DEF Missing
    <3>3. h \in [Small(n) -> V]
      <4>1. ASSUME NEW s \in Small(n), s # {}
            PROVE  step[<<Picked(s), g[s \ {Picked(s)}]>>] \in V
        <5>1. Picked(s) \in S /\ s \ {Picked(s)} \in Small(n - 1)
          BY <1>2, <2>1, <3>1, <4>1
        <5> HIDE DEF Small
        <5>2. g[s \ {Picked(s)}] \in V
          BY <5>1
        <5> QED
          BY <5>1, <5>2
      <4> HIDE DEF Small
      <4> QED
        BY <4>1
    <3>4. \A s \in Small(n - 1) : s \in Small(n) /\ h[s] = g[s]
      <4>1. Small(n - 1) \subseteq Small(n)
        BY <1>1, <3>1
      <4>2. \A s \in Small(n - 1) : g[s] = IF s = {} THEN base ELSE step[<<Picked(s), g[s \ {Picked(s)}]>>]
        BY <3>2
      <4> HIDE DEF Small, FoldsTo
      <4> QED
        BY <4>1, <4>2
    <3>5. FoldsTo(h, n)
      <4> SUFFICES ASSUME NEW s \in Small(n)
                   PROVE  h[s] = IF s = {} THEN base ELSE step[<<Picked(s), h[s \ {Picked(s)}]>>]
        OBVIOUS
      <4>1. s # {} => s \ {Picked(s)} \in Small(n - 1)
        BY <1>2, <2>1, <3>1
      <4> HIDE DEF Small, FoldsTo
      <4>2. s # {} => h[s \ {Picked(s)}] = g[s \ {Picked(s)}]
        BY <3>4, <4>1
      <4>3. h[s] = IF s = {} THEN base ELSE step[<<Picked(s), g[s \ {Picked(s)}]>>]
        OBVIOUS
      <4> HIDE DEF h
      <4> QED
        BY <4>2, <4>3
    <3> QED
      BY <3>3, <3>5, <2>1 DEF Missing
  <2> QED
    BY <2>2, <2>3
<1>4. Cardinality(S) \in Nat /\ Small(Cardinality(S)) = SUBSET S
  BY <1>1, FS_Subset, FS_CardinalityType
<1>5. PICK g \in [SUBSET S -> V] : FoldsTo(g, Cardinality(S))
  <2>1. Cardinality(S) \notin Missing
    BY <1>3, Zenon
  <2> QED
    BY <1>4, <2>1, Zenon
<1>6. \A s \in SUBSET S :
        g[s] = IF s = {} THEN base ELSE step[<<Picked(s), g[s \ {Picked(s)}]>>]
  BY <1>4, <1>5
<1> QED
  BY <1>5, <1>6, Zenon DEF IsFold

\* Wrap is an integer of Width bits, and the integer itself if it fits.
LEMMA WrapsInRange ==
  /\ Limit \in Nat /\ Limit > 0
  /\ \A n \in Int : Wrap(n) \in (-Limit)..(Limit - 1)
  /\ \A n \in 0..(Limit - 1) : Wrap(n) = n
<1>1. Limit \in Nat /\ Limit > 0
  BY AmountsAssumption DEF Limit
<1>2. ASSUME NEW n \in Int
      PROVE  Wrap(n) \in (-Limit)..(Limit - 1)
  <2>1. (n + Limit) % (2 * Limit) \in 0..(2 * Limit - 1)
    BY <1>1
  <2> QED
    BY <1>1, <2>1 DEF Wrap
<1>3. ASSUME NEW n \in 0..(Limit - 1)
      PROVE  Wrap(n) = n
  <2>1. n + Limit \in 0..(2 * Limit - 1)
    BY <1>1
  <2>2. (n + Limit) % (2 * Limit) = n + Limit
    BY <1>1, <2>1
  <2> QED
    BY <1>1, <2>2 DEF Wrap
<1> QED
  BY <1>1, <1>2, <1>3

\* What a line comes to, exactly and in int32.
LEMMA LineWorth ==
  ASSUME NEW line \in PricedLine
  PROVE  Exact(line) \in Nat /\ Subtotal(line) \in Int
<1>1. line.price \in Nat /\ line.quantity \in Nat
  BY AmountsAssumption DEF PricedLine
<1>2. Exact(line) \in Nat
  BY <1>1 DEF Exact
<1> QED
  BY <1>2, WrapsInRange DEF Subtotal

\* The total is built line by line, each sum wrapped.
LEMMA TotalIsFold ==
  ASSUME NEW lines \in [Priced -> PricedLine]
  PROVE  \E g \in [SUBSET Priced -> Int] :
           /\ TotalAmount(lines) = g[Priced]
           /\ g[{}] = 0
           /\ \A s \in SUBSET Priced : s # {} =>
                g[s] = Wrap(g[s \ {Picked(s)}] + Subtotal(lines[Picked(s)]))
<1> DEFINE fold[s \in SUBSET Priced] ==
             IF s = {} THEN 0
             ELSE Wrap(fold[s \ {Picked(s)}] + Subtotal(lines[Picked(s)]))
           step == [xv \in Priced \X Int |-> Wrap(xv[2] + Subtotal(lines[xv[1]]))]
<1>1. TotalAmount(lines) = fold[Priced]
  BY Zenon DEF TotalAmount, FoldFunction, FoldFunctionOnSet, MapThenFoldSet, Picked
<1>2. step \in [Priced \X Int -> Int]
  <2> SUFFICES ASSUME NEW p \in Priced, NEW n \in Int
               PROVE  Wrap(n + Subtotal(lines[p])) \in Int
    OBVIOUS
  <2>1. n + Subtotal(lines[p]) \in Int
    BY LineWorth
  <2> QED
    BY <2>1, WrapsInRange
<1>3. \A s \in SUBSET Priced : s # {} => Picked(s) \in s
  BY DEF Picked
<1>4. PICK g \in [SUBSET Priced -> Int] : IsFold(g, Priced, 0, step)
  <2> HIDE DEF step
  <2>1. IsFiniteSet(Priced) /\ 0 \in Int
    BY AmountsAssumption
  <2> QED
    BY <1>2, <2>1, FoldExists, Zenon
<1>5. ASSUME NEW s \in SUBSET Priced, s # {}
      PROVE  g[s] = Wrap(g[s \ {Picked(s)}] + Subtotal(lines[Picked(s)]))
  <2>1. Picked(s) \in Priced /\ g[s \ {Picked(s)}] \in Int
    BY <1>3, <1>5
  <2>2. g[s] = step[<<Picked(s), g[s \ {Picked(s)}]>>]
    BY <1>4, <1>5 DEF IsFold
  <2> QED
    BY <2>1, <2>2
<1>6. g[{}] = 0
  BY <1>4 DEF IsFold
<1>7. g = [s \in SUBSET Priced |->
             IF s = {} THEN 0
             ELSE Wrap(g[s \ {Picked(s)}] + Subtotal(lines[Picked(s)]))]
  BY <1>5, <1>6
<1>8. fold = [s \in SUBSET Priced |->
                IF s = {} THEN 0
                ELSE Wrap(fold[s \ {Picked(s)}] + Subtotal(lines[Picked(s)]))]
  BY <1>7, Zenon
<1>9. \A s \in SUBSET Priced : fold[s] = g[s]
  <2> HIDE DEF fold
  <2> DEFINE Differ == {s \in SUBSET Priced : fold[s] # g[s]}
  <2> SUFFICES ASSUME Differ # {}
               PROVE  FALSE
    OBVIOUS
  <2>1. PICK s \in Differ : \A x \in s : s \ {x} \notin Differ
    <3>1. Differ \in SUBSET (SUBSET Priced)
      OBVIOUS
    <3> HIDE DEF Differ
    <3> QED
      BY <3>1, LeastSubset, AmountsAssumption
  <2>2. s # {}
    BY <1>6, <1>8
  <2>3. fold[s \ {Picked(s)}] = g[s \ {Picked(s)}]
    BY <1>3, <2>1, <2>2
  <2> QED
    BY <1>5, <1>8, <2>2, <2>3
<1> HIDE DEF fold
<1> QED
  BY <1>1, <1>5, <1>6, <1>9
\* So is the exact sum, without wrapping.
LEMMA WorthIsFold ==
  ASSUME NEW lines \in [Priced -> PricedLine]
  PROVE  \E g \in [SUBSET Priced -> Nat] :
           /\ Worth(lines) = g[Priced]
           /\ g[{}] = 0
           /\ \A s \in SUBSET Priced : s # {} =>
                g[s] = g[s \ {Picked(s)}] + Exact(lines[Picked(s)])
<1> DEFINE fold[s \in SUBSET Priced] ==
             IF s = {} THEN 0
             ELSE fold[s \ {Picked(s)}] + Exact(lines[Picked(s)])
           step == [xv \in Priced \X Nat |-> xv[2] + Exact(lines[xv[1]])]
<1>1. Worth(lines) = fold[Priced]
  BY Zenon DEF Worth, FoldFunction, FoldFunctionOnSet, MapThenFoldSet, Picked
<1>2. step \in [Priced \X Nat -> Nat]
  BY LineWorth
<1>3. \A s \in SUBSET Priced : s # {} => Picked(s) \in s
  BY DEF Picked
<1>4. PICK g \in [SUBSET Priced -> Nat] : IsFold(g, Priced, 0, step)
  <2> HIDE DEF step
  <2>1. IsFiniteSet(Priced) /\ 0 \in Nat
    BY AmountsAssumption
  <2> QED
    BY <1>2, <2>1, FoldExists, Zenon
<1>5. ASSUME NEW s \in SUBSET Priced, s # {}
      PROVE  g[s] = g[s \ {Picked(s)}] + Exact(lines[Picked(s)])
  <2>1. Picked(s) \in Priced /\ g[s \ {Picked(s)}] \in Nat
    BY <1>3, <1>5
  <2>2. g[s] = step[<<Picked(s), g[s \ {Picked(s)}]>>]
    BY <1>4, <1>5 DEF IsFold
  <2> QED
    BY <2>1, <2>2
<1>6. g[{}] = 0
  BY <1>4 DEF IsFold
<1>7. g = [s \in SUBSET Priced |->
             IF s = {} THEN 0
             ELSE g[s \ {Picked(s)}] + Exact(lines[Picked(s)])]
  BY <1>5, <1>6
<1>8. fold = [s \in SUBSET Priced |->
                IF s = {} THEN 0
                ELSE fold[s \ {Picked(s)}] + Exact(lines[Picked(s)])]
  BY <1>7, Zenon
<1>9. \A s \in SUBSET Priced : fold[s] = g[s]
  <2> HIDE DEF fold
  <2> DEFINE Differ == {s \in SUBSET Priced : fold[s] # g[s]}
  <2> SUFFICES ASSUME Differ # {}
               PROVE  FALSE
    OBVIOUS
  <2>1. PICK s \in Differ : \A x \in s : s \ {x} \notin Differ
    <3>1. Differ \in SUBSET (SUBSET Priced)
      OBVIOUS
    <3> HIDE DEF Differ
    <3> QED
      BY <3>1, LeastSubset, AmountsAssumption
  <2>2. s # {}
    BY <1>6, <1>8
  <2>3. fold[s \ {Picked(s)}] = g[s \ {Picked(s)}]
    BY <1>3, <2>1, <2>2
  <2> QED
    BY <1>5, <1>8, <2>2, <2>3
<1> HIDE DEF fold
<1> QED
  BY <1>1, <1>5, <1>6, <1>9

\* The total has its type, and is the exact sum if that fits: no sum and no
\* line wraps on the way to a number that fits.
LEMMA TotalIsWorth ==
  ASSUME NEW lines \in [Priced -> PricedLine]
  PROVE  /\ Worth(lines) \in Nat
         /\ TotalAmount(lines) \in (-Limit)..(Limit - 1)
         /\ Worth(lines) < Limit =>
              /\ TotalAmount(lines) = Worth(lines)
              /\ \A p \in Priced : Subtotal(lines[p]) >= 0
<1>1. PICK g \in [SUBSET Priced -> Int] :
           /\ TotalAmount(lines) = g[Priced]
           /\ g[{}] = 0
           /\ \A s \in SUBSET Priced : s # {} =>
                g[s] = Wrap(g[s \ {Picked(s)}] + Subtotal(lines[Picked(s)]))
  BY TotalIsFold
<1>2. PICK h \in [SUBSET Priced -> Nat] :
           /\ Worth(lines) = h[Priced]
           /\ h[{}] = 0
           /\ \A s \in SUBSET Priced : s # {} =>
                h[s] = h[s \ {Picked(s)}] + Exact(lines[Picked(s)])
  BY WorthIsFold
<1>3. \A s \in SUBSET Priced : s # {} => Picked(s) \in s
  BY DEF Picked
<1>4. TotalAmount(lines) \in (-Limit)..(Limit - 1)
  <2>1. CASE Priced = {}
    BY <1>1, <2>1, WrapsInRange
  <2>2. CASE Priced # {}
    <3> DEFINE sum == g[Priced \ {Picked(Priced)}] + Subtotal(lines[Picked(Priced)])
    <3>1. sum \in Int
      BY <1>3, <2>2, LineWorth
    <3>2. TotalAmount(lines) = Wrap(sum)
      BY <1>1, <2>2
    <3> QED
      BY <3>1, <3>2, WrapsInRange
  <2> QED
    BY <2>1, <2>2
<1>5. ASSUME NEW s \in SUBSET Priced, s # {}
      PROVE  /\ s \ {Picked(s)} \in SUBSET Priced
             /\ h[s] = h[s \ {Picked(s)}] + Exact(lines[Picked(s)])
             /\ h[s] \in Nat /\ h[s \ {Picked(s)}] \in Nat
             /\ Exact(lines[Picked(s)]) \in Nat
             /\ Exact(lines[Picked(s)]) < Limit =>
                  Subtotal(lines[Picked(s)]) = Exact(lines[Picked(s)])
  <2>1. Picked(s) \in Priced
    BY <1>3, <1>5
  <2>2. Exact(lines[Picked(s)]) \in Nat
    BY <2>1, LineWorth
  <2> QED
    BY <1>2, <1>5, <2>2, WrapsInRange DEF Subtotal
<1>6. \A s \in SUBSET Priced : h[s] < Limit => g[s] = h[s]
  <2> DEFINE Wrong == {s \in SUBSET Priced : h[s] < Limit /\ g[s] # h[s]}
  <2> SUFFICES ASSUME Wrong # {}
               PROVE  FALSE
    OBVIOUS
  <2>1. PICK s \in Wrong : \A x \in s : s \ {x} \notin Wrong
    <3>1. Wrong \in SUBSET (SUBSET Priced)
      OBVIOUS
    <3> HIDE DEF Wrong
    <3> QED
      BY <3>1, LeastSubset, AmountsAssumption
  <2>2. s \in SUBSET Priced /\ s # {} /\ h[s] < Limit /\ g[s] # h[s]
    BY <1>1, <1>2
  <2> HIDE DEF Wrong
  <2>3. /\ h[s \ {Picked(s)}] < Limit
        /\ Exact(lines[Picked(s)]) < Limit
    <3>1. h[s] = h[s \ {Picked(s)}] + Exact(lines[Picked(s)])
      BY <1>5, <2>2
    <3>2. h[s \ {Picked(s)}] \in Nat /\ Exact(lines[Picked(s)]) \in Nat
      BY <1>5, <2>2
    <3> QED
      BY <2>2, <3>1, <3>2, WrapsInRange
  <2>4. g[s \ {Picked(s)}] = h[s \ {Picked(s)}]
    BY <1>3, <1>5, <2>1, <2>2, <2>3 DEF Wrong
  <2>5. g[s] = Wrap(h[s])
    BY <1>1, <1>5, <2>2, <2>3, <2>4
  <2> QED
    BY <1>5, <2>2, <2>5, WrapsInRange
<1>7. ASSUME Worth(lines) < Limit, NEW p \in Priced
      PROVE  Subtotal(lines[p]) >= 0
  <2> DEFINE Above == {s \in SUBSET Priced : p \in s /\ h[s] < Exact(lines[p])}
  <2>1. Above = {}
    <3> SUFFICES ASSUME Above # {}
                 PROVE  FALSE
      OBVIOUS
    <3>1. PICK s \in Above : \A x \in s : s \ {x} \notin Above
      <4>1. Above \in SUBSET (SUBSET Priced)
        OBVIOUS
      <4> HIDE DEF Above
      <4> QED
        BY <4>1, LeastSubset, AmountsAssumption
    <3>2. s \in SUBSET Priced /\ p \in s /\ h[s] < Exact(lines[p])
      OBVIOUS
    <3>3. h[s] = h[s \ {Picked(s)}] + Exact(lines[Picked(s)])
      BY <1>5, <3>2
    <3>4. /\ h[s \ {Picked(s)}] \in Nat /\ Exact(lines[Picked(s)]) \in Nat
          /\ Exact(lines[p]) \in Nat
      BY <1>5, <3>2, LineWorth
    <3>5. Picked(s) # p /\ h[s \ {Picked(s)}] < Exact(lines[p])
      BY <3>2, <3>3, <3>4
    <3> QED
      BY <1>3, <1>5, <3>1, <3>2, <3>5
  <2>2. Exact(lines[p]) \in Nat /\ Exact(lines[p]) <= h[Priced]
    BY <2>1, LineWorth
  <2> QED
    BY <1>2, <1>7, <2>2, WrapsInRange DEF Subtotal
<1> QED
  BY <1>1, <1>2, <1>4, <1>6, <1>7

-----------------------------------------------------------------------------
(***************************************************************************)
(* Amounts: the inductive invariant and the theorems.                      *)
(***************************************************************************)

\* An order that was read has the total of its lines.
TotalOfLines == priced.pc # "idle" => priced.total = TotalAmount(priced.lines)

AmountsInv == AmountsTypeOK /\ TotalOfLines /\ PaidIsOrdered

LEMMA NotPricedInv ==
  /\ NotPriced \in [pc : {"idle", "read", "stored", "paying"},
                    lines : [Priced -> PricedLine],
                    total : (-Limit)..(Limit - 1)]
  /\ NotPriced.pc = "idle"
<1>1. NoLines \in [Priced -> PricedLine]
  BY AmountsAssumption DEF NoLines, PricedLine
<1>2. 0 \in (-Limit)..(Limit - 1)
  BY WrapsInRange
<1> QED
  BY <1>1, <1>2 DEF NotPriced

LEMMA AmountsInvInit == AmountsInit => AmountsInv
<1> SUFFICES ASSUME AmountsInit
             PROVE  AmountsInv
  OBVIOUS
<1>1. price \in [Priced -> 0..MaxPrice]
  BY AmountsAssumption DEF AmountsInit
<1> QED
  BY <1>1, NotPricedInv DEF AmountsInit, AmountsInv, AmountsTypeOK, TotalOfLines, PaidIsOrdered

LEMMA ReadLinesInv ==
  ASSUME AmountsInv, NEW quantity \in [Priced -> 0..MaxInStock], ReadLines(quantity)
  PROVE  AmountsInv'
<1> DEFINE lines == [p \in Priced |-> [price |-> price[p], quantity |-> quantity[p]]]
<1>1. priced' = [pc |-> "read", lines |-> lines, total |-> TotalAmount(lines)]
  BY DEF ReadLines
<1>2. lines \in [Priced -> PricedLine]
  BY DEF AmountsInv, AmountsTypeOK, PricedLine
<1> HIDE DEF lines
<1>3. TotalAmount(lines) \in (-Limit)..(Limit - 1)
  BY <1>2, TotalIsWorth
<1> QED
  BY <1>1, <1>2, <1>3
  DEF AmountsInv, AmountsTypeOK, ReadLines, TotalOfLines, PaidIsOrdered

LEMMA AmountsInvStep == AmountsInv /\ [AmountsNext]_amountsVars => AmountsInv'
<1> SUFFICES ASSUME AmountsInv, [AmountsNext]_amountsVars
             PROVE  AmountsInv'
  OBVIOUS
<1> USE DEF AmountsInv, AmountsTypeOK, TotalOfLines, PaidIsOrdered
<1>1. ASSUME NEW p \in Priced, NEW n \in 0..MaxPrice, SetPrice(p, n)
      PROVE  AmountsInv'
  BY <1>1 DEF SetPrice
<1>2. ASSUME NEW quantity \in [Priced -> 0..MaxInStock], ReadLines(quantity)
      PROVE  AmountsInv'
  BY <1>2, ReadLinesInv
<1>3. CASE StoreOrder
  BY <1>3, NotPricedInv DEF StoreOrder
<1>4. CASE PayOrder
  <2>1. charged' = priced.total /\ priced.total = Worth(priced.lines)
    BY <1>4 DEF PayOrder, SnapAccepts, SnapRequest
  <2> QED
    BY <1>4, <2>1 DEF PayOrder
<1>5. CASE NextOrder
  BY <1>5, NotPricedInv DEF NextOrder
<1>6. CASE UNCHANGED amountsVars
  BY <1>6 DEF amountsVars
<1> QED
  BY <1>1, <1>2, <1>3, <1>4, <1>5, <1>6 DEF AmountsNext

\* The invariant holds throughout: amounts keep their types, and an order's
\* total stays what its lines came to when they were read.
THEOREM AmountsInvariance == AmountsSpec => []AmountsInv
<1> QED
  BY AmountsInvInit, AmountsInvStep, PTL DEF AmountsSpec

\* Whatever the width of integers, the prices and their changes, a payment is
\* the exact worth of the lines of its order: a total that wrapped is not paid.
THEOREM ChargedIsWorth == AmountsSpec => []PaidIsOrdered
<1>1. AmountsInv => PaidIsOrdered
  BY DEF AmountsInv
<1> QED
  BY <1>1, AmountsInvariance, PTL

\* An order whose lines come to a number that fits is stored and can be paid,
\* for every number of lines, however the sum is built from them.
THEOREM FittingOrdersPass == AmountsSpec => []OrdersThatFitPass
<1>1. AmountsInv => OrdersThatFitPass
  <2> SUFFICES ASSUME AmountsInv, Worth(priced.lines) < Limit
               PROVE  /\ priced.pc = "read" => Storable(priced)
                      /\ priced.pc = "stored" => SnapAccepts(SnapRequest(priced))
    BY DEF OrdersThatFitPass
  <2>1. priced.lines \in [Priced -> PricedLine]
    BY DEF AmountsInv, AmountsTypeOK
  <2>2. /\ Worth(priced.lines) \in Nat
        /\ TotalAmount(priced.lines) = Worth(priced.lines)
        /\ \A p \in Priced : Subtotal(priced.lines[p]) >= 0
    BY <2>1, TotalIsWorth
  <2>3. priced.pc # "idle" => priced.total = Worth(priced.lines)
    BY <2>2 DEF AmountsInv, TotalOfLines
  <2> QED
    BY <2>2, <2>3 DEF Storable, SnapAccepts, SnapRequest
<1> QED
  BY <1>1, AmountsInvariance, PTL
=============================================================================
