---------------------------- MODULE OrdersProofs ----------------------------
(***************************************************************************)
(* What holds of Orders for every set of customers, products, cart rows    *)
(* and orders, and every stock: the counting argument behind the stock of  *)
(* a product, and the invariants of ConcurrentSpec and Spec.               *)
(***************************************************************************)
EXTENDS Orders, FiniteSetTheorems, TLAPS

-----------------------------------------------------------------------------
(***************************************************************************)
(* Counting the units of orders.                                           *)
(***************************************************************************)

\* Finitely many orders carry finitely many units, so they can be counted.
LEMMA UnitsFinite ==
  ASSUME NEW O \in SUBSET OrderId, NEW L, NEW p
  PROVE  /\ IsFiniteSet(Units(O, L, p))
         /\ Quantity(O, L, p) \in Nat
<1>1. IsFiniteSet(O)
  BY OrderIdAssumption, FS_Subset
<1>2. IsFiniteSet(O \X CartItem)
  BY <1>1, CartItemAssumption, FS_Product
<1>3. IsFiniteSet(1..MaxQty)
  BY QtyAssumption, FS_Interval
<1>4. IsFiniteSet((O \X CartItem) \X (1..MaxQty))
  BY <1>2, <1>3, FS_Product
<1>5. Units(O, L, p) \in SUBSET ((O \X CartItem) \X (1..MaxQty))
  BY DEF Units
<1>6. IsFiniteSet(Units(O, L, p))
  BY <1>4, <1>5, FS_Subset
<1> QED
  BY <1>6, FS_CardinalityType DEF Quantity

\* No orders, no units.
LEMMA QuantityOfNone ==
  ASSUME NEW L, NEW p
  PROVE  Quantity({}, L, p) = 0
<1>1. Units({}, L, p) = {}
  BY DEF Units
<1> QED
  BY <1>1, FS_EmptySet DEF Quantity

\* Disjoint sets of orders carry the sum of what each carries.
LEMMA QuantityOfUnion ==
  ASSUME NEW A \in SUBSET OrderId, NEW B \in SUBSET OrderId, A \cap B = {},
         NEW L, NEW p
  PROVE  Quantity(A \cup B, L, p) = Quantity(A, L, p) + Quantity(B, L, p)
<1>1. Units(A \cup B, L, p) = Units(A, L, p) \cup Units(B, L, p)
  BY DEF Units
<1>2. Units(A, L, p) \cap Units(B, L, p) = {}
  BY DEF Units
<1>3. /\ IsFiniteSet(Units(A, L, p)) /\ Quantity(A, L, p) \in Nat
      /\ IsFiniteSet(Units(B, L, p)) /\ Quantity(B, L, p) \in Nat
  BY UnitsFinite
<1>4. Cardinality(Units(A, L, p) \cup Units(B, L, p))
        = Cardinality(Units(A, L, p)) + Cardinality(Units(B, L, p))
          - Cardinality(Units(A, L, p) \cap Units(B, L, p))
  BY <1>3, FS_Union
<1>5. Cardinality(Units(A, L, p) \cap Units(B, L, p)) = 0
  BY <1>2, FS_EmptySet
<1>6. Quantity(A \cup B, L, p) = Cardinality(Units(A, L, p) \cup Units(B, L, p))
  BY <1>1 DEF Quantity
<1>7. Quantity(A \cup B, L, p) = Quantity(A, L, p) + Quantity(B, L, p) - 0
  BY <1>4, <1>5, <1>6 DEF Quantity
<1> QED
  BY <1>3, <1>7

\* What orders carry depends on their own lines only.
LEMMA QuantityOfSameLines ==
  ASSUME NEW A \in SUBSET OrderId, NEW L, NEW M, NEW p,
         \A o \in A : L[o] = M[o]
  PROVE  Quantity(A, L, p) = Quantity(A, M, p)
<1>1. Units(A, L, p) = Units(A, M, p)
  BY DEF Units
<1> QED
  BY <1>1 DEF Quantity

\* Taking the orders B out of A takes out what they carry.
LEMMA QuantityOfDifference ==
  ASSUME NEW A \in SUBSET OrderId, NEW B \in SUBSET A, NEW L, NEW p
  PROVE  Quantity(A \ B, L, p) = Quantity(A, L, p) - Quantity(B, L, p)
<1>1. /\ A \ B \in SUBSET OrderId /\ B \in SUBSET OrderId
      /\ (A \ B) \cap B = {} /\ (A \ B) \cup B = A
  OBVIOUS
<1>2. Quantity(A, L, p) = Quantity(A \ B, L, p) + Quantity(B, L, p)
  BY <1>1, QuantityOfUnion
<1>3. Quantity(A \ B, L, p) \in Nat /\ Quantity(B, L, p) \in Nat
  BY <1>1, UnitsFinite
<1> QED
  BY <1>2, <1>3

-----------------------------------------------------------------------------
(***************************************************************************)
(* Types.                                                                  *)
(***************************************************************************)

LEMMA HoldingSubset ==
  /\ \A S : WithStatus(S) \in SUBSET OrderId
  /\ Holding \in SUBSET OrderId
BY DEF Holding, WithStatus

\* Product handlers preserve the types.
LEMMA ProductTypes == TypeOK /\ ProductStep => TypeOK'
<1> SUFFICES ASSUME TypeOK, NEW p \in Product,
                    \/ \E s \in ProductStatus : UpdateProductStatus(p, s)
                    \/ DeleteProduct(p)
                    \/ RestoreProduct(p)
             PROVE  TypeOK'
  BY DEF ProductStep
<1>1. CASE \E s \in ProductStatus : UpdateProductStatus(p, s)
  BY <1>1 DEF UpdateProductStatus, TypeOK, cartVars, orderVars
<1>2. CASE DeleteProduct(p)
  BY <1>2 DEF DeleteProduct, TypeOK, ProductStatus, cartVars, orderVars
<1>3. CASE RestoreProduct(p)
  BY <1>3 DEF RestoreProduct, TypeOK, ProductStatus, cartVars, orderVars
<1> QED
  BY <1>1, <1>2, <1>3

\* Deleting cart rows preserves the types.
LEMMA RemoveTypes ==
  ASSUME TypeOK, NEW I, RemoveRows(I)
  PROVE  TypeOK'
<1>1. 0 \in 0..MaxQty
  BY QtyAssumption
<1>2. cartQty' \in [CartItem -> 0..MaxQty]
  BY <1>1 DEF RemoveRows, TypeOK
<1> QED
  BY <1>2 DEF RemoveRows, TypeOK, productVars, orderVars

\* Cart handlers preserve the types.
LEMMA CartTypes == TypeOK /\ CartStep => TypeOK'
<1> SUFFICES ASSUME TypeOK, CartStep
             PROVE  TypeOK'
  OBVIOUS
<1>1. ASSUME NEW i \in CartItem, NEW n \in 1..MaxQty, AddItemTx(i, n)
      PROVE  TypeOK'
  <2>1. cartQty[i] + n \in 0..MaxQty
    BY <1>1, QtyAssumption DEF AddItemTx, TypeOK
  <2> QED
    BY <1>1, <2>1 DEF AddItemTx, TypeOK, productVars, orderVars
<1>2. ASSUME NEW i \in CartItem, NEW n \in 1..MaxQty, UpdateItemQuantity(i, n)
      PROVE  TypeOK'
  <2>1. n \in 0..MaxQty
    BY QtyAssumption
  <2> QED
    BY <1>2, <2>1 DEF UpdateItemQuantity, TypeOK, productVars, orderVars
<1>3. ASSUME NEW I, RemoveRows(I)
      PROVE  TypeOK'
  BY <1>3, RemoveTypes
<1> QED
  BY <1>1, <1>2, <1>3 DEF CartStep, RowStep, ClearStep, DeleteItem, ClearItems, ClearItemsByIDs

\* Cancelling an order preserves the types.
LEMMA CancelTypes ==
  ASSUME TypeOK, NEW o \in OrderId, CancelAndRestock(o)
  PROVE  TypeOK'
<1>1. \A p \in Product : stock[p] + Quantity({o}, lines, p) \in Nat
  <2> TAKE p \in Product
  <2>1. Quantity({o}, lines, p) \in Nat
    BY UnitsFinite
  <2>2. stock[p] \in Nat
    BY DEF TypeOK
  <2> QED
    BY <2>1, <2>2
<1>2. stock' \in [Product -> Nat]
  BY <1>1 DEF CancelAndRestock
<1>3. status' \in [OrderId -> OrderStatus \cup {"none"}]
  BY DEF CancelAndRestock, TypeOK, OrderStatus
<1> QED
  BY <1>2, <1>3 DEF CancelAndRestock, TypeOK, cartVars

\* Order handlers preserve the types.
LEMMA OrderTypes ==
  ASSUME TypeOK, NEW o \in OrderId,
         \/ CancelOrder(o) \/ CancelExpiredOrder(o) \/ ConfirmOrder(o)
         \/ CompleteOrder(o) \/ Expire(o)
  PROVE  TypeOK'
<1>1. CASE CancelOrder(o) \/ CancelExpiredOrder(o)
  BY <1>1, CancelTypes DEF CancelOrder, CancelExpiredOrder
<1>2. CASE ConfirmOrder(o)
  BY <1>2 DEF ConfirmOrder, TypeOK, OrderStatus, productVars, cartVars
<1>3. CASE CompleteOrder(o)
  <2>1. \A p \in Product : sold[p] + Quantity({o}, lines, p) \in Nat
    <3> TAKE p \in Product
    <3>1. Quantity({o}, lines, p) \in Nat
      BY UnitsFinite
    <3>2. sold[p] \in Nat
      BY DEF TypeOK
    <3> QED
      BY <3>1, <3>2
  <2>2. sold' \in [Product -> Nat]
    BY <1>3, <2>1 DEF CompleteOrder, RecordSale
  <2>3. status' \in [OrderId -> OrderStatus \cup {"none"}]
    BY <1>3 DEF CompleteOrder, RecordSale, TypeOK, OrderStatus
  <2> QED
    BY <1>3, <2>2, <2>3 DEF CompleteOrder, RecordSale, TypeOK, cartVars
<1>4. CASE Expire(o)
  BY <1>4 DEF Expire, TypeOK, productVars, cartVars
<1> QED
  BY <1>1, <1>2, <1>3, <1>4

\* Checkout preserves the types; CanTake is what keeps stock from going
\* below 0.
LEMMA CheckoutTypes ==
  ASSUME TypeOK, NEW u \in User, NEW I \in SUBSET CartItem, CheckoutTx(u, I)
  PROVE  TypeOK'
<1> DEFINE expired == ExpiredOrders(u, I)
<1>1. PICK o \in OrderId :
        /\ lines' = [lines EXCEPT
                       ![o] = [i \in CartItem |-> IF i \in I THEN cartQty[i] ELSE 0]]
        /\ \A p \in Product :
              CanTake(Quantity({o}, lines', p), stock[p] + Quantity(expired, lines, p))
        /\ stock' = [p \in Product |-> stock[p] + Quantity(expired, lines, p)
                                                - Quantity({o}, lines', p)]
        /\ status' = [r \in OrderId |-> IF r = o THEN "PENDING"
                                        ELSE IF r \in expired THEN "CANCELLED"
                                        ELSE status[r]]
        /\ owner' = [owner EXCEPT ![o] = u]
  BY DEF CheckoutTx
<1>2. expired \in SUBSET OrderId
  BY DEF ExpiredOrders, TypeOK
<1>3. stock' \in [Product -> Nat]
  <2>1. ASSUME NEW p \in Product
        PROVE  stock[p] + Quantity(expired, lines, p) - Quantity({o}, lines', p) \in Nat
    <3>1. Quantity(expired, lines, p) \in Nat /\ Quantity({o}, lines', p) \in Nat
      BY <1>2, UnitsFinite
    <3>2. Quantity({o}, lines', p) <= stock[p] + Quantity(expired, lines, p)
      BY <1>1 DEF CanTake
    <3>3. stock[p] \in Nat
      BY DEF TypeOK
    <3> HIDE DEF expired
    <3> QED
      BY <3>1, <3>2, <3>3
  <2> HIDE DEF expired
  <2> QED
    BY <1>1, <2>1
<1>4. lines' \in [OrderId -> [CartItem -> 0..MaxQty]]
  <2>1. 0 \in 0..MaxQty
    BY QtyAssumption
  <2>2. [i \in CartItem |-> IF i \in I THEN cartQty[i] ELSE 0] \in [CartItem -> 0..MaxQty]
    BY <2>1 DEF TypeOK
  <2> QED
    BY <1>1, <2>2 DEF TypeOK
<1>5. status' \in [OrderId -> OrderStatus \cup {"none"}]
  BY <1>1 DEF TypeOK, OrderStatus
<1>6. owner' \in [OrderId -> User \cup {NoUser}]
  BY <1>1 DEF TypeOK
<1> QED
  BY <1>3, <1>4, <1>5, <1>6 DEF CheckoutTx, TypeOK, cartVars

\* Every step of the interleaved handlers preserves the types.
LEMMA TypeStep == TypeOK /\ [ConcurrentNext]_vars => TypeOK'
<1> SUFFICES ASSUME TypeOK, [ConcurrentNext]_vars
             PROVE  TypeOK'
  OBVIOUS
<1>1. CASE ProductStep
  BY <1>1, ProductTypes
<1>2. CASE CartStep
  BY <1>2, CartTypes
<1>3. CASE OrderStep
  BY <1>3, OrderTypes DEF OrderStep
<1>4. CASE \E u \in User, I \in (SUBSET CartItem) \ {{}} : CheckoutTx(u, I)
  BY <1>4, CheckoutTypes
<1>5. CASE UNCHANGED vars
  BY <1>5 DEF TypeOK, vars, productVars, cartVars, orderVars
<1> QED
  BY <1>1, <1>2, <1>3, <1>4, <1>5 DEF ConcurrentNext

LEMMA TypeInit == Init => TypeOK
<1>1. 0 \in 0..MaxQty
  BY QtyAssumption
<1> QED
  BY <1>1, StockAssumption DEF Init, TypeOK, ProductStatus

\* Every variable keeps its type; in particular no product's stock and no
\* total_sold is ever negative, whatever the interleaving of the handlers.
THEOREM TypeCorrect == ConcurrentSpec => []TypeOK
<1> QED
  BY TypeInit, TypeStep, PTL DEF ConcurrentSpec

-----------------------------------------------------------------------------
(***************************************************************************)
(* Which orders are pending, whose rows they have, and what they hold.     *)
(***************************************************************************)

\* What a step does to orders when it is not one of theirs.
LEMMA NotOrders ==
  ASSUME ProductStep \/ CartStep \/ UNCHANGED vars
  PROVE  UNCHANGED <<stock, sold, status, owner, lines, overdue>>
BY DEF ProductStep, UpdateProductStatus, DeleteProduct, RestoreProduct,
       CartStep, RowStep, ClearStep, AddItemTx, UpdateItemQuantity, DeleteItem,
       ClearItems, ClearItemsByIDs, RemoveRows, vars, productVars, cartVars, orderVars

\* Checkout as the invariants see it: user u's rows I became the fresh order
\* o, and the expired orders that held one of them are cancelled.
Placed(u, I, o) ==
  /\ status[o] = "none"
  /\ ExpiredOrders(u, I) \subseteq WithStatus({"PENDING"})
  /\ lines' = [lines EXCEPT
                 ![o] = [i \in CartItem |-> IF i \in I THEN cartQty[i] ELSE 0]]
  /\ stock' = [p \in Product |-> stock[p] + Quantity(ExpiredOrders(u, I), lines, p)
                                          - Quantity({o}, lines', p)]
  /\ status' = [r \in OrderId |-> IF r = o THEN "PENDING"
                                  ELSE IF r \in ExpiredOrders(u, I) THEN "CANCELLED"
                                  ELSE status[r]]
  /\ owner' = [owner EXCEPT ![o] = u]
  /\ overdue' = overdue \ ExpiredOrders(u, I)
  /\ sold' = sold

LEMMA CheckoutPlaces ==
  ASSUME TypeOK, OverdueArePending,
         NEW u \in User, NEW I \in SUBSET CartItem, CheckoutTx(u, I)
  PROVE  \E o \in OrderId : Placed(u, I, o)
<1>1. ExpiredOrders(u, I) \subseteq WithStatus({"PENDING"})
  BY DEF ExpiredOrders, OverdueArePending, WithStatus, TypeOK
<1> QED
  BY <1>1 DEF CheckoutTx, Placed

\* Only pending orders are overdue: every handler that ends PENDING clears
\* expires_at.
LEMMA OverdueStep ==
  TypeOK /\ OverdueArePending /\ [ConcurrentNext]_vars => OverdueArePending'
<1> SUFFICES ASSUME TypeOK, OverdueArePending, [ConcurrentNext]_vars
             PROVE  OverdueArePending'
  OBVIOUS
<1>1. CASE ProductStep \/ CartStep \/ UNCHANGED vars
  BY <1>1, NotOrders DEF OverdueArePending
<1>2. ASSUME NEW o \in OrderId, CancelAndRestock(o)
      PROVE  OverdueArePending'
  BY <1>2 DEF CancelAndRestock, OverdueArePending, TypeOK
<1>3. ASSUME NEW o \in OrderId, ConfirmOrder(o)
      PROVE  OverdueArePending'
  BY <1>3 DEF ConfirmOrder, OverdueArePending, TypeOK
<1>4. ASSUME NEW o \in OrderId, CompleteOrder(o)
      PROVE  OverdueArePending'
  BY <1>4 DEF CompleteOrder, RecordSale, OverdueArePending, TypeOK
<1>5. ASSUME NEW o \in OrderId, Expire(o)
      PROVE  OverdueArePending'
  BY <1>5 DEF Expire, OverdueArePending, TypeOK
<1>6. ASSUME NEW u \in User, NEW I \in SUBSET CartItem, CheckoutTx(u, I)
      PROVE  OverdueArePending'
  <2>1. PICK o \in OrderId : Placed(u, I, o)
    BY <1>6, CheckoutPlaces
  <2> QED
    BY <2>1 DEF Placed, OverdueArePending, TypeOK
<1> QED
  BY <1>1, <1>2, <1>3, <1>4, <1>5, <1>6
     DEF ConcurrentNext, OrderStep, CancelOrder, CancelExpiredOrder

\* An order has only rows of its owner's cart: OwnRows is checked for every
\* row, and lines and owner are written once.
LEMMA OwnLinesStep ==
  TypeOK /\ OverdueArePending /\ OwnLines /\ [ConcurrentNext]_vars => OwnLines'
<1> SUFFICES ASSUME TypeOK, OverdueArePending, OwnLines, [ConcurrentNext]_vars
             PROVE  OwnLines'
  OBVIOUS
<1>1. CASE ProductStep \/ CartStep \/ UNCHANGED vars
  BY <1>1, NotOrders DEF OwnLines
<1>2. ASSUME NEW o \in OrderId, CancelAndRestock(o)
      PROVE  OwnLines'
  BY <1>2 DEF CancelAndRestock, OwnLines, TypeOK
<1>3. ASSUME NEW o \in OrderId, ConfirmOrder(o)
      PROVE  OwnLines'
  BY <1>3 DEF ConfirmOrder, OwnLines, TypeOK
<1>4. ASSUME NEW o \in OrderId, CompleteOrder(o)
      PROVE  OwnLines'
  BY <1>4 DEF CompleteOrder, RecordSale, OwnLines, TypeOK
<1>5. ASSUME NEW o \in OrderId, Expire(o)
      PROVE  OwnLines'
  BY <1>5 DEF Expire, OwnLines, TypeOK
<1>6. ASSUME NEW u \in User, NEW I \in SUBSET CartItem, CheckoutTx(u, I)
      PROVE  OwnLines'
  <2>1. \A i \in I : RowOf[i].user = u
    BY <1>6 DEF CheckoutTx, OwnRows
  <2>2. ASSUME NEW r \in OrderId, NEW i \in CartItem, lines'[r][i] > 0
        PROVE  status'[r] # "none" /\ owner'[r] = RowOf[i].user
    <3>1. PICK o \in OrderId : Placed(u, I, o)
      BY <1>6, CheckoutPlaces
    <3>2. CASE r = o
      <4>1. i \in I
        BY <2>2, <3>1, <3>2 DEF Placed, TypeOK
      <4> QED
        BY <2>1, <3>1, <3>2, <4>1 DEF Placed, TypeOK
    <3>3. CASE r # o
      BY <2>2, <3>1, <3>3 DEF Placed, TypeOK, OwnLines
    <3> QED
      BY <3>2, <3>3
  <2> QED
    BY <2>2 DEF OwnLines
<1> QED
  BY <1>1, <1>2, <1>3, <1>4, <1>5, <1>6
     DEF ConcurrentNext, OrderStep, CancelOrder, CancelExpiredOrder

\* Two pending orders never share a cart row: Checkout refuses rows of a
\* pending order of its user, and OwnLines says no other user's has them.
LEMMA OnePendingStep ==
  /\ TypeOK /\ OverdueArePending /\ OwnLines /\ OnePendingPerCartItem
  /\ [ConcurrentNext]_vars
  => OnePendingPerCartItem'
<1> SUFFICES ASSUME TypeOK, OverdueArePending, OwnLines, OnePendingPerCartItem,
                    [ConcurrentNext]_vars
             PROVE  OnePendingPerCartItem'
  OBVIOUS
<1>1. ASSUME lines' = lines, \A o \in OrderId : status'[o] = "PENDING" => status[o] = "PENDING"
      PROVE  OnePendingPerCartItem'
  BY <1>1 DEF OnePendingPerCartItem, WithStatus
<1>2. CASE ProductStep \/ CartStep \/ UNCHANGED vars
  BY <1>1, <1>2, NotOrders
<1>3. ASSUME NEW o \in OrderId, CancelAndRestock(o)
      PROVE  OnePendingPerCartItem'
  BY <1>1, <1>3 DEF CancelAndRestock, TypeOK
<1>4. ASSUME NEW o \in OrderId, ConfirmOrder(o)
      PROVE  OnePendingPerCartItem'
  BY <1>1, <1>4 DEF ConfirmOrder, TypeOK
<1>5. ASSUME NEW o \in OrderId, CompleteOrder(o)
      PROVE  OnePendingPerCartItem'
  BY <1>1, <1>5 DEF CompleteOrder, RecordSale, TypeOK
<1>6. ASSUME NEW o \in OrderId, Expire(o)
      PROVE  OnePendingPerCartItem'
  BY <1>1, <1>6 DEF Expire, TypeOK
<1>7. ASSUME NEW u \in User, NEW I \in SUBSET CartItem, CheckoutTx(u, I)
      PROVE  OnePendingPerCartItem'
  <2>1. PICK o \in OrderId : Placed(u, I, o)
    BY <1>7, CheckoutPlaces
  <2>2. ASSUME NEW r \in OrderId, r # o, status'[r] = "PENDING",
               NEW i \in CartItem, lines'[r][i] > 0, lines'[o][i] > 0
        PROVE  FALSE
    <3>1. i \in I /\ lines[r][i] > 0 /\ status[r] = "PENDING"
      BY <2>1, <2>2 DEF Placed, TypeOK
    <3>2. r \notin ExpiredOrders(u, I)
      BY <2>1, <2>2 DEF Placed
    <3>3. owner[r] = u
      BY <1>7, <3>1 DEF OwnLines, CheckoutTx, OwnRows
    <3>4. lines[r][i] = 0
      BY <1>7, <3>1, <3>2, <3>3 DEF CheckoutTx, NonePending
    <3> QED
      BY <3>1, <3>4
  <2>3. \A r \in OrderId : r # o /\ status'[r] = "PENDING" => status[r] = "PENDING"
    BY <2>1 DEF Placed
  <2>4. \A r \in OrderId : r # o => lines'[r] = lines[r]
    BY <2>1 DEF Placed, TypeOK
  <2> QED
    BY <2>2, <2>3, <2>4 DEF OnePendingPerCartItem, WithStatus
<1> QED
  BY <1>2, <1>3, <1>4, <1>5, <1>6, <1>7
     DEF ConcurrentNext, OrderStep, CancelOrder, CancelExpiredOrder

-----------------------------------------------------------------------------
(***************************************************************************)
(* Stock.                                                                  *)
(***************************************************************************)

\* Cancelling takes one order out of Holding and its units back to stock.
LEMMA CancelConserves ==
  ASSUME TypeOK, StockConserved,
         NEW o \in OrderId, status[o] = "PENDING", CancelAndRestock(o)
  PROVE  StockConserved'
<1>1. Holding' = Holding \ {o} /\ {o} \in SUBSET Holding
  BY DEF Holding, WithStatus, CancelAndRestock, TypeOK
<1>2. Holding \in SUBSET OrderId /\ {o} \in SUBSET OrderId
  BY HoldingSubset
<1>3. lines' = lines
  BY DEF CancelAndRestock
<1>4. ASSUME NEW p \in Product
      PROVE  stock'[p] + Quantity(Holding', lines', p) = InitStock[p]
  <2>1. stock'[p] = stock[p] + Quantity({o}, lines, p)
    BY DEF CancelAndRestock
  <2>2. Quantity(Holding', lines', p) = Quantity(Holding, lines, p) - Quantity({o}, lines, p)
    BY <1>1, <1>2, <1>3, QuantityOfDifference
  <2>3. Quantity(Holding, lines, p) \in Nat /\ Quantity({o}, lines, p) \in Nat
    BY <1>2, UnitsFinite
  <2>4. stock[p] \in Nat /\ stock[p] + Quantity(Holding, lines, p) = InitStock[p]
    BY DEF TypeOK, StockConserved
  <2> QED
    BY <2>1, <2>2, <2>3, <2>4
<1>5. (\A p \in Product : stock[p] + Quantity(Holding, lines, p) = InitStock[p])'
  BY <1>4
<1> QED
  BY <1>5 DEF StockConserved

\* Checkout moves the units of the expired orders back to stock, and those of
\* the new order out of it.
LEMMA CheckoutConserves ==
  ASSUME TypeOK, StockConserved, NEW u, NEW I, NEW o \in OrderId, Placed(u, I, o)
  PROVE  StockConserved'
<1> DEFINE E == ExpiredOrders(u, I)
<1>1. /\ Holding' = (Holding \ E) \cup {o}
      /\ E \in SUBSET Holding
      /\ o \notin Holding
  BY DEF Holding, WithStatus, Placed, TypeOK
<1>2. Holding \in SUBSET OrderId
  BY HoldingSubset
<1>3. \A r \in Holding \ E : lines'[r] = lines[r]
  BY <1>1, <1>2 DEF Placed, TypeOK
<1>4. ASSUME NEW p \in Product
      PROVE  stock'[p] + Quantity(Holding', lines', p) = InitStock[p]
  <2>1. stock'[p] = stock[p] + Quantity(E, lines, p) - Quantity({o}, lines', p)
    BY DEF Placed
  <2> HIDE DEF E
  <2>2. Quantity(Holding', lines', p)
          = Quantity(Holding \ E, lines', p) + Quantity({o}, lines', p)
    <3>1. (Holding \ E) \in SUBSET OrderId /\ {o} \in SUBSET OrderId
      BY <1>2
    <3>2. (Holding \ E) \cap {o} = {}
      BY <1>1
    <3> QED
      BY <1>1, <3>1, <3>2, QuantityOfUnion
  <2>3. Quantity(Holding \ E, lines', p) = Quantity(Holding \ E, lines, p)
    <3>1. (Holding \ E) \in SUBSET OrderId
      BY <1>2
    <3> QED
      BY <1>3, <3>1, QuantityOfSameLines
  <2>4. Quantity(Holding \ E, lines, p) = Quantity(Holding, lines, p) - Quantity(E, lines, p)
    BY <1>1, <1>2, QuantityOfDifference
  <2>5. /\ Quantity(Holding, lines, p) \in Nat
        /\ Quantity(E, lines, p) \in Nat
        /\ Quantity({o}, lines', p) \in Nat
    <3>1. E \in SUBSET OrderId /\ {o} \in SUBSET OrderId
      BY <1>1, <1>2
    <3> QED
      BY <1>2, <3>1, UnitsFinite
  <2>6. stock[p] \in Nat /\ stock[p] + Quantity(Holding, lines, p) = InitStock[p]
    BY DEF TypeOK, StockConserved
  <2> QED
    BY <2>1, <2>2, <2>3, <2>4, <2>5, <2>6
<1>5. (\A p \in Product : stock[p] + Quantity(Holding, lines, p) = InitStock[p])'
  BY <1>4
<1> QED
  BY <1>5 DEF StockConserved

\* Every step of the interleaved handlers conserves stock.
LEMMA StockStep ==
  TypeOK /\ OverdueArePending /\ StockConserved /\ [ConcurrentNext]_vars => StockConserved'
<1> SUFFICES ASSUME TypeOK, OverdueArePending, StockConserved, [ConcurrentNext]_vars
             PROVE  StockConserved'
  OBVIOUS
<1>1. ASSUME stock' = stock, lines' = lines, Holding' = Holding
      PROVE  StockConserved'
  BY <1>1 DEF StockConserved
<1>2. CASE ProductStep \/ CartStep \/ UNCHANGED vars
  <2>1. stock' = stock /\ lines' = lines /\ status' = status
    BY <1>2, NotOrders
  <2> QED
    BY <1>1, <2>1 DEF Holding, WithStatus
<1>3. ASSUME NEW o \in OrderId, CancelOrder(o) \/ CancelExpiredOrder(o)
      PROVE  StockConserved'
  <2>1. status[o] = "PENDING" /\ CancelAndRestock(o)
    BY <1>3 DEF CancelOrder, CancelExpiredOrder, OverdueArePending
  <2> QED
    BY <2>1, CancelConserves
<1>4. ASSUME NEW o \in OrderId, ConfirmOrder(o)
      PROVE  StockConserved'
  BY <1>1, <1>4 DEF ConfirmOrder, Holding, WithStatus, TypeOK, productVars
<1>5. ASSUME NEW o \in OrderId, CompleteOrder(o)
      PROVE  StockConserved'
  BY <1>1, <1>5 DEF CompleteOrder, RecordSale, Holding, WithStatus, TypeOK
<1>6. ASSUME NEW o \in OrderId, Expire(o)
      PROVE  StockConserved'
  BY <1>1, <1>6 DEF Expire, Holding, WithStatus, productVars
<1>7. ASSUME NEW u \in User, NEW I \in SUBSET CartItem, CheckoutTx(u, I)
      PROVE  StockConserved'
  BY <1>7, CheckoutPlaces, CheckoutConserves
<1> QED
  BY <1>2, <1>3, <1>4, <1>5, <1>6, <1>7 DEF ConcurrentNext, OrderStep

\* Every step of the interleaved handlers counts each completed order once.
LEMMA SoldStep ==
  /\ TypeOK /\ OverdueArePending /\ SoldMatchesCompleted
  /\ [ConcurrentNext]_vars
  => SoldMatchesCompleted'
<1> SUFFICES ASSUME TypeOK, OverdueArePending, SoldMatchesCompleted, [ConcurrentNext]_vars
             PROVE  SoldMatchesCompleted'
  OBVIOUS
<1> DEFINE C == WithStatus({"COMPLETED"})
<1>0. C \in SUBSET OrderId
  BY HoldingSubset
<1>1. ASSUME sold' = sold, C' = C, \A o \in C : lines'[o] = lines[o]
      PROVE  SoldMatchesCompleted'
  <2>1. ASSUME NEW p \in Product
        PROVE  sold'[p] = Quantity(C', lines', p)
    <3>1. Quantity(C, lines', p) = Quantity(C, lines, p)
      BY <1>0, <1>1, QuantityOfSameLines
    <3> QED
      BY <1>1, <3>1 DEF SoldMatchesCompleted
  <2>2. (\A p \in Product : sold[p] = Quantity(C, lines, p))'
    BY <2>1
  <2> QED
    BY <2>2 DEF SoldMatchesCompleted
<1>2. CASE ProductStep \/ CartStep \/ UNCHANGED vars
  <2>1. sold' = sold /\ lines' = lines /\ status' = status
    BY <1>2, NotOrders
  <2> QED
    BY <1>1, <2>1 DEF WithStatus
<1>3. ASSUME NEW o \in OrderId, CancelOrder(o) \/ CancelExpiredOrder(o)
      PROVE  SoldMatchesCompleted'
  <2>1. status[o] = "PENDING" /\ CancelAndRestock(o)
    BY <1>3 DEF CancelOrder, CancelExpiredOrder, OverdueArePending
  <2> QED
    BY <1>1, <2>1 DEF CancelAndRestock, WithStatus, TypeOK
<1>4. ASSUME NEW o \in OrderId, ConfirmOrder(o)
      PROVE  SoldMatchesCompleted'
  BY <1>1, <1>4 DEF ConfirmOrder, WithStatus, TypeOK, productVars
<1>5. ASSUME NEW o \in OrderId, CompleteOrder(o)
      PROVE  SoldMatchesCompleted'
  <2>1. C' = C \cup {o} /\ o \notin C /\ lines' = lines
    BY <1>5 DEF CompleteOrder, RecordSale, WithStatus, TypeOK
  <2>2. ASSUME NEW p \in Product
        PROVE  sold'[p] = Quantity(C', lines', p)
    <3>1. sold'[p] = sold[p] + Quantity({o}, lines, p)
      BY <1>5 DEF CompleteOrder, RecordSale
    <3>2. Quantity(C', lines', p) = Quantity(C, lines, p) + Quantity({o}, lines, p)
      <4>1. {o} \in SUBSET OrderId /\ C \cap {o} = {}
        BY <2>1
      <4> QED
        BY <1>0, <2>1, <4>1, QuantityOfUnion
    <3>3. sold[p] = Quantity(C, lines, p)
      BY DEF SoldMatchesCompleted
    <3> HIDE DEF C
    <3> QED
      BY <3>1, <3>2, <3>3
  <2>3. (\A p \in Product : sold[p] = Quantity(C, lines, p))'
    BY <2>2
  <2> QED
    BY <2>3 DEF SoldMatchesCompleted
<1>6. ASSUME NEW o \in OrderId, Expire(o)
      PROVE  SoldMatchesCompleted'
  BY <1>1, <1>6 DEF Expire, WithStatus, productVars
<1>7. ASSUME NEW u \in User, NEW I \in SUBSET CartItem, CheckoutTx(u, I)
      PROVE  SoldMatchesCompleted'
  <2>1. PICK o \in OrderId : Placed(u, I, o)
    BY <1>7, CheckoutPlaces
  <2>2. C' = C /\ o \notin C
    BY <2>1 DEF Placed, WithStatus, TypeOK
  <2>3. \A r \in C : lines'[r] = lines[r]
    BY <1>0, <2>1, <2>2 DEF Placed, TypeOK
  <2>4. sold' = sold
    BY <2>1 DEF Placed
  <2> QED
    BY <1>1, <2>2, <2>3, <2>4
<1> QED
  BY <1>2, <1>3, <1>4, <1>5, <1>6, <1>7 DEF ConcurrentNext, OrderStep

-----------------------------------------------------------------------------
(***************************************************************************)
(* The theorems.                                                           *)
(***************************************************************************)

\* The inductive invariant: none of its conjuncts but the first two is
\* inductive alone.
IInv ==
  /\ TypeOK
  /\ OverdueArePending
  /\ OwnLines
  /\ OnePendingPerCartItem
  /\ StockConserved
  /\ SoldMatchesCompleted

LEMMA IInvInit == Init => IInv
<1> SUFFICES ASSUME Init
             PROVE  IInv
  OBVIOUS
<1>1. Holding = {} /\ WithStatus({"COMPLETED"}) = {} /\ WithStatus({"PENDING"}) = {}
  BY DEF Init, Holding, WithStatus
<1>2. StockConserved
  <2> SUFFICES ASSUME NEW p \in Product
               PROVE  stock[p] + Quantity(Holding, lines, p) = InitStock[p]
    BY DEF StockConserved
  <2>1. Quantity(Holding, lines, p) = 0
    BY <1>1, QuantityOfNone
  <2> QED
    BY <2>1, StockAssumption DEF Init
<1>3. SoldMatchesCompleted
  BY <1>1, QuantityOfNone DEF SoldMatchesCompleted, Init
<1>4. OverdueArePending /\ OwnLines /\ OnePendingPerCartItem
  BY <1>1 DEF Init, OverdueArePending, OwnLines, OnePendingPerCartItem
<1> QED
  BY <1>2, <1>3, <1>4, TypeInit DEF IInv

\* No step of the interleaved handlers leaves the inductive invariant.
LEMMA IInvStep == IInv /\ [ConcurrentNext]_vars => IInv'
BY TypeStep, OverdueStep, OwnLinesStep, OnePendingStep, StockStep, SoldStep DEF IInv

\* The inductive invariant holds in every state of the interleaved handlers
\* of the cart and order services.
THEOREM Invariance == ConcurrentSpec => []IInv
<1> QED
  BY IInvInit, IInvStep, PTL DEF ConcurrentSpec

\* Whatever the interleaving of checkouts, cancellations, expiries and
\* payments, no unit of stock is lost and none is sold twice.
THEOREM StockIsConserved == ConcurrentSpec => []StockConserved
<1>1. IInv => StockConserved
  BY DEF IInv
<1> QED
  BY <1>1, Invariance, PTL

\* total_sold is at all times the quantity of the completed orders.
THEOREM SoldIsCompleted == ConcurrentSpec => []SoldMatchesCompleted
<1>1. IInv => SoldMatchesCompleted
  BY DEF IInv
<1> QED
  BY <1>1, Invariance, PTL

\* A cart row is never in two pending orders.
THEOREM OnePending == ConcurrentSpec => []OnePendingPerCartItem
<1>1. IInv => OnePendingPerCartItem
  BY DEF IInv
<1> QED
  BY <1>1, Invariance, PTL

\* No order ever has a row of another customer's cart.
THEOREM LinesAreOwn == ConcurrentSpec => []OwnLines
<1>1. IInv => OwnLines
  BY DEF IInv
<1> QED
  BY <1>1, Invariance, PTL

\* Running the handlers one at a time is a special case of interleaving them,
\* so every theorem above holds of Spec too.
THEOREM SerialIsConcurrent == Spec => ConcurrentSpec
<1>1. [Next]_vars => [ConcurrentNext]_vars
  BY DEF Next, ConcurrentNext, CartStep, AddItem, Checkout
<1> QED
  BY <1>1, PTL DEF Spec, ConcurrentSpec
=============================================================================
