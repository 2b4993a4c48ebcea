------------------------------ MODULE Amounts ------------------------------
(***************************************************************************)
(* The amount of an order from the products' prices to the payment:        *)
(* Checkout of internal/service/order.go computes in int32, PostgreSQL     *)
(* checks what it stores, and InitiatePayment sends Snap the stored total  *)
(* with the stored lines, while an admin changes prices.  Integers have    *)
(* Width bits; a line has at most as many units as are in stock.           *)
(***************************************************************************)
EXTENDS Integers, FiniteSets, Functions

CONSTANTS
  Priced,      \* the products in one cart
  Width,       \* 32
  MaxPrice,    \* 99999999
  MaxInStock   \* the units of a product in stock: the quantity of a line

Limit == 2 ^ (Width - 1)

ASSUME AmountsAssumption ==
  /\ IsFiniteSet(Priced)
  /\ Width \in Nat \ {0} /\ MaxPrice \in Nat /\ MaxInStock \in Nat
  /\ MaxPrice < Limit /\ MaxInStock < Limit

VARIABLES
  price,       \* products.price
  priced,      \* the order: its lines, its total and how far it got
  charged      \* payments.amount; 0: there is no payment

amountsVars == <<price, priced, charged>>

\* What int32 makes of an integer.
Wrap(n) == ((n + Limit) % (2 * Limit)) - Limit

\* A line of an order as order_items keeps it.
PricedLine == [price : 0..MaxPrice, quantity : 0..MaxInStock]

NoLines == [p \in Priced |-> [price |-> 0, quantity |-> 0]]
NotPriced == [pc |-> "idle", lines |-> NoLines, total |-> 0]

AmountsTypeOK ==
  /\ price \in [Priced -> 0..MaxPrice]
  /\ priced \in [pc : {"idle", "read", "stored", "paying"},
                 lines : [Priced -> PricedLine],
                 total : (-Limit)..(Limit - 1)]
  /\ charged \in Int

AmountsInit ==
  /\ price = [p \in Priced |-> 0]
  /\ priced = NotPriced
  /\ charged = 0

-----------------------------------------------------------------------------
\* price and quantity of a line, subtotal := row.Price * row.Quantity.
Exact(line) == line.price * line.quantity
Subtotal(line) == Wrap(Exact(line))

\* totalAmount += subtotal, for each line.
TotalAmount(lines) ==
  FoldFunction(LAMBDA line, sum : Wrap(sum + Subtotal(line)), 0, lines)

\* What the lines come to.
Worth(lines) == FoldFunction(LAMBDA line, sum : sum + Exact(line), 0, lines)

\* products_price_non_negative and the handler's upper bound.
SetPrice(p, n) ==
  /\ price' = [price EXCEPT ![p] = n]
  /\ UNCHANGED <<priced, charged>>

\* ListCheckoutCartItemsForUser reads the prices; they are not locked.
ReadLines(quantity) ==
  /\ priced.pc = "idle"
  /\ LET lines == [p \in Priced |-> [price |-> price[p], quantity |-> quantity[p]]]
     IN  priced' = [pc |-> "read", lines |-> lines, total |-> TotalAmount(lines)]
  /\ UNCHANGED <<price, charged>>

\* orders_total_amount_non_negative and order_items_subtotal_non_negative.
\* Faulty: an order must cost something.
StorableIfPositive(order) ==
  order.total > 0 /\ \A p \in Priced : Subtotal(order.lines[p]) >= 0
Storable(order) ==
  order.total >= 0 /\ \A p \in Priced : Subtotal(order.lines[p]) >= 0

StoreOrder ==
  /\ priced.pc = "read"
  /\ priced' = IF Storable(priced) THEN [priced EXCEPT !.pc = "stored"] ELSE NotPriced
  /\ UNCHANGED <<price, charged>>

\* InitiatePayment asks Snap for the stored total, with the stored lines
\* (snapItemsFromOrderItems).  Faulty: with what the products cost now.
SnapRequestNow(order) ==
  LET now == [p \in Priced |-> [price |-> price[p], quantity |-> order.lines[p].quantity]]
  IN  [gross |-> TotalAmount(now), items |-> now]
SnapRequest(order) == [gross |-> order.total, items |-> order.lines]

\* Snap refuses a gross amount that is not the sum of its items.
SnapAccepts(request) == request.gross = Worth(request.items)

PayOrder ==
  /\ priced.pc = "stored"
  /\ SnapAccepts(SnapRequest(priced))
  /\ priced' = [priced EXCEPT !.pc = "paying"]
  /\ charged' = SnapRequest(priced).gross
  /\ UNCHANGED price

\* The order is cancelled, completed or left alone; the next one.
NextOrder ==
  /\ priced.pc \in {"stored", "paying"}
  /\ priced' = NotPriced
  /\ charged' = 0
  /\ UNCHANGED price

AmountsNext ==
  \/ \E p \in Priced, n \in 0..MaxPrice : SetPrice(p, n)
  \/ \E quantity \in [Priced -> 0..MaxInStock] : ReadLines(quantity)
  \/ StoreOrder
  \/ PayOrder
  \/ NextOrder

AmountsSpec == AmountsInit /\ [][AmountsNext]_amountsVars

-----------------------------------------------------------------------------
(***************************************************************************)
(* Properties.                                                             *)
(***************************************************************************)

\* A customer pays exactly what the lines of the order come to, at the prices
\* of the checkout: prices that change meanwhile do not matter, and an order
\* whose total wrapped to another number is never paid.
PaidIsOrdered == priced.pc = "paying" => charged = Worth(priced.lines)

\* Only an order that comes to more than an int32 holds is refused for its
\* amount: one that fits has the exact total although the sum is built in
\* int32, line by line, so the CHECKs store it, those of single lines included,
\* and Snap finds its gross amount to be the sum of its items.
OrdersThatFitPass ==
  Worth(priced.lines) < Limit =>
    /\ priced.pc = "read" => Storable(priced)
    /\ priced.pc = "stored" => SnapAccepts(SnapRequest(priced))
=============================================================================
