--------------------------- MODULE OrderTxProofs ---------------------------
(***************************************************************************)
(* The order transactions, statement by statement and in any number at a   *)
(* time, do to the committed rows what whole handlers do: TxSpec           *)
(* implements ConcurrentSpec, so all that OrdersProofs shows holds of the  *)
(* transactions.  The proof is that of two-phase locking, for the rows     *)
(* each handler locks: what a transaction has locked stays as it found it, *)
(* and what it has written so far is what remains to be written less than  *)
(* the whole handler writes.                                               *)
(***************************************************************************)
EXTENDS OrderTx, OrdersProofs, SequenceTheorems, WellFoundedInduction

-----------------------------------------------------------------------------
(***************************************************************************)
(* The inductive invariant.                                                *)
(***************************************************************************)

\* The units of product p in the cart rows I, of quantities f.
RowUnits(f, I, p) ==
  {x \in I \X (1..MaxQty) : x[2] <= f[x[1]] /\ ProductOf(x[1]) = p}

InRows(f, I, p) == Cardinality(RowUnits(f, I, p))

\* The expired orders that Checkout has listed are of its customer and hold one
\* of the rows it orders.
ListedBy(tx, o) ==
  /\ status[o] # "none"
  /\ owner[o] = tx.user
  /\ \E i \in ToSet(tx.items) : lines[o][i] > 0

\* Checkout knows which rows it orders, and has locked them after its first
\* statement.
RowsSound(t, tx) ==
  /\ tx.user \in User /\ tx.items # <<>>
  /\ IsInjective(tx.items) /\ IsInjective(tx.todo)
  /\ tx.pc \in {"rows", "expired", "restock", "number", "take", "commit"}
  /\ ToSet(tx.todo) \subseteq IF tx.pc = "restock" THEN LinesOf(tx.order) ELSE ToSet(tx.items)
  /\ tx.pc \in {"expired", "number", "commit"} => tx.todo = <<>>
  /\ tx.pc \in {"restock", "take"} => tx.todo # <<>>
  /\ \A i \in ToSet(tx.items) :
       tx.pc # "rows" \/ i \notin ToSet(tx.todo)
         => lock[i] = t /\ Live(i) /\ RowOf[i].user = tx.user

\* The expired orders: those still listed, those cancelled, and the one whose
\* lines are on their way back to stock.
ExpiredSound(t, tx) ==
  /\ IsInjective(tx.expd)
  /\ tx.pc \in {"rows", "number", "take", "commit"} => tx.expd = <<>>
  /\ tx.pc = "rows" => tx.ended = {}
  /\ \A o \in ToSet(tx.expd) : ListedBy(tx, o) /\ o \notin tx.ended
  /\ \A o \in tx.ended : ListedBy(tx, o) /\ lock[o] = t /\ StillExpired(o)
  /\ tx.pc = "restock" =>
       /\ tx.expd # <<>> /\ tx.order = Head(tx.expd)
       /\ lock[tx.order] = t /\ StillExpired(tx.order)

\* The order: not there yet, or under a fresh id; then no other pending order
\* has its rows, and the products taken from are on sale.
PlacedSound(t, tx) ==
  /\ tx.pc \in {"rows", "expired", "number"} =>
       tx.order = NoOrder \/ status[tx.order] # "none"
  /\ tx.pc \in {"number", "take", "commit"} =>
       NonePending(tx.user, ToSet(tx.items), tx.ended)
  /\ tx.pc \in {"take", "commit"} =>
       /\ tx.order \in OrderId /\ status[tx.order] = "none"
       /\ \A i \in ToSet(tx.items) \ ToSet(tx.todo) :
            lock[ProductOf(i)] = t /\ OnSale(ProductOf(i))

\* What Checkout has written to stock.
MovedSound(tx) ==
  \A p \in Product :
    /\ tx.pc \in {"rows", "expired", "number"} =>
         tx.moved[p] = Quantity(tx.ended, lines, p)
    /\ tx.pc = "restock" =>
         tx.moved[p] + InRows(lines[tx.order], ToSet(tx.todo), p)
           = Quantity(tx.ended, lines, p) + Quantity({tx.order}, lines, p)
    /\ tx.pc \in {"take", "commit"} =>
         tx.moved[p] + InRows(cartQty, ToSet(tx.items), p)
           = Quantity(tx.ended, lines, p) + InRows(cartQty, ToSet(tx.todo), p)

CheckoutSound(t, tx) ==
  /\ tx.kind = "checkout"
  /\ RowsSound(t, tx)
  /\ ExpiredSound(t, tx)
  /\ PlacedSound(t, tx)
  /\ MovedSound(tx)

\* A transaction on one order has locked it, and still may do what it does.
OneOrderSound(t, tx) ==
  /\ tx.kind \in Kind \ {"checkout", "clear"}
  /\ tx.pc \in {"lock", "move", "commit"}
  /\ tx.ended = {}
  /\ tx.order \in OrderId /\ status[tx.order] # "none"
  /\ tx.pc # "lock" => lock[tx.order] = t /\ Allows(tx.kind, tx.order)
  /\ tx.kind = "confirm" => tx.pc # "move"
  /\ IsInjective(tx.todo) /\ ToSet(tx.todo) \subseteq LinesOf(tx.order)
  /\ tx.pc = "move" <=> tx.todo # <<>>
  /\ \A p \in Product :
       IF tx.pc = "lock" \/ tx.kind = "confirm" THEN tx.moved[p] = 0
       ELSE tx.moved[p] + InRows(lines[tx.order], ToSet(tx.todo), p)
              = Quantity({tx.order}, lines, p)

\* A transaction that clears has locked the rows it has deleted so far.
ClearSound(t, tx) ==
  /\ tx.kind = "clear" /\ tx.pc = "clear"
  /\ tx.order = NoOrder /\ tx.ended = {}
  /\ \A p \in Product : tx.moved[p] = 0
  /\ \A i \in ToSet(tx.items) : lock[i] = t

Sound(t, tx) ==
  /\ \A p \in Product : tx.moved[p] # 0 => lock[p] = t
  /\ \/ tx = Idle
     \/ CheckoutSound(t, tx)
     \/ OneOrderSound(t, tx)
     \/ ClearSound(t, tx)

\* The id of an order that is not committed yet is one transaction's alone.
FreshApart ==
  \A t, q \in Tx :
    t # q /\ txn[t].order \in OrderId /\ status[txn[t].order] = "none"
      => txn[q].order # txn[t].order

OrdersHaveLines == \A o \in OrderId : status[o] # "none" => LinesOf(o) # {}

TxInv ==
  /\ TxTypeOK
  /\ OverdueArePending
  /\ OrdersHaveLines
  /\ FreshApart
  /\ \A t \in Tx : \A tx \in {txn[t]} : Sound(t, tx)

-----------------------------------------------------------------------------
(***************************************************************************)
(* Sequences of distinct rows.                                             *)
(***************************************************************************)

\* The rows a statement returns are each returned once, in some order.
LEMMA OrderReturnsEach ==
  ASSUME NEW S, IsFiniteSet(S), NEW s \in AnyOrder(S)
  PROVE  s \in Seq(S) /\ IsInjective(s) /\ ToSet(s) = S
<1> DEFINE D == 1..Cardinality(S)
<1>1. Cardinality(S) \in Nat
  BY FS_CardinalityType
<1>2. s \in [D -> S] /\ \A j, k \in D : j # k => s[j] # s[k]
  BY DEF AnyOrder, SetToSeqs
<1>3. s \in Seq(S)
  BY <1>1, <1>2
<1>4. IsInjective(s)
  BY <1>2 DEF IsInjective
<1>5. s \in Injection(D, S)
  BY <1>2 DEF Injection, IsInjective
<1>6. IsFiniteSet(D) /\ Cardinality(D) = Cardinality(S)
  BY <1>1, FS_Interval
<1>7. s \in Surjection(D, S)
  BY <1>5, <1>6, FS_Injection
<1>8. \A x \in S : \E k \in D : s[k] = x
  BY <1>7 DEF Surjection
<1>9. ToSet(s) = S
  BY <1>2, <1>8 DEF ToSet
<1> QED
  BY <1>3, <1>4, <1>9

\* Dropping the first of distinct rows.
LEMMA TailDropsOne ==
  ASSUME NEW S, NEW s \in Seq(S), s # <<>>, IsInjective(s)
  PROVE  /\ Head(s) \in ToSet(s) /\ Head(s) \in S
         /\ Tail(s) \in Seq(S) /\ IsInjective(Tail(s))
         /\ ToSet(Tail(s)) = ToSet(s) \ {Head(s)}
         /\ Len(s) = 1 <=> Tail(s) = <<>>
<1>1. Len(s) \in Nat \ {0} /\ DOMAIN s = 1..Len(s)
  BY EmptySeq, LenProperties
<1>2. /\ Tail(s) \in Seq(S) /\ Len(Tail(s)) = Len(s) - 1
      /\ \A k \in 1..Len(Tail(s)) : Tail(s)[k] = s[k + 1]
      /\ Head(s) = s[1] /\ Head(s) \in S
  BY HeadTailProperties
<1>3. DOMAIN Tail(s) = 1..(Len(s) - 1)
  BY <1>2, LenProperties
<1>4. IsInjective(Tail(s))
  <2> SUFFICES ASSUME NEW j \in 1..(Len(s) - 1), NEW k \in 1..(Len(s) - 1),
                      Tail(s)[j] = Tail(s)[k]
               PROVE  j = k
    BY <1>3 DEF IsInjective
  <2>1. j + 1 \in 1..Len(s) /\ k + 1 \in 1..Len(s) /\ s[j + 1] = s[k + 1]
    BY <1>1, <1>2
  <2> QED
    BY <1>1, <2>1 DEF IsInjective
<1>5. ToSet(Tail(s)) = ToSet(s) \ {Head(s)}
  <2>1. ASSUME NEW k \in 1..(Len(s) - 1)
        PROVE  Tail(s)[k] \in ToSet(s) \ {Head(s)}
    <3>1. k + 1 \in 1..Len(s) /\ 1 \in 1..Len(s) /\ k + 1 # 1 /\ Tail(s)[k] = s[k + 1]
      BY <1>1, <1>2
    <3> QED
      BY <1>1, <1>2, <3>1 DEF IsInjective, ToSet
  <2>2. ASSUME NEW k \in 1..Len(s), s[k] # Head(s)
        PROVE  s[k] \in ToSet(Tail(s))
    <3>1. k # 1
      BY <1>2, <2>2
    <3>2. k - 1 \in 1..(Len(s) - 1) /\ Tail(s)[k - 1] = s[k]
      BY <1>1, <1>2, <3>1
    <3> QED
      BY <1>3, <3>2 DEF ToSet
  <2>3. ToSet(Tail(s)) \subseteq ToSet(s) \ {Head(s)}
    BY <1>3, <2>1 DEF ToSet
  <2>4. ToSet(s) \ {Head(s)} \subseteq ToSet(Tail(s))
    BY <1>1, <2>2 DEF ToSet
  <2> QED
    BY <2>3, <2>4
<1>6. Len(s) = 1 <=> Tail(s) = <<>>
  BY <1>1, <1>2, EmptySeq
<1>7. Head(s) \in ToSet(s)
  BY <1>1, <1>2 DEF ToSet
<1> QED
  BY <1>2, <1>4, <1>5, <1>6, <1>7

LEMMA NoneInEmpty == ToSet(<<>>) = {} /\ IsInjective(<<>>)
BY DEF ToSet, IsInjective

LEMMA SomeInSequence ==
  ASSUME NEW S, NEW s \in Seq(S)
  PROVE  ToSet(s) \in SUBSET S /\ (s # <<>> => ToSet(s) # {})
<1>1. Len(s) \in Nat /\ DOMAIN s = 1..Len(s) /\ \A k \in 1..Len(s) : s[k] \in S
  BY LenProperties, ElementOfSeq
<1>2. s # <<>> => 1 \in 1..Len(s)
  BY <1>1, EmptySeq
<1> QED
  BY <1>1, <1>2 DEF ToSet

-----------------------------------------------------------------------------
(***************************************************************************)
(* Counting the units of an order line by line.                            *)
(***************************************************************************)

LEMMA InRowsFinite ==
  ASSUME NEW I \in SUBSET CartItem, NEW f, NEW p
  PROVE  IsFiniteSet(RowUnits(f, I, p)) /\ InRows(f, I, p) \in Nat
<1>1. IsFiniteSet(I) /\ IsFiniteSet(1..MaxQty)
  BY CartItemAssumption, FS_Subset, QtyAssumption, FS_Interval
<1>2. IsFiniteSet(I \X (1..MaxQty))
  BY <1>1, FS_Product
<1>3. RowUnits(f, I, p) \in SUBSET (I \X (1..MaxQty))
  BY DEF RowUnits
<1> QED
  BY <1>2, <1>3, FS_Subset, FS_CardinalityType DEF InRows

LEMMA InNoRows ==
  ASSUME NEW f, NEW p
  PROVE  InRows(f, {}, p) = 0
<1>1. RowUnits(f, {}, p) = {}
  BY DEF RowUnits
<1> QED
  BY <1>1, FS_EmptySet DEF InRows

\* The units in rows depend on the quantities of these rows only.
LEMMA InSameRows ==
  ASSUME NEW I, NEW f, NEW g, NEW p, \A i \in I : f[i] = g[i]
  PROVE  InRows(f, I, p) = InRows(g, I, p)
<1>1. RowUnits(f, I, p) = RowUnits(g, I, p)
  BY DEF RowUnits
<1> QED
  BY <1>1 DEF InRows

\* One row less is its quantity less, for the row's product.
LEMMA InRowsWithout ==
  ASSUME NEW I \in SUBSET CartItem, NEW i \in I, NEW f, NEW p, f[i] \in 0..MaxQty
  PROVE  /\ p # ProductOf(i) => InRows(f, I \ {i}, p) = InRows(f, I, p)
         /\ p = ProductOf(i) => InRows(f, I, p) = InRows(f, I \ {i}, p) + f[i]
<1>1. CASE p # ProductOf(i)
  <2>1. RowUnits(f, I \ {i}, p) = RowUnits(f, I, p)
    BY <1>1 DEF RowUnits
  <2> QED
    BY <1>1, <2>1 DEF InRows
<1>2. CASE p = ProductOf(i)
  <2> DEFINE here == {i} \X (1..f[i])
             rest == RowUnits(f, I \ {i}, p)
  <2>1. f[i] \in Nat /\ f[i] <= MaxQty /\ MaxQty \in Nat
    BY QtyAssumption
  <2>2. /\ IsFiniteSet(1..f[i]) /\ Cardinality(1..f[i]) = f[i]
        /\ IsFiniteSet({i}) /\ Cardinality({i}) = 1
    <3> DEFINE n == f[i]
    <3>1. n \in Nat /\ 1 \in Int
      BY <2>1
    <3> HIDE DEF n
    <3>2. IsFiniteSet(1..n) /\ Cardinality(1..n) = IF 1 > n THEN 0 ELSE n - 1 + 1
      BY <3>1, FS_Interval
    <3>3. IsFiniteSet(1..n) /\ Cardinality(1..n) = n
      BY <3>1, <3>2
    <3> QED
      BY <3>3, FS_Singleton DEF n
  <2>3. IsFiniteSet(here) /\ Cardinality(here) = 1 * f[i]
    BY <2>2, FS_Product
  <2>4. \A n \in 1..f[i] : n \in 1..MaxQty /\ n <= f[i]
    BY <2>1
  <2>5. \A n \in 1..MaxQty : n <= f[i] => n \in 1..f[i]
    BY <2>1
  <2>6. RowUnits(f, I, p) = rest \cup here
    BY <1>2, <2>4, <2>5 DEF RowUnits
  <2>7. rest \cap here = {}
    BY DEF RowUnits
  <2>8. IsFiniteSet(rest) /\ InRows(f, I \ {i}, p) \in Nat
    BY InRowsFinite
  <2>9. Cardinality(rest \cup here)
          = Cardinality(rest) + Cardinality(here) - Cardinality(rest \cap here)
    BY <2>3, <2>8, FS_Union
  <2>10. Cardinality(rest \cap here) = 0
    BY <2>7, FS_EmptySet
  <2>11. InRows(f, I, p) = Cardinality(rest \cup here) /\ InRows(f, I \ {i}, p) = Cardinality(rest)
    BY <2>6 DEF InRows
  <2> HIDE DEF here, rest
  <2>12. InRows(f, I, p) = InRows(f, I \ {i}, p) + f[i]
    BY <2>1, <2>3, <2>8, <2>9, <2>10, <2>11
  <2> QED
    BY <1>2, <2>12
<1> QED
  BY <1>1, <1>2

\* An order's units are the units in the rows it has lines for.
LEMMA InRowsOfOrder ==
  ASSUME NEW o, NEW L, NEW I \in SUBSET CartItem, NEW p,
         \A i \in CartItem \ I : L[o][i] = 0
  PROVE  Quantity({o}, L, p) = InRows(L[o], I, p)
<1> DEFINE R == RowUnits(L[o], I, p)
           U == Units({o}, L, p)
           f == [x \in R |-> <<<<o, x[1]>>, x[2]>>]
<1>1. \A x \in R : f[x] \in U
  BY DEF RowUnits, Units
<1>2. IsInjective(f)
  BY DEF IsInjective, RowUnits
<1>3. ASSUME NEW y \in U
      PROVE  \E x \in R : f[x] = y
  <2>1. PICK i \in CartItem, n \in 1..MaxQty : y = <<<<o, i>>, n>>
    BY DEF Units
  <2>2. n <= L[o][i] /\ ProductOf(i) = p
    BY <2>1 DEF Units
  <2>3. i \in I
    BY <2>2
  <2>4. <<i, n>> \in R
    BY <2>2, <2>3 DEF RowUnits
  <2>5. f[<<i, n>>] = y
    BY <2>1, <2>4
  <2> QED
    BY <2>4, <2>5
<1>4. f \in Bijection(R, U)
  BY <1>1, <1>2, <1>3 DEF Bijection, Injection, Surjection, IsInjective
<1>5. ExistsBijection(R, U)
  BY <1>4 DEF ExistsBijection
<1>6. Cardinality(U) = Cardinality(R)
  BY <1>5, InRowsFinite, FS_Bijection
<1> QED
  BY <1>6 DEF Quantity, InRows

-----------------------------------------------------------------------------
(***************************************************************************)
(* What the other transactions, and the handlers, leave alone.             *)
(***************************************************************************)

LEMMA TxStateTypes ==
  ASSUME NEW tx \in TxState
  PROVE  /\ tx.kind \in Kind \cup {"none"} /\ tx.user \in User \cup {NoUser}
         /\ tx.items \in Seq(CartItem) /\ ToSet(tx.items) \in SUBSET CartItem
         /\ tx.todo \in Seq(CartItem) /\ ToSet(tx.todo) \in SUBSET CartItem
         /\ tx.expd \in Seq(OrderId) /\ ToSet(tx.expd) \in SUBSET OrderId
         /\ tx.order \in OrderId \cup {NoOrder}
         /\ tx.seen \in [Product -> Nat] /\ tx.moved \in [Product -> Int]
         /\ tx.ended \in SUBSET OrderId
BY SomeInSequence DEF TxState

\* A step of somebody else respects the locks of q, keeps the lines and the
\* owner of every order, adds no pending order with a row that q has locked,
\* and does not take the id of q's order.
Undisturbed(q, fresh) ==
  /\ \A r \in Row : lock[r] = q => lock'[r] = q
  /\ \A i \in CartItem : lock[i] = q => cartQty'[i] = cartQty[i]
  /\ \A p \in Product : lock[p] = q =>
       stock'[p] = stock[p] /\ shelf'[p] = shelf[p] /\ (p \in deleted' => p \in deleted)
  /\ \A o \in OrderId : status[o] # "none" =>
       status'[o] # "none" /\ lines'[o] = lines[o] /\ owner'[o] = owner[o]
  /\ \A o \in OrderId : lock[o] = q /\ status[o] # "none" =>
       status'[o] = status[o] /\ (o \in overdue => o \in overdue')
  /\ \A o \in OrderId : status'[o] = "PENDING" /\ status[o] # "PENDING" =>
       \A i \in CartItem : lock[i] = q => lines'[o][i] = 0
  /\ fresh \in OrderId /\ status[fresh] = "none" => status'[fresh] = "none"

LEMMA RowsUndisturbed ==
  ASSUME NEW q, NEW tx \in TxState, Undisturbed(q, tx.order), RowsSound(q, tx),
         tx.pc = "restock" => tx.order \in OrderId /\ status[tx.order] # "none"
  PROVE  RowsSound(q, tx)'
<1>1. ToSet(tx.items) \in SUBSET CartItem
  BY TxStateTypes
<1>2. \A i \in CartItem : i \in Row
  BY DEF Row
<1>3. \A i \in ToSet(tx.items) :
        tx.pc # "rows" \/ i \notin ToSet(tx.todo)
          => lock'[i] = q /\ cartQty'[i] > 0 /\ RowOf[i].user = tx.user
  BY <1>1, <1>2 DEF RowsSound, Undisturbed, Live
<1>4. tx.pc = "restock" => lines'[tx.order] = lines[tx.order]
  BY DEF Undisturbed
<1>5. ToSet(tx.todo) \subseteq IF tx.pc = "restock" THEN {i \in CartItem : lines'[tx.order][i] > 0}
                               ELSE ToSet(tx.items)
  BY <1>4 DEF RowsSound, LinesOf
<1> QED
  BY <1>3, <1>5 DEF RowsSound, LinesOf, Live

LEMMA ExpiredUndisturbed ==
  ASSUME NEW q, NEW tx \in TxState, Undisturbed(q, tx.order), ExpiredSound(q, tx)
  PROVE  ExpiredSound(q, tx)'
<1>1. ToSet(tx.expd) \in SUBSET OrderId /\ tx.ended \in SUBSET OrderId /\ tx.expd \in Seq(OrderId)
  BY TxStateTypes
<1>2. \A o \in OrderId : o \in Row
  BY DEF Row
<1>3. \A o \in OrderId : ListedBy(tx, o) =>
        /\ status'[o] # "none" /\ owner'[o] = tx.user
        /\ \E i \in ToSet(tx.items) : lines'[o][i] > 0
  BY DEF ListedBy, Undisturbed
<1>4. \A o \in OrderId : lock[o] = q /\ StillExpired(o) =>
        lock'[o] = q /\ status'[o] = "PENDING" /\ o \in overdue'
  BY <1>2 DEF Undisturbed, StillExpired
<1>5. tx.pc = "restock" => tx.order \in OrderId
  BY <1>1, TailDropsOne DEF ExpiredSound
<1> QED
  BY <1>1, <1>3, <1>4, <1>5 DEF ExpiredSound, ListedBy, StillExpired

LEMMA PlacedUndisturbed ==
  ASSUME TypeOK, TypeOK', NEW q, NEW tx \in TxState, Undisturbed(q, tx.order),
         RowsSound(q, tx), PlacedSound(q, tx)
  PROVE  PlacedSound(q, tx)'
<1>1. ToSet(tx.items) \in SUBSET CartItem /\ tx.order \in OrderId \cup {NoOrder}
  BY TxStateTypes
<1>2. \A i \in CartItem : ProductOf(i) \in Product
  BY RowAssumption DEF ProductOf
<1>3. \A p \in Product : p \in Row
  BY DEF Row
<1>4. tx.pc \in {"rows", "expired", "number"} =>
        tx.order = NoOrder \/ status'[tx.order] # "none"
  BY <1>1 DEF PlacedSound, Undisturbed
<1>5. ASSUME tx.pc \in {"number", "take", "commit"}, NEW o \in OrderId \ tx.ended,
             status'[o] = "PENDING", owner'[o] = tx.user, NEW i \in ToSet(tx.items)
      PROVE  lines'[o][i] = 0
  <2>1. lock[i] = q /\ i \in CartItem
    BY <1>1, <1>5 DEF RowsSound
  <2>2. CASE status[o] = "PENDING"
    <3>1. lines'[o] = lines[o] /\ owner'[o] = owner[o]
      BY <2>2 DEF Undisturbed
    <3> QED
      BY <1>5, <2>2, <3>1 DEF PlacedSound, NonePending
  <2>3. CASE status[o] # "PENDING"
    BY <1>5, <2>1, <2>3 DEF Undisturbed
  <2> QED
    BY <2>2, <2>3
<1>6. tx.pc \in {"number", "take", "commit"} =>
        \A o \in OrderId \ tx.ended :
          status'[o] = "PENDING" /\ owner'[o] = tx.user
            => \A i \in ToSet(tx.items) : lines'[o][i] = 0
  BY <1>5
<1>7. tx.pc \in {"take", "commit"} =>
        /\ tx.order \in OrderId /\ status'[tx.order] = "none"
        /\ \A i \in ToSet(tx.items) \ ToSet(tx.todo) :
             /\ lock'[ProductOf(i)] = q
             /\ ProductOf(i) \notin deleted' /\ shelf'[ProductOf(i)] = "available"
  BY <1>1, <1>2, <1>3 DEF PlacedSound, Undisturbed, OnSale
<1> QED
  BY <1>4, <1>6, <1>7 DEF PlacedSound, NonePending, OnSale

LEMMA MovedUndisturbed ==
  ASSUME NEW q, NEW tx \in TxState, Undisturbed(q, tx.order),
         RowsSound(q, tx), ExpiredSound(q, tx), MovedSound(tx)
  PROVE  MovedSound(tx)'
<1>1. /\ ToSet(tx.items) \in SUBSET CartItem /\ tx.ended \in SUBSET OrderId
      /\ tx.expd \in Seq(OrderId)
  BY TxStateTypes
<1>2. \A o \in tx.ended : lines'[o] = lines[o]
  BY <1>1 DEF ExpiredSound, ListedBy, Undisturbed
<1>3. tx.pc = "restock" =>
        tx.order \in OrderId /\ {tx.order} \in SUBSET OrderId /\ lines'[tx.order] = lines[tx.order]
  BY <1>1, TailDropsOne DEF ExpiredSound, StillExpired, Undisturbed
<1>4. \A i \in ToSet(tx.items) : tx.pc # "rows" => cartQty'[i] = cartQty[i]
  BY <1>1 DEF RowsSound, Undisturbed
<1>5. tx.pc = "take" \/ tx.pc = "commit" => ToSet(tx.todo) \subseteq ToSet(tx.items)
  BY DEF RowsSound
<1> SUFFICES ASSUME NEW p \in Product
             PROVE  /\ tx.pc \in {"rows", "expired", "number"} =>
                         tx.moved[p] = Quantity(tx.ended, lines', p)
                    /\ tx.pc = "restock" =>
                         tx.moved[p] + InRows(lines'[tx.order], ToSet(tx.todo), p)
                           = Quantity(tx.ended, lines', p) + Quantity({tx.order}, lines', p)
                    /\ tx.pc \in {"take", "commit"} =>
                         tx.moved[p] + InRows(cartQty', ToSet(tx.items), p)
                           = Quantity(tx.ended, lines', p) + InRows(cartQty', ToSet(tx.todo), p)
  BY DEF MovedSound, InRows, RowUnits, Quantity, Units
<1>6. Quantity(tx.ended, lines', p) = Quantity(tx.ended, lines, p)
  BY <1>1, <1>2, QuantityOfSameLines
<1>7. tx.pc = "restock" => Quantity({tx.order}, lines', p) = Quantity({tx.order}, lines, p)
  BY <1>3, QuantityOfSameLines
<1>8. tx.pc \in {"take", "commit"} =>
        /\ InRows(cartQty', ToSet(tx.items), p) = InRows(cartQty, ToSet(tx.items), p)
        /\ InRows(cartQty', ToSet(tx.todo), p) = InRows(cartQty, ToSet(tx.todo), p)
  BY <1>4, <1>5, InSameRows
<1> QED
  BY <1>3, <1>6, <1>7, <1>8 DEF MovedSound

LEMMA OneOrderUndisturbed ==
  ASSUME NEW q, NEW tx \in TxState, Undisturbed(q, tx.order), OneOrderSound(q, tx)
  PROVE  OneOrderSound(q, tx)'
<1>1. tx.order \in OrderId /\ {tx.order} \in SUBSET OrderId /\ tx.order \in Row
  BY DEF OneOrderSound, Row
<1>2. status'[tx.order] # "none" /\ lines'[tx.order] = lines[tx.order]
  BY <1>1 DEF OneOrderSound, Undisturbed
<1>3. tx.pc # "lock" =>
        /\ lock'[tx.order] = q /\ status'[tx.order] = status[tx.order]
        /\ tx.order \in overdue => tx.order \in overdue'
  BY <1>1 DEF OneOrderSound, Undisturbed
<1>4. tx.pc # "lock" => Allows(tx.kind, tx.order)'
  BY <1>3 DEF OneOrderSound, Allows, StillExpired
<1>5. ToSet(tx.todo) \subseteq {i \in CartItem : lines'[tx.order][i] > 0}
  BY <1>2 DEF OneOrderSound, LinesOf
<1>6. \A p \in Product :
        /\ Quantity({tx.order}, lines', p) = Quantity({tx.order}, lines, p)
        /\ InRows(lines'[tx.order], ToSet(tx.todo), p) = InRows(lines[tx.order], ToSet(tx.todo), p)
  BY <1>1, <1>2, QuantityOfSameLines
<1>7. \A p \in Product :
        IF tx.pc = "lock" \/ tx.kind = "confirm" THEN tx.moved[p] = 0
        ELSE tx.moved[p] + InRows(lines'[tx.order], ToSet(tx.todo), p)
               = Quantity({tx.order}, lines', p)
  BY <1>6 DEF OneOrderSound
<1>8. (\A p \in Product :
        IF tx.pc = "lock" \/ tx.kind = "confirm" THEN tx.moved[p] = 0
        ELSE tx.moved[p] + InRows(lines[tx.order], ToSet(tx.todo), p)
               = Quantity({tx.order}, lines, p))'
  BY <1>7 DEF InRows, RowUnits, Quantity, Units
<1> QED
  BY <1>2, <1>3, <1>4, <1>5, <1>8 DEF OneOrderSound, LinesOf

\* What a transaction knows stays true while it does nothing.
LEMMA SoundUndisturbed ==
  ASSUME TypeOK, TypeOK', NEW q, NEW tx \in TxState, Undisturbed(q, tx.order), Sound(q, tx)
  PROVE  Sound(q, tx)'
<1>1. \A p \in Product : tx.moved[p] # 0 => lock'[p] = q
  BY DEF Sound, Undisturbed, Row
<1>2. CASE CheckoutSound(q, tx)
  <2>1. tx.pc = "restock" => tx.order \in OrderId /\ status[tx.order] # "none"
    BY <1>2, TxStateTypes, TailDropsOne DEF CheckoutSound, ExpiredSound, StillExpired
  <2>2. RowsSound(q, tx)' /\ ExpiredSound(q, tx)' /\ PlacedSound(q, tx)' /\ MovedSound(tx)'
    BY <1>2, <2>1, RowsUndisturbed, ExpiredUndisturbed, PlacedUndisturbed, MovedUndisturbed
       DEF CheckoutSound
  <2>3. CheckoutSound(q, tx)'
    BY <1>2, <2>2 DEF CheckoutSound
  <2> QED
    BY <1>1, <2>3 DEF Sound
<1>3. CASE OneOrderSound(q, tx)
  BY <1>1, <1>3, OneOrderUndisturbed DEF Sound
<1>4. CASE tx = Idle
  BY <1>1, <1>4 DEF Sound
<1>5. CASE ClearSound(q, tx)
  <2>1. \A i \in ToSet(tx.items) : i \in Row
    BY TxStateTypes DEF Row
  <2>2. ClearSound(q, tx)'
    BY <1>5, <2>1 DEF ClearSound, Undisturbed
  <2> QED
    BY <1>1, <2>2 DEF Sound
<1> QED
  BY <1>2, <1>3, <1>4, <1>5 DEF Sound

\* A transaction that has written to a product's stock keeps it from changing,
\* so that the sum stays what it has checked.
LEMMA SumUndisturbed ==
  ASSUME TypeOK', NEW q, NEW tx \in TxState, Undisturbed(q, tx.order), Sound(q, tx),
         \A p \in Product : stock[p] + tx.moved[p] >= 0
  PROVE  \A p \in Product : stock'[p] + tx.moved[p] >= 0
<1> SUFFICES ASSUME NEW p \in Product
             PROVE  stock'[p] + tx.moved[p] >= 0
  OBVIOUS
<1>1. CASE tx.moved[p] = 0
  BY <1>1 DEF TypeOK
<1>2. CASE tx.moved[p] # 0
  BY <1>2 DEF Sound, Undisturbed
<1> QED
  BY <1>1, <1>2

-----------------------------------------------------------------------------
(***************************************************************************)
(* A step of a transaction before its COMMIT writes nothing that others    *)
(* see, and takes no lock from them.                                       *)
(***************************************************************************)

LEMMA TxInvGives ==
  ASSUME TxInv, NEW t \in Tx
  PROVE  /\ TypeOK /\ lock \in [Row -> Tx \cup {NoTx}] /\ txn \in [Tx -> TxState]
         /\ txn[t] \in TxState
         /\ \A p \in Product : stock[p] + txn[t].moved[p] >= 0
         /\ \A tx \in {txn[t]} : Sound(t, tx)
BY DEF TxInv, TxTypeOK

LEMMA OwnStepInv ==
  ASSUME TxInv, NEW t \in Tx, NEW n \in TxState,
         txn' = [txn EXCEPT ![t] = n], UNCHANGED vars,
         lock' \in [Row -> Tx \cup {NoTx}],
         \A r \in Row, q \in Tx \ {t} : lock[r] = q => lock'[r] = q,
         Sound(t, n)',
         \A p \in Product : stock[p] + n.moved[p] >= 0,
         n.order \in OrderId /\ status[n.order] = "none"
           => \A q \in Tx \ {t} : txn[q].order # n.order
  PROVE  TxInv'
<1>1. /\ stock' = stock /\ status' = status /\ lines' = lines /\ owner' = owner
      /\ cartQty' = cartQty /\ overdue' = overdue /\ shelf' = shelf /\ deleted' = deleted
  BY DEF vars, productVars, cartVars, orderVars
<1>2. TypeOK /\ TypeOK'
  BY TxInvGives DEF TypeOK, vars, productVars, cartVars, orderVars
<1>3. OverdueArePending' /\ OrdersHaveLines'
  BY <1>1 DEF TxInv, OverdueArePending, OrdersHaveLines, LinesOf
<1>4. txn \in [Tx -> TxState] /\ txn'[t] = n /\ \A q \in Tx \ {t} : txn'[q] = txn[q]
  BY TxInvGives
<1>5. txn' \in [Tx -> TxState]
  BY <1>4
<1>6. ASSUME NEW q \in Tx \ {t}
      PROVE  Undisturbed(q, txn[q].order)
  BY <1>1 DEF Undisturbed
<1>7. ASSUME NEW q \in Tx, NEW tx, tx = txn'[q]
      PROVE  Sound(q, tx)'
  <2>1. CASE q = t
    BY <1>4, <1>7, <2>1
  <2>2. CASE q # t
    <3>1. tx = txn[q] /\ tx \in TxState
      BY <1>4, <1>7, <2>2
    <3>2. Sound(q, tx)
      BY <3>1 DEF TxInv
    <3>3. Undisturbed(q, tx.order)
      BY <1>6, <2>2, <3>1
    <3> QED
      BY <1>2, <3>1, <3>2, <3>3, SoundUndisturbed
  <2> QED
    BY <2>1, <2>2
<1>8. \A q \in Tx : \A tx \in {txn'[q]} : Sound(q, tx)'
  BY <1>7
<1>9. \A q \in Tx, p \in Product : stock'[p] + txn'[q].moved[p] >= 0
  BY <1>1, <1>4 DEF TxInv, TxTypeOK
<1>10. FreshApart'
  BY <1>1, <1>4 DEF TxInv, FreshApart
<1> QED
  BY <1>2, <1>3, <1>5, <1>8, <1>9, <1>10 DEF TxInv, TxTypeOK

\* A statement that takes the lock of row r, or has it already.
LEMMA AcquireKeepsOthers ==
  ASSUME TxInv, NEW t \in Tx, NEW r \in Row, Acquire(t, r)
  PROVE  /\ lock' \in [Row -> Tx \cup {NoTx}]
         /\ lock'[r] = t
         /\ \A s \in Row : lock[s] = t => lock'[s] = t
         /\ \A s \in Row, q \in Tx \ {t} : lock[s] = q => lock'[s] = q
BY TxInvGives, TxAssumption DEF Acquire

LEMMA IdleIsSound ==
  /\ Idle \in TxState /\ Idle.order = NoOrder
  /\ \A p \in Product : Idle.moved[p] = 0
  /\ \A t : Sound(t, Idle)'
<1>1. <<>> \in Seq(CartItem) /\ <<>> \in Seq(OrderId)
  BY EmptySeq
<1>2. \A p \in Product : Idle.moved[p] = 0
  BY DEF Idle
<1>3. Idle \in TxState
  BY <1>1 DEF Idle, TxState
<1> QED
  BY <1>2, <1>3 DEF Idle, Sound

\* A ROLLBACK, whatever the reason.
LEMMA RollbackInv ==
  ASSUME TxInv, NEW t \in Tx, Rollback(t)
  PROVE  TxInv'
<1>1. txn' = [txn EXCEPT ![t] = Idle] /\ UNCHANGED vars
  BY DEF Rollback
<1>2. lock' = [r \in Row |-> IF lock[r] = t THEN NoTx ELSE lock[r]]
  BY DEF Rollback, Released
<1>3. /\ lock' \in [Row -> Tx \cup {NoTx}]
      /\ \A r \in Row, q \in Tx \ {t} : lock[r] = q => lock'[r] = q
  BY <1>2, TxInvGives
<1>4. \A p \in Product : stock[p] + Idle.moved[p] >= 0
  BY TxInvGives, IdleIsSound DEF TypeOK
<1>5. Idle \in TxState /\ Sound(t, Idle)' /\ Idle.order \notin OrderId
  BY IdleIsSound, TxAssumption
<1> QED
  BY <1>1, <1>3, <1>4, <1>5, OwnStepInv

\* The statement a transaction is at tells which handler it runs.
LEMMA PcTells ==
  ASSUME TxInv, NEW t \in Tx, NEW tx, tx = txn[t]
  PROVE  /\ tx \in TxState
         /\ tx.pc = "idle" => tx = Idle
         /\ tx.pc \in {"rows", "expired", "restock", "number", "take"} => CheckoutSound(t, tx)
         /\ tx.pc \in {"lock", "move"} => OneOrderSound(t, tx)
         /\ tx.pc = "commit" /\ tx.kind = "checkout" => CheckoutSound(t, tx)
         /\ tx.pc = "commit" /\ tx.kind # "checkout" => OneOrderSound(t, tx)
         /\ tx.pc = "clear" => ClearSound(t, tx)
         /\ \A p \in Product : tx.moved[p] # 0 => lock[p] = t
         /\ \A p \in Product : stock[p] + tx.moved[p] >= 0
<1>1. tx \in TxState /\ Sound(t, tx) /\ \A p \in Product : stock[p] + tx.moved[p] >= 0
  BY TxInvGives
<1>2. Idle.pc = "idle"
  BY DEF Idle
<1>3. CheckoutSound(t, tx) =>
        tx.kind = "checkout"
        /\ tx.pc \in {"rows", "expired", "restock", "number", "take", "commit"}
  BY DEF CheckoutSound, RowsSound
<1>4. OneOrderSound(t, tx) => tx.kind # "checkout" /\ tx.pc \in {"lock", "move", "commit"}
  BY DEF OneOrderSound
<1>5. \A p \in Product : tx.moved[p] # 0 => lock[p] = t
  BY <1>1 DEF Sound
<1>6. tx = Idle \/ CheckoutSound(t, tx) \/ OneOrderSound(t, tx) \/ ClearSound(t, tx)
  BY <1>1 DEF Sound
<1>7. ClearSound(t, tx) => tx.pc = "clear"
  BY DEF ClearSound
<1> QED
  BY <1>1, <1>2, <1>3, <1>4, <1>5, <1>6, <1>7

LEMMA MovedSame ==
  ASSUME UNCHANGED vars, NEW n, MovedSound(n)
  PROVE  MovedSound(n)'
<1>1. lines' = lines /\ cartQty' = cartQty
  BY DEF vars, cartVars, orderVars
<1>2. \A p \in Product :
        /\ n.pc \in {"rows", "expired", "number"} =>
             n.moved[p] = Quantity(n.ended, lines', p)
        /\ n.pc = "restock" =>
             n.moved[p] + InRows(lines'[n.order], ToSet(n.todo), p)
               = Quantity(n.ended, lines', p) + Quantity({n.order}, lines', p)
        /\ n.pc \in {"take", "commit"} =>
             n.moved[p] + InRows(cartQty', ToSet(n.items), p)
               = Quantity(n.ended, lines', p) + InRows(cartQty', ToSet(n.todo), p)
  BY <1>1 DEF MovedSound
<1> QED
  BY <1>2 DEF MovedSound, InRows, RowUnits, Quantity, Units

LEMMA BeginCheckoutInv ==
  ASSUME TxInv, NEW t \in Tx, NEW u \in User, NEW I \in (SUBSET CartItem) \ {{}},
         NEW items \in AnyOrder(I), BeginCheckout(t, u, items)
  PROVE  TxInv'
<1>1. IsFiniteSet(I)
  BY CartItemAssumption, FS_Subset
<1>2. items \in Seq(CartItem) /\ IsInjective(items) /\ ToSet(items) = I
  BY <1>1, OrderReturnsEach, SeqMonotonic
<1>3. PICK todo \in Sorted(ToSet(items)) :
        txn' = [txn EXCEPT ![t] =
          [Idle EXCEPT !.pc = "rows", !.kind = "checkout", !.user = u, !.items = items,
             !.todo = todo,
             !.seen = [p \in Product |-> IF OnSale(p) THEN stock[p] ELSE 0]]]
  BY DEF BeginCheckout
<1>4. todo \in Seq(CartItem) /\ IsInjective(todo) /\ ToSet(todo) = I
  <2>1. todo \in AnyOrder(I)
    BY <1>2, <1>3 DEF Sorted
  <2> QED
    BY <1>1, <2>1, OrderReturnsEach, SeqMonotonic
<1>5. [p \in Product |-> IF OnSale(p) THEN stock[p] ELSE 0] \in [Product -> Nat]
  BY TxInvGives DEF TypeOK
<1>6. PICK n : n = [Idle EXCEPT !.pc = "rows", !.kind = "checkout", !.user = u,
                      !.items = items, !.todo = todo,
                      !.seen = [p \in Product |-> IF OnSale(p) THEN stock[p] ELSE 0]]
  OBVIOUS
<1>7. n \in TxState
  <2>1. Idle \in TxState
    BY IdleIsSound
  <2> QED
    BY <1>2, <1>4, <1>5, <1>6, <2>1 DEF TxState, Kind
<1>8. /\ n.pc = "rows" /\ n.kind = "checkout" /\ n.user = u /\ n.items = items /\ n.todo = todo
      /\ n.order = NoOrder /\ n.expd = <<>> /\ n.ended = {} /\ n.moved = [p \in Product |-> 0]
  BY <1>6 DEF Idle
<1>9. UNCHANGED vars /\ lock' = lock
  BY DEF BeginCheckout
<1>10. RowsSound(t, n)'
  BY <1>2, <1>4, <1>8, NoneInEmpty DEF RowsSound
<1>11. ExpiredSound(t, n)'
  BY <1>8, NoneInEmpty DEF ExpiredSound
<1>12. PlacedSound(t, n)'
  BY <1>8 DEF PlacedSound
<1>13. MovedSound(n)'
  <2>1. MovedSound(n)
    BY <1>8, QuantityOfNone DEF MovedSound
  <2> QED
    BY <1>9, <2>1, MovedSame
<1>14. Sound(t, n)'
  BY <1>8, <1>10, <1>11, <1>12, <1>13 DEF Sound, CheckoutSound
<1>15. \A p \in Product : stock[p] + n.moved[p] >= 0
  BY <1>8, TxInvGives DEF TypeOK
<1>16. n.order \notin OrderId
  BY <1>8, TxAssumption
<1>17. txn' = [txn EXCEPT ![t] = n]
  BY <1>3, <1>6
<1> QED
  BY <1>7, <1>9, <1>14, <1>15, <1>16, <1>17, TxInvGives, OwnStepInv

LEMMA LockCartRowInv ==
  ASSUME TxInv, NEW t \in Tx, LockCartRow(t)
  PROVE  TxInv'
<1>1. CASE Rollback(t)
  BY <1>1, RollbackInv
<1>2. CASE ~Rollback(t)
  <2>1. PICK tx : tx = txn[t]
    OBVIOUS
  <2>2. tx \in TxState /\ tx.pc = "rows" /\ tx.todo # <<>>
    BY <2>1, PcTells DEF LockCartRow
  <2>3. /\ CheckoutSound(t, tx) /\ RowsSound(t, tx) /\ ExpiredSound(t, tx)
        /\ PlacedSound(t, tx) /\ MovedSound(tx)
    BY <2>1, <2>2, PcTells DEF CheckoutSound
  <2>4. PICK i \in CartItem : i = Head(tx.todo)
    BY <2>2, <2>3, TxStateTypes, TailDropsOne DEF RowsSound
  <2>5. /\ OwnRows(tx.user, {i}) /\ Acquire(t, i) /\ UNCHANGED vars
        /\ txn' = [txn EXCEPT ![t].todo = Tail(@)]
    BY <1>2, <2>1, <2>4 DEF LockCartRow
  <2>6. /\ i \in ToSet(tx.todo) /\ Tail(tx.todo) \in Seq(CartItem) /\ IsInjective(Tail(tx.todo))
        /\ ToSet(Tail(tx.todo)) = ToSet(tx.todo) \ {i}
    BY <2>2, <2>3, <2>4, TxStateTypes, TailDropsOne DEF RowsSound
  <2>7. PICK n : n = [tx EXCEPT !.todo = Tail(tx.todo)]
    OBVIOUS
  <2>8. n \in TxState
    BY <2>2, <2>6, <2>7 DEF TxState
  <2>9. /\ n.pc = "rows" /\ n.kind = tx.kind /\ n.user = tx.user /\ n.items = tx.items
        /\ n.todo = Tail(tx.todo) /\ n.order = tx.order /\ n.expd = tx.expd
        /\ n.ended = tx.ended /\ n.moved = tx.moved
    BY <2>2, <2>7 DEF TxState
  <2>10. i \in Row
    BY DEF Row
  <2>11. /\ lock' \in [Row -> Tx \cup {NoTx}] /\ lock'[i] = t
         /\ \A s \in Row : lock[s] = t => lock'[s] = t
         /\ \A s \in Row, q \in Tx \ {t} : lock[s] = q => lock'[s] = q
    BY <2>5, <2>10, AcquireKeepsOthers
  <2>12. /\ stock' = stock /\ status' = status /\ lines' = lines /\ owner' = owner
         /\ cartQty' = cartQty /\ overdue' = overdue /\ shelf' = shelf /\ deleted' = deleted
    BY <2>5 DEF vars, productVars, cartVars, orderVars
  <2>13. RowsSound(t, n)'
    <3>1. \A j \in ToSet(n.items) :
            n.pc # "rows" \/ j \notin ToSet(n.todo)
              => lock'[j] = t /\ cartQty'[j] > 0 /\ RowOf[j].user = n.user
      <4> TAKE j \in ToSet(n.items)
      <4> HAVE n.pc # "rows" \/ j \notin ToSet(n.todo)
      <4>1. CASE j = i
        BY <2>5, <2>9, <2>11, <2>12, <4>1 DEF OwnRows, Live
      <4>2. CASE j # i
        <5>1. j \in CartItem /\ j \in Row /\ j \notin ToSet(tx.todo)
          BY <2>2, <2>6, <2>9, <4>2, TxStateTypes DEF Row
        <5> QED
          BY <2>3, <2>9, <2>11, <2>12, <5>1 DEF RowsSound, Live
      <4> QED
        BY <4>1, <4>2
    <3> QED
      BY <2>2, <2>3, <2>6, <2>9, <3>1 DEF RowsSound, Live
  <2>14. ExpiredSound(t, n)'
    BY <2>2, <2>3, <2>9, NoneInEmpty DEF ExpiredSound
  <2>15. PlacedSound(t, n)'
    BY <2>2, <2>3, <2>9, <2>12 DEF PlacedSound
  <2>16. MovedSound(n)
    BY <2>2, <2>3, <2>9 DEF MovedSound
  <2>17. MovedSound(n)'
    BY <2>5, <2>16, MovedSame
  <2>18. \A p \in Product : n.moved[p] # 0 => lock'[p] = t
    BY <2>1, <2>9, <2>11, PcTells DEF Row
  <2>19. Sound(t, n)'
    BY <2>3, <2>9, <2>13, <2>14, <2>15, <2>17, <2>18 DEF Sound, CheckoutSound
  <2>20. \A p \in Product : stock[p] + n.moved[p] >= 0
    BY <2>1, <2>9, PcTells
  <2>21. n.order \in OrderId /\ status[n.order] = "none"
           => \A q \in Tx \ {t} : txn[q].order # n.order
    BY <2>1, <2>9 DEF TxInv, FreshApart
  <2>22. txn' = [txn EXCEPT ![t] = n]
    BY <2>1, <2>5, <2>7
  <2> QED
    BY <2>5, <2>8, <2>11, <2>19, <2>20, <2>21, <2>22, OwnStepInv
<1> QED
  BY <1>1, <1>2

LEMMA ListExpiredInv ==
  ASSUME TxInv, NEW t \in Tx, ListExpired(t)
  PROVE  TxInv'
<1>1. PICK tx : tx = txn[t]
  OBVIOUS
<1>2. tx \in TxState /\ tx.pc = "rows" /\ tx.todo = <<>>
  BY <1>1, PcTells DEF ListExpired
<1>3. /\ CheckoutSound(t, tx) /\ RowsSound(t, tx) /\ ExpiredSound(t, tx)
      /\ PlacedSound(t, tx) /\ MovedSound(tx)
  BY <1>1, <1>2, PcTells DEF CheckoutSound
<1> DEFINE E == ExpiredOrders(tx.user, ToSet(tx.items))
<1>4. PICK expd \in Sorted(E) :
        txn' = [txn EXCEPT ![t].pc = "expired", ![t].expd = expd]
  BY <1>1 DEF ListExpired, ItemsOf
<1>5. E \in SUBSET OrderId /\ \A o \in E : ListedBy(tx, o)
  BY TxInvGives DEF ExpiredOrders, ListedBy, TxInv, OverdueArePending, TypeOK
<1>6. expd \in Seq(OrderId) /\ IsInjective(expd) /\ ToSet(expd) = E
  <2>1. expd \in AnyOrder(E) /\ IsFiniteSet(E)
    BY <1>5, OrderIdAssumption, FS_Subset DEF Sorted
  <2> HIDE DEF E
  <2> QED
    BY <1>5, <2>1, OrderReturnsEach, SeqMonotonic
<1> HIDE DEF E
<1>7. PICK n : n = [tx EXCEPT !.pc = "expired", !.expd = expd]
  OBVIOUS
<1>8. n \in TxState
  BY <1>2, <1>6, <1>7 DEF TxState
<1>9. /\ n.pc = "expired" /\ n.kind = tx.kind /\ n.user = tx.user /\ n.items = tx.items
      /\ n.todo = <<>> /\ n.order = tx.order /\ n.expd = expd
      /\ n.ended = {} /\ n.moved = tx.moved
  BY <1>2, <1>3, <1>7 DEF TxState, ExpiredSound
<1>10. UNCHANGED vars /\ lock' = lock
  BY DEF ListExpired
<1>11. /\ stock' = stock /\ status' = status /\ lines' = lines /\ owner' = owner
       /\ cartQty' = cartQty /\ overdue' = overdue
  BY <1>10 DEF vars, productVars, cartVars, orderVars
<1>12. RowsSound(t, n)'
  BY <1>2, <1>3, <1>9, <1>10, <1>11, NoneInEmpty DEF RowsSound, Live
<1>13. ExpiredSound(t, n)'
  BY <1>5, <1>6, <1>9, <1>11 DEF ExpiredSound, ListedBy
<1>14. PlacedSound(t, n)'
  BY <1>2, <1>3, <1>9, <1>11 DEF PlacedSound
<1>15. MovedSound(n)
  BY <1>2, <1>3, <1>9 DEF MovedSound, ExpiredSound
<1>16. MovedSound(n)'
  BY <1>10, <1>15, MovedSame
<1>17. \A p \in Product : n.moved[p] # 0 => lock'[p] = t
  BY <1>1, <1>9, <1>10, PcTells
<1>18. Sound(t, n)'
  BY <1>3, <1>9, <1>12, <1>13, <1>14, <1>16, <1>17 DEF Sound, CheckoutSound
<1>19. \A p \in Product : stock[p] + n.moved[p] >= 0
  BY <1>1, <1>9, PcTells
<1>20. n.order \in OrderId /\ status[n.order] = "none"
         => \A q \in Tx \ {t} : txn[q].order # n.order
  BY <1>1, <1>9 DEF TxInv, FreshApart
<1>21. txn' = [txn EXCEPT ![t] = n]
  BY <1>1, <1>4, <1>7
<1> QED
  BY <1>8, <1>10, <1>18, <1>19, <1>20, <1>21, TxInvGives, OwnStepInv

LEMMA LinesOfOrder ==
  ASSUME TypeOK, NEW o \in OrderId
  PROVE  /\ LinesOf(o) \in SUBSET CartItem /\ IsFiniteSet(LinesOf(o))
         /\ \A i \in CartItem : lines[o][i] \in 0..MaxQty
         /\ \A p : Quantity({o}, lines, p) = InRows(lines[o], LinesOf(o), p)
<1>1. LinesOf(o) \in SUBSET CartItem /\ IsFiniteSet(LinesOf(o))
  BY CartItemAssumption, FS_Subset DEF LinesOf
<1>2. \A i \in CartItem : lines[o][i] \in 0..MaxQty
  BY DEF TypeOK
<1>3. \A i \in CartItem \ LinesOf(o) : lines[o][i] = 0
  BY <1>2, QtyAssumption DEF LinesOf
<1> QED
  BY <1>1, <1>2, <1>3, InRowsOfOrder

LEMMA LockExpiredOrderInv ==
  ASSUME TxInv, NEW t \in Tx, LockExpiredOrder(t)
  PROVE  TxInv'
<1>1. PICK tx : tx = txn[t]
  OBVIOUS
<1>2. tx \in TxState /\ tx.pc = "expired" /\ tx.expd # <<>>
  BY <1>1, PcTells DEF LockExpiredOrder
<1>3. /\ CheckoutSound(t, tx) /\ RowsSound(t, tx) /\ ExpiredSound(t, tx)
      /\ PlacedSound(t, tx) /\ MovedSound(tx)
  BY <1>1, <1>2, PcTells DEF CheckoutSound
<1>4. PICK o \in OrderId : o = Head(tx.expd)
  BY <1>2, <1>3, TxStateTypes, TailDropsOne DEF ExpiredSound
<1>5. /\ o \in ToSet(tx.expd) /\ Tail(tx.expd) \in Seq(OrderId) /\ IsInjective(Tail(tx.expd))
      /\ ToSet(Tail(tx.expd)) = ToSet(tx.expd) \ {o}
  BY <1>2, <1>3, <1>4, TxStateTypes, TailDropsOne DEF ExpiredSound
<1>6. /\ Acquire(t, o) /\ UNCHANGED vars
      /\ IF StillExpired(o)
         THEN \E todo \in AnyOrder(LinesOf(o)) :
                txn' = [txn EXCEPT ![t].pc = "restock", ![t].order = o, ![t].todo = todo]
         ELSE txn' = [txn EXCEPT ![t].expd = Tail(@)]
  BY <1>1, <1>4 DEF LockExpiredOrder
<1>7. o \in Row
  BY DEF Row
<1>8. /\ lock' \in [Row -> Tx \cup {NoTx}] /\ lock'[o] = t
      /\ \A s \in Row : lock[s] = t => lock'[s] = t
      /\ \A s \in Row, q \in Tx \ {t} : lock[s] = q => lock'[s] = q
  BY <1>6, <1>7, AcquireKeepsOthers
<1>9. /\ stock' = stock /\ status' = status /\ lines' = lines /\ owner' = owner
      /\ cartQty' = cartQty /\ overdue' = overdue
  BY <1>6 DEF vars, productVars, cartVars, orderVars
<1>10. \A i \in ToSet(tx.items) : lock'[i] = t /\ cartQty'[i] > 0 /\ RowOf[i].user = tx.user
  <2>1. ToSet(tx.items) \subseteq Row
    BY <1>2, TxStateTypes DEF Row
  <2> QED
    BY <1>2, <1>3, <1>8, <1>9, <2>1 DEF RowsSound, Live
<1>11. \A p \in Product : tx.moved[p] # 0 => lock'[p] = t
  BY <1>1, <1>8, PcTells DEF Row
<1>12. \A e \in tx.ended : ListedBy(tx, e) /\ lock'[e] = t /\ StillExpired(e)
  BY <1>2, <1>3, <1>8, TxStateTypes DEF ExpiredSound, Row
<1>13. \A e \in ToSet(tx.expd) : ListedBy(tx, e) /\ e \notin tx.ended
  BY <1>3 DEF ExpiredSound
<1>14. CASE StillExpired(o)
  <2>1. PICK todo \in AnyOrder(LinesOf(o)) :
          txn' = [txn EXCEPT ![t].pc = "restock", ![t].order = o, ![t].todo = todo]
    BY <1>6, <1>14
  <2>2. todo \in Seq(CartItem) /\ IsInjective(todo) /\ ToSet(todo) = LinesOf(o)
    BY TxInvGives, LinesOfOrder, OrderReturnsEach, SeqMonotonic
  <2>3. todo # <<>>
    <3>1. status[o] # "none"
      BY <1>14 DEF StillExpired
    <3> QED
      BY <2>2, <3>1, NoneInEmpty DEF TxInv, OrdersHaveLines
  <2>4. PICK n : n = [tx EXCEPT !.pc = "restock", !.order = o, !.todo = todo]
    OBVIOUS
  <2>5. n \in TxState
    BY <1>2, <2>2, <2>4 DEF TxState
  <2>6. /\ n.pc = "restock" /\ n.kind = tx.kind /\ n.user = tx.user /\ n.items = tx.items
        /\ n.todo = todo /\ n.order = o /\ n.expd = tx.expd
        /\ n.ended = tx.ended /\ n.moved = tx.moved
    BY <1>2, <2>4 DEF TxState
  <2>7. RowsSound(t, n)'
    BY <1>3, <1>9, <1>10, <2>2, <2>3, <2>6 DEF RowsSound, Live, LinesOf
  <2>8. ExpiredSound(t, n)'
    BY <1>2, <1>3, <1>4, <1>8, <1>9, <1>12, <1>13, <1>14, <2>6
       DEF ExpiredSound, ListedBy, StillExpired
  <2>9. PlacedSound(t, n)'
    BY <2>6 DEF PlacedSound
  <2>10. MovedSound(n)
    BY <1>2, <1>3, <2>2, <2>6, TxInvGives, LinesOfOrder DEF MovedSound
  <2>11. MovedSound(n)'
    BY <1>6, <2>10, MovedSame
  <2>12. Sound(t, n)'
    BY <1>3, <1>11, <2>6, <2>7, <2>8, <2>9, <2>11 DEF Sound, CheckoutSound
  <2>13. \A p \in Product : stock[p] + n.moved[p] >= 0
    BY <1>1, <2>6, PcTells
  <2>14. status[n.order] # "none"
    BY <1>14, <2>6 DEF StillExpired
  <2>15. txn' = [txn EXCEPT ![t] = n]
    BY <1>1, <2>1, <2>4
  <2> QED
    BY <1>6, <1>8, <2>5, <2>12, <2>13, <2>14, <2>15, OwnStepInv
<1>15. CASE ~StillExpired(o)
  <2>1. PICK n : n = [tx EXCEPT !.expd = Tail(tx.expd)]
    OBVIOUS
  <2>2. n \in TxState
    BY <1>2, <1>5, <2>1 DEF TxState
  <2>3. /\ n.pc = "expired" /\ n.kind = tx.kind /\ n.user = tx.user /\ n.items = tx.items
        /\ n.todo = tx.todo /\ n.order = tx.order /\ n.expd = Tail(tx.expd)
        /\ n.ended = tx.ended /\ n.moved = tx.moved
    BY <1>2, <2>1 DEF TxState
  <2>4. RowsSound(t, n)'
    BY <1>2, <1>3, <1>9, <1>10, <2>3 DEF RowsSound, Live
  <2>5. ExpiredSound(t, n)'
    BY <1>2, <1>3, <1>5, <1>9, <1>12, <1>13, <2>3 DEF ExpiredSound, ListedBy, StillExpired
  <2>6. PlacedSound(t, n)'
    BY <1>2, <1>3, <1>9, <2>3 DEF PlacedSound
  <2>7. MovedSound(n)
    BY <1>2, <1>3, <2>3 DEF MovedSound
  <2>8. MovedSound(n)'
    BY <1>6, <2>7, MovedSame
  <2>9. Sound(t, n)'
    BY <1>3, <1>11, <2>3, <2>4, <2>5, <2>6, <2>8 DEF Sound, CheckoutSound
  <2>10. \A p \in Product : stock[p] + n.moved[p] >= 0
    BY <1>1, <2>3, PcTells
  <2>11. n.order \in OrderId /\ status[n.order] = "none"
           => \A q \in Tx \ {t} : txn[q].order # n.order
    BY <1>1, <2>3 DEF TxInv, FreshApart
  <2>12. txn' = [txn EXCEPT ![t] = n]
    BY <1>1, <1>6, <1>15, <2>1
  <2> QED
    BY <1>6, <1>8, <2>2, <2>9, <2>10, <2>11, <2>12, OwnStepInv
<1> QED
  BY <1>14, <1>15

\* The first line is done: its quantity is no longer to come.
LEMMA OneRowDone ==
  ASSUME NEW s \in Seq(CartItem), s # <<>>, IsInjective(s), NEW f,
         \A i \in CartItem : f[i] \in 0..MaxQty, NEW p
  PROVE  /\ InRows(f, ToSet(s), p) \in Nat /\ InRows(f, ToSet(Tail(s)), p) \in Nat
         /\ p # ProductOf(Head(s)) => InRows(f, ToSet(s), p) = InRows(f, ToSet(Tail(s)), p)
         /\ p = ProductOf(Head(s)) =>
              InRows(f, ToSet(s), p) = InRows(f, ToSet(Tail(s)), p) + f[Head(s)]
<1>1. /\ Head(s) \in ToSet(s) /\ Head(s) \in CartItem /\ Tail(s) \in Seq(CartItem)
      /\ ToSet(Tail(s)) = ToSet(s) \ {Head(s)}
  BY TailDropsOne
<1>2. ToSet(s) \in SUBSET CartItem /\ ToSet(Tail(s)) \in SUBSET CartItem
  BY <1>1, SomeInSequence
<1>3. InRows(f, ToSet(s), p) \in Nat /\ InRows(f, ToSet(Tail(s)), p) \in Nat
  BY <1>2, InRowsFinite
<1>4. /\ p # ProductOf(Head(s)) => InRows(f, ToSet(s) \ {Head(s)}, p) = InRows(f, ToSet(s), p)
      /\ p = ProductOf(Head(s)) =>
           InRows(f, ToSet(s), p) = InRows(f, ToSet(s) \ {Head(s)}, p) + f[Head(s)]
  <2>1. PICK I \in SUBSET CartItem : I = ToSet(s)
    BY <1>2
  <2>2. PICK i \in I : i = Head(s)
    BY <1>1, <2>1
  <2>3. f[i] \in 0..MaxQty
    OBVIOUS
  <2>4. InRows(f, I, p) \in Nat /\ InRows(f, I \ {i}, p) \in Nat /\ f[i] \in Nat
    <3>1. I \ {i} \in SUBSET CartItem
      OBVIOUS
    <3> QED
      BY <2>3, <3>1, InRowsFinite, QtyAssumption
  <2>5. /\ p # ProductOf(i) => InRows(f, I \ {i}, p) = InRows(f, I, p)
        /\ p = ProductOf(i) => InRows(f, I, p) = InRows(f, I \ {i}, p) + f[i]
    BY <2>3, <2>4, InRowsWithout
  <2> QED
    BY <2>1, <2>2, <2>5
<1>5. /\ p # ProductOf(Head(s)) => InRows(f, ToSet(Tail(s)), p) = InRows(f, ToSet(s), p)
      /\ p = ProductOf(Head(s)) =>
           InRows(f, ToSet(s), p) = InRows(f, ToSet(Tail(s)), p) + f[Head(s)]
  BY <1>1, <1>4
<1> QED
  BY <1>3, <1>5

LEMMA RestockExpiredInv ==
  ASSUME TxInv, NEW t \in Tx, RestockExpired(t)
  PROVE  TxInv'
<1>1. PICK tx : tx = txn[t]
  OBVIOUS
<1>2. tx \in TxState /\ tx.pc = "restock"
  BY <1>1, PcTells DEF RestockExpired
<1>3. /\ CheckoutSound(t, tx) /\ RowsSound(t, tx) /\ ExpiredSound(t, tx)
      /\ PlacedSound(t, tx) /\ MovedSound(tx)
  BY <1>1, <1>2, PcTells DEF CheckoutSound
<1>4. tx.todo # <<>> /\ tx.todo \in Seq(CartItem) /\ IsInjective(tx.todo)
  BY <1>2, <1>3, TxStateTypes DEF RowsSound
<1>5. PICK i \in CartItem : i = Head(tx.todo)
  BY <1>4, TailDropsOne
<1>6. PICK p \in Product : p = ProductOf(i)
  BY RowAssumption DEF ProductOf
<1>7. /\ i \in ToSet(tx.todo) /\ Tail(tx.todo) \in Seq(CartItem) /\ IsInjective(Tail(tx.todo))
      /\ ToSet(Tail(tx.todo)) = ToSet(tx.todo) \ {i}
      /\ Len(tx.todo) = 1 <=> Tail(tx.todo) = <<>>
  BY <1>4, <1>5, TailDropsOne
<1>8. tx.expd # <<>> /\ tx.expd \in Seq(OrderId) /\ IsInjective(tx.expd)
  BY <1>2, <1>3, TxStateTypes DEF ExpiredSound
<1>9. PICK o \in OrderId : o = tx.order /\ o = Head(tx.expd)
  BY <1>2, <1>3, <1>8, TailDropsOne DEF ExpiredSound
<1>10. /\ o \in ToSet(tx.expd) /\ Tail(tx.expd) \in Seq(OrderId) /\ IsInjective(Tail(tx.expd))
       /\ ToSet(Tail(tx.expd)) = ToSet(tx.expd) \ {o}
  BY <1>8, <1>9, TailDropsOne
<1>11. lock[o] = t /\ StillExpired(o) /\ ListedBy(tx, o) /\ o \notin tx.ended
  BY <1>2, <1>3, <1>9, <1>10 DEF ExpiredSound
<1> DEFINE last == Len(tx.todo) = 1
<1>12. Acquire(t, p) /\ UNCHANGED vars
  BY <1>1, <1>5, <1>6 DEF RestockExpired
<1>13. txn' = [txn EXCEPT
              ![t].moved[p] = @ + lines[o][i],
              ![t].todo = Tail(@),
              ![t].pc = IF last THEN "expired" ELSE "restock",
              ![t].ended = IF last THEN @ \cup {o} ELSE @,
              ![t].expd = IF last THEN Tail(@) ELSE @]
  BY <1>1, <1>5, <1>6, <1>9 DEF RestockExpired, NextLine
<1>14. lines[o][i] \in Nat
  <2>1. lines[o][i] \in 0..MaxQty
    BY TxInvGives, LinesOfOrder
  <2> QED
    BY <2>1, QtyAssumption
<1>15. PICK pc, moved, todo, ended, expd :
         /\ pc = (IF last THEN "expired" ELSE "restock")
         /\ moved = [tx.moved EXCEPT ![p] = tx.moved[p] + lines[o][i]]
         /\ todo = Tail(tx.todo)
         /\ ended = (IF last THEN tx.ended \cup {o} ELSE tx.ended)
         /\ expd = (IF last THEN Tail(tx.expd) ELSE tx.expd)
  OBVIOUS
<1>16. PICK n : n = [tx EXCEPT !.moved = moved, !.todo = todo, !.pc = pc, !.ended = ended,
                               !.expd = expd]
  OBVIOUS
<1>17. /\ n.pc = (IF last THEN "expired" ELSE "restock")
       /\ n.kind = tx.kind /\ n.user = tx.user /\ n.items = tx.items /\ n.order = o
       /\ n.todo = Tail(tx.todo) /\ n.expd = (IF last THEN Tail(tx.expd) ELSE tx.expd)
       /\ n.ended = (IF last THEN tx.ended \cup {o} ELSE tx.ended)
       /\ n.moved = [tx.moved EXCEPT ![p] = tx.moved[p] + lines[o][i]]
  <2> HIDE DEF last
  <2> QED
    BY <1>2, <1>9, <1>15, <1>16 DEF TxState
<1>18. n \in TxState /\ txn' = [txn EXCEPT ![t] = n]
  <2>1. moved \in [Product -> Int]
    <3>1. tx.moved \in [Product -> Int] /\ tx.moved[p] + lines[o][i] \in Int
      BY <1>2, <1>14, TxStateTypes
    <3> QED
      BY <1>15, <3>1
  <2>2. /\ pc \in {"expired", "restock"} /\ todo \in Seq(CartItem)
        /\ ended \in SUBSET OrderId /\ expd \in Seq(OrderId)
    BY <1>2, <1>7, <1>8, <1>10, <1>15, TxStateTypes
  <2>3. n \in TxState
    BY <1>2, <1>16, <2>1, <2>2 DEF TxState
  <2>4. txn' = [txn EXCEPT ![t].moved = moved, ![t].todo = todo, ![t].pc = pc,
                           ![t].ended = ended, ![t].expd = expd]
    <3> HIDE DEF last
    <3> QED
      BY <1>1, <1>13, <1>15
  <2>5. txn' = [txn EXCEPT ![t] = n]
    BY <1>1, <1>16, <2>4
  <2> QED
    BY <2>3, <2>5
<1>19. \A r \in Product : n.moved[r] = IF r = p THEN tx.moved[p] + lines[o][i] ELSE tx.moved[r]
  BY <1>2, <1>17, TxStateTypes
<1>20. p \in Row
  BY DEF Row
<1>21. /\ lock' \in [Row -> Tx \cup {NoTx}] /\ lock'[p] = t
       /\ \A s \in Row : lock[s] = t => lock'[s] = t
       /\ \A s \in Row, q \in Tx \ {t} : lock[s] = q => lock'[s] = q
  BY <1>12, <1>20, AcquireKeepsOthers
<1>22. /\ stock' = stock /\ status' = status /\ lines' = lines /\ owner' = owner
       /\ cartQty' = cartQty /\ overdue' = overdue
  BY <1>12 DEF vars, productVars, cartVars, orderVars
<1>23. RowsSound(t, n)'
  <2>1. \A j \in ToSet(tx.items) : lock'[j] = t /\ cartQty'[j] > 0 /\ RowOf[j].user = tx.user
    <3>1. ToSet(tx.items) \subseteq Row
      BY <1>2, TxStateTypes DEF Row
    <3> QED
      BY <1>2, <1>3, <1>21, <1>22, <3>1 DEF RowsSound, Live
  <2>2. ToSet(n.todo) \subseteq IF n.pc = "restock" THEN LinesOf(o) ELSE {}
    BY <1>2, <1>3, <1>7, <1>9, <1>17, NoneInEmpty DEF RowsSound
  <2> QED
    BY <1>2, <1>3, <1>7, <1>17, <1>22, <2>1, <2>2 DEF RowsSound, Live, LinesOf
<1>24. ExpiredSound(t, n)'
  <2>1. \A e \in tx.ended : ListedBy(tx, e) /\ lock'[e] = t /\ StillExpired(e)
    BY <1>2, <1>3, <1>21, TxStateTypes DEF ExpiredSound, Row
  <2>2. lock'[o] = t
    BY <1>11, <1>21 DEF Row
  <2>3. \A e \in ToSet(tx.expd) : ListedBy(tx, e) /\ e \notin tx.ended
    BY <1>3 DEF ExpiredSound
  <2>4. CASE last
    BY <1>10, <1>11, <1>17, <1>22, <2>1, <2>2, <2>3, <2>4 DEF ExpiredSound, ListedBy, StillExpired
  <2>5. CASE ~last
    BY <1>8, <1>9, <1>11, <1>17, <1>22, <2>1, <2>2, <2>3, <2>5
       DEF ExpiredSound, ListedBy, StillExpired
  <2> QED
    BY <2>4, <2>5
<1>25. PlacedSound(t, n)'
  BY <1>11, <1>17, <1>22 DEF PlacedSound, StillExpired
<1>26. MovedSound(n)
  <2>1. ASSUME NEW r \in Product
        PROVE  n.moved[r] + InRows(lines[o], ToSet(n.todo), r)
                 = Quantity(tx.ended, lines, r) + Quantity({o}, lines, r)
    <3>1. tx.moved[r] + InRows(lines[o], ToSet(tx.todo), r)
            = Quantity(tx.ended, lines, r) + Quantity({o}, lines, r)
      BY <1>2, <1>3, <1>9 DEF MovedSound
    <3>2. /\ InRows(lines[o], ToSet(tx.todo), r) \in Nat
          /\ InRows(lines[o], ToSet(Tail(tx.todo)), r) \in Nat
          /\ r # p => InRows(lines[o], ToSet(tx.todo), r) = InRows(lines[o], ToSet(Tail(tx.todo)), r)
          /\ r = p => InRows(lines[o], ToSet(tx.todo), r)
                        = InRows(lines[o], ToSet(Tail(tx.todo)), r) + lines[o][i]
      BY <1>4, <1>5, <1>6, TxInvGives, LinesOfOrder, OneRowDone
    <3>3. tx.moved[r] \in Int
      BY <1>2, TxStateTypes
    <3> QED
      BY <1>14, <1>17, <1>19, <3>1, <3>2, <3>3
  <2>2. ASSUME last, NEW r \in Product
        PROVE  n.moved[r] = Quantity(n.ended, lines, r)
    <3>1. InRows(lines[o], ToSet(n.todo), r) = 0
      <4>1. ToSet(n.todo) = {}
        BY <1>7, <1>17, <2>2, NoneInEmpty
      <4> QED
        BY <4>1, InNoRows
    <3>2. Quantity(tx.ended \cup {o}, lines, r)
            = Quantity(tx.ended, lines, r) + Quantity({o}, lines, r)
      <4>1. tx.ended \in SUBSET OrderId /\ {o} \in SUBSET OrderId /\ tx.ended \cap {o} = {}
        BY <1>2, <1>11, TxStateTypes
      <4> QED
        BY <4>1, QuantityOfUnion
    <3>3. n.moved[r] \in Int
      BY <1>18, TxStateTypes
    <3> QED
      BY <1>17, <2>1, <2>2, <3>1, <3>2, <3>3
  <2> QED
    BY <1>17, <2>1, <2>2 DEF MovedSound
<1>27. MovedSound(n)'
  BY <1>12, <1>26, MovedSame
<1>28. \A r \in Product : n.moved[r] # 0 => lock'[r] = t
  BY <1>1, <1>19, <1>21, PcTells DEF Row
<1>29. Sound(t, n)'
  BY <1>3, <1>17, <1>23, <1>24, <1>25, <1>27, <1>28 DEF Sound, CheckoutSound
<1>30. \A r \in Product : stock[r] + n.moved[r] >= 0
  <2> TAKE r \in Product
  <2>1. stock[r] + tx.moved[r] >= 0 /\ stock[r] \in Nat /\ tx.moved[r] \in Int
    BY <1>1, <1>2, PcTells, TxInvGives, TxStateTypes DEF TypeOK
  <2> QED
    BY <1>14, <1>19, <2>1
<1>31. status[n.order] # "none"
  BY <1>11, <1>17 DEF StillExpired
<1> QED
  BY <1>12, <1>18, <1>21, <1>29, <1>30, <1>31, OwnStepInv

LEMMA CountPendingInv ==
  ASSUME TxInv, NEW t \in Tx, CountPending(t)
  PROVE  TxInv'
<1>1. CASE Rollback(t)
  BY <1>1, RollbackInv
<1>2. CASE ~Rollback(t)
  <2>1. PICK tx : tx = txn[t]
    OBVIOUS
  <2>2. tx \in TxState /\ tx.pc = "expired" /\ tx.expd = <<>>
    BY <2>1, PcTells DEF CountPending
  <2>3. /\ CheckoutSound(t, tx) /\ RowsSound(t, tx) /\ ExpiredSound(t, tx)
        /\ PlacedSound(t, tx) /\ MovedSound(tx)
    BY <2>1, <2>2, PcTells DEF CheckoutSound
  <2>4. /\ NonePending(tx.user, ToSet(tx.items), tx.ended)
        /\ txn' = [txn EXCEPT ![t].pc = "number"] /\ UNCHANGED vars /\ lock' = lock
    BY <1>2, <2>1 DEF CountPending, RowsAreFree, ItemsOf
  <2>5. PICK n : n = [tx EXCEPT !.pc = "number"]
    OBVIOUS
  <2>6. n \in TxState
    BY <2>2, <2>5 DEF TxState
  <2>7. /\ n.pc = "number" /\ n.kind = tx.kind /\ n.user = tx.user /\ n.items = tx.items
        /\ n.todo = tx.todo /\ n.order = tx.order /\ n.expd = tx.expd
        /\ n.ended = tx.ended /\ n.moved = tx.moved
    BY <2>2, <2>5 DEF TxState
  <2>8. /\ stock' = stock /\ status' = status /\ lines' = lines /\ owner' = owner
        /\ cartQty' = cartQty /\ overdue' = overdue
    BY <2>4 DEF vars, productVars, cartVars, orderVars
  <2>9. RowsSound(t, n)'
    BY <2>2, <2>3, <2>4, <2>7, <2>8 DEF RowsSound, Live
  <2>10. ExpiredSound(t, n)'
    BY <2>2, <2>3, <2>4, <2>7, <2>8 DEF ExpiredSound, ListedBy, StillExpired
  <2>11. PlacedSound(t, n)'
    BY <2>2, <2>3, <2>4, <2>7, <2>8 DEF PlacedSound, NonePending
  <2>12. MovedSound(n)
    BY <2>2, <2>3, <2>7 DEF MovedSound
  <2>13. MovedSound(n)'
    BY <2>4, <2>12, MovedSame
  <2>14. \A p \in Product : n.moved[p] # 0 => lock'[p] = t
    BY <2>1, <2>4, <2>7, PcTells
  <2>15. Sound(t, n)'
    BY <2>3, <2>7, <2>9, <2>10, <2>11, <2>13, <2>14 DEF Sound, CheckoutSound
  <2>16. \A p \in Product : stock[p] + n.moved[p] >= 0
    BY <2>1, <2>7, PcTells
  <2>17. n.order \in OrderId /\ status[n.order] = "none"
           => \A q \in Tx \ {t} : txn[q].order # n.order
    BY <2>1, <2>7 DEF TxInv, FreshApart
  <2>18. txn' = [txn EXCEPT ![t] = n]
    BY <2>1, <2>4, <2>5
  <2> QED
    BY <2>4, <2>6, <2>15, <2>16, <2>17, <2>18, TxInvGives, OwnStepInv
<1> QED
  BY <1>1, <1>2

LEMMA CreateOrderInv ==
  ASSUME TxInv, NEW t \in Tx, CreateOrder(t)
  PROVE  TxInv'
<1>1. CASE Rollback(t)
  BY <1>1, RollbackInv
<1>2. CASE ~Rollback(t)
  <2>1. PICK tx : tx = txn[t]
    OBVIOUS
  <2>2. tx \in TxState /\ tx.pc = "number"
    BY <2>1, PcTells DEF CreateOrder
  <2>3. /\ CheckoutSound(t, tx) /\ RowsSound(t, tx) /\ ExpiredSound(t, tx)
        /\ PlacedSound(t, tx) /\ MovedSound(tx)
    BY <2>1, <2>2, PcTells DEF CheckoutSound
  <2>4. Acquire(t, DateLock) /\ UNCHANGED vars
    BY <1>2 DEF CreateOrder, NumberLock
  <2>5. PICK o \in FreshIds :
          txn' = [txn EXCEPT ![t].pc = "take", ![t].order = o, ![t].todo = txn[t].items]
    BY <1>2 DEF CreateOrder
  <2>6. o \in OrderId /\ status[o] = "none" /\ \A q \in Tx : txn[q].order # o
    BY DEF FreshIds, WithStatus
  <2>7. PICK n : n = [tx EXCEPT !.pc = "take", !.order = o, !.todo = tx.items]
    OBVIOUS
  <2>8. n \in TxState
    BY <2>2, <2>6, <2>7, TxStateTypes DEF TxState
  <2>9. /\ n.pc = "take" /\ n.kind = tx.kind /\ n.user = tx.user /\ n.items = tx.items
        /\ n.todo = tx.items /\ n.order = o /\ n.expd = tx.expd
        /\ n.ended = tx.ended /\ n.moved = tx.moved
    BY <2>2, <2>7 DEF TxState
  <2>10. DateLock \in Row
    BY DEF Row
  <2>11. /\ lock' \in [Row -> Tx \cup {NoTx}]
         /\ \A s \in Row : lock[s] = t => lock'[s] = t
         /\ \A s \in Row, q \in Tx \ {t} : lock[s] = q => lock'[s] = q
    BY <2>4, <2>10, AcquireKeepsOthers
  <2>12. /\ stock' = stock /\ status' = status /\ lines' = lines /\ owner' = owner
         /\ cartQty' = cartQty /\ overdue' = overdue
    BY <2>4 DEF vars, productVars, cartVars, orderVars
  <2>13. RowsSound(t, n)'
    <3>1. ToSet(tx.items) \subseteq Row
      BY <2>2, TxStateTypes DEF Row
    <3> QED
      BY <2>2, <2>3, <2>9, <2>11, <2>12, <3>1 DEF RowsSound, Live
  <2>14. ExpiredSound(t, n)'
    <3>1. tx.ended \subseteq Row
      BY <2>2, TxStateTypes DEF Row
    <3> QED
      BY <2>2, <2>3, <2>9, <2>11, <2>12, <3>1 DEF ExpiredSound, ListedBy, StillExpired
  <2>15. PlacedSound(t, n)'
    BY <2>2, <2>3, <2>6, <2>9, <2>12 DEF PlacedSound, NonePending
  <2>16. MovedSound(n)
    <3>1. ASSUME NEW p \in Product
          PROVE  tx.moved[p] + InRows(cartQty, ToSet(tx.items), p)
                   = Quantity(tx.ended, lines, p) + InRows(cartQty, ToSet(tx.items), p)
      <4>1. tx.moved[p] = Quantity(tx.ended, lines, p)
        BY <2>2, <2>3 DEF MovedSound
      <4> QED
        BY <4>1
    <3> QED
      BY <2>9, <3>1 DEF MovedSound
  <2>17. MovedSound(n)'
    BY <2>4, <2>16, MovedSame
  <2>18. \A p \in Product : n.moved[p] # 0 => lock'[p] = t
    BY <2>1, <2>9, <2>11, PcTells DEF Row
  <2>19. Sound(t, n)'
    BY <2>3, <2>9, <2>13, <2>14, <2>15, <2>17, <2>18 DEF Sound, CheckoutSound
  <2>20. \A p \in Product : stock[p] + n.moved[p] >= 0
    BY <2>1, <2>9, PcTells
  <2>21. \A q \in Tx \ {t} : txn[q].order # n.order
    BY <2>6, <2>9
  <2>22. txn' = [txn EXCEPT ![t] = n]
    BY <2>1, <2>5, <2>7
  <2> QED
    BY <2>4, <2>8, <2>11, <2>19, <2>20, <2>21, <2>22, OwnStepInv
<1> QED
  BY <1>1, <1>2

LEMMA TakeFromStockInv ==
  ASSUME TxInv, NEW t \in Tx, TakeFromStock(t)
  PROVE  TxInv'
<1>1. CASE Rollback(t)
  BY <1>1, RollbackInv
<1>2. CASE ~Rollback(t)
  <2>1. PICK tx : tx = txn[t]
    OBVIOUS
  <2>2. tx \in TxState /\ tx.pc = "take"
    BY <2>1, PcTells DEF TakeFromStock
  <2>3. /\ CheckoutSound(t, tx) /\ RowsSound(t, tx) /\ ExpiredSound(t, tx)
        /\ PlacedSound(t, tx) /\ MovedSound(tx)
    BY <2>1, <2>2, PcTells DEF CheckoutSound
  <2>4. tx.todo # <<>> /\ tx.todo \in Seq(CartItem) /\ IsInjective(tx.todo)
    BY <2>2, <2>3, TxStateTypes DEF RowsSound
  <2>5. PICK i \in CartItem : i = Head(tx.todo)
    BY <2>4, TailDropsOne
  <2>6. PICK p \in Product : p = ProductOf(i)
    BY RowAssumption DEF ProductOf
  <2>7. /\ i \in ToSet(tx.todo) /\ Tail(tx.todo) \in Seq(CartItem) /\ IsInjective(Tail(tx.todo))
        /\ ToSet(Tail(tx.todo)) = ToSet(tx.todo) \ {i}
        /\ Len(tx.todo) = 1 <=> Tail(tx.todo) = <<>>
    BY <2>4, <2>5, TailDropsOne
  <2>8. /\ LockedRowPasses(t, i) /\ Acquire(t, p) /\ UNCHANGED vars
        /\ txn' = [txn EXCEPT ![t].moved[p] = @ - cartQty[i],
                              ![t].todo = Tail(@),
                              ![t].pc = IF Len(tx.todo) = 1 THEN "commit" ELSE "take"]
    BY <1>2, <2>1, <2>5, <2>6 DEF TakeFromStock, NextLine
  <2>9. OnSale(p) /\ cartQty[i] <= stock[p] + tx.moved[p]
    BY <2>1, <2>6, <2>8 DEF LockedRowPasses, CanTake
  <2>10. cartQty[i] \in Nat /\ \A j \in CartItem : cartQty[j] \in 0..MaxQty
    <3>1. \A j \in CartItem : cartQty[j] \in 0..MaxQty
      BY TxInvGives DEF TypeOK
    <3> QED
      BY <3>1, QtyAssumption
  <2>11. PICK pc, moved, todo :
           /\ pc = (IF Len(tx.todo) = 1 THEN "commit" ELSE "take")
           /\ moved = [tx.moved EXCEPT ![p] = tx.moved[p] - cartQty[i]]
           /\ todo = Tail(tx.todo)
    OBVIOUS
  <2>12. PICK n : n = [tx EXCEPT !.moved = moved, !.todo = todo, !.pc = pc]
    OBVIOUS
  <2>13. /\ n.pc = pc /\ n.kind = tx.kind /\ n.user = tx.user /\ n.items = tx.items
         /\ n.todo = Tail(tx.todo) /\ n.order = tx.order /\ n.expd = tx.expd
         /\ n.ended = tx.ended /\ n.moved = moved
    BY <2>2, <2>11, <2>12 DEF TxState
  <2>14. \A r \in Product : moved[r] = IF r = p THEN tx.moved[p] - cartQty[i] ELSE tx.moved[r]
    BY <2>2, <2>11, TxStateTypes
  <2>15. tx.moved \in [Product -> Int] /\ moved \in [Product -> Int]
    <3>1. tx.moved \in [Product -> Int] /\ tx.moved[p] - cartQty[i] \in Int
      BY <2>2, <2>10, TxStateTypes
    <3> QED
      BY <2>11, <3>1
  <2>16. n \in TxState /\ txn' = [txn EXCEPT ![t] = n]
    <3>1. pc \in {"take", "commit"} /\ todo \in Seq(CartItem)
      BY <2>7, <2>11
    <3>2. n \in TxState
      BY <2>2, <2>12, <2>15, <3>1 DEF TxState
    <3>3. txn' = [txn EXCEPT ![t].moved = moved, ![t].todo = todo, ![t].pc = pc]
      BY <2>1, <2>8, <2>11
    <3> QED
      BY <2>1, <2>12, <3>2, <3>3
  <2>17. p \in Row
    BY DEF Row
  <2>18. /\ lock' \in [Row -> Tx \cup {NoTx}] /\ lock'[p] = t
         /\ \A s \in Row : lock[s] = t => lock'[s] = t
         /\ \A s \in Row, q \in Tx \ {t} : lock[s] = q => lock'[s] = q
    BY <2>8, <2>17, AcquireKeepsOthers
  <2>19. /\ stock' = stock /\ status' = status /\ lines' = lines /\ owner' = owner
         /\ cartQty' = cartQty /\ overdue' = overdue /\ shelf' = shelf /\ deleted' = deleted
    BY <2>8 DEF vars, productVars, cartVars, orderVars
  <2>20. n.pc = "commit" <=> n.todo = <<>>
    BY <2>7, <2>11, <2>13
  <2>21. n.pc \in {"take", "commit"}
    BY <2>11, <2>13
  <2>22. RowsSound(t, n)'
    <3>1. ToSet(tx.items) \subseteq Row
      BY <2>2, TxStateTypes DEF Row
    <3> QED
      BY <2>2, <2>3, <2>7, <2>13, <2>18, <2>19, <2>20, <2>21, <3>1 DEF RowsSound, Live
  <2>23. ExpiredSound(t, n)'
    <3>1. tx.ended \subseteq Row
      BY <2>2, TxStateTypes DEF Row
    <3> QED
      BY <2>2, <2>3, <2>13, <2>18, <2>19, <2>21, <3>1 DEF ExpiredSound, ListedBy, StillExpired
  <2>24. PlacedSound(t, n)'
    <3>1. ASSUME NEW j \in ToSet(n.items) \ ToSet(n.todo)
          PROVE  lock'[ProductOf(j)] = t /\ OnSale(ProductOf(j))
      <4>1. j \in CartItem /\ ProductOf(j) \in Row
        BY <2>2, <2>13, TxStateTypes, RowAssumption DEF Row, ProductOf
      <4>2. CASE j = i
        BY <2>6, <2>9, <2>18, <4>2
      <4>3. CASE j # i
        BY <2>2, <2>3, <2>7, <2>13, <2>18, <4>1, <4>3 DEF PlacedSound
      <4> QED
        BY <4>2, <4>3
    <3>2. (\A j \in ToSet(n.items) \ ToSet(n.todo) : OnSale(ProductOf(j)))'
      BY <2>19, <3>1 DEF OnSale
    <3> QED
      BY <2>2, <2>3, <2>13, <2>19, <2>21, <3>1, <3>2 DEF PlacedSound, NonePending
  <2>25. MovedSound(n)
    <3>1. ASSUME NEW r \in Product
          PROVE  moved[r] + InRows(cartQty, ToSet(tx.items), r)
                   = Quantity(tx.ended, lines, r) + InRows(cartQty, ToSet(Tail(tx.todo)), r)
      <4>1. tx.moved[r] + InRows(cartQty, ToSet(tx.items), r)
              = Quantity(tx.ended, lines, r) + InRows(cartQty, ToSet(tx.todo), r)
        BY <2>2, <2>3 DEF MovedSound
      <4>2. /\ InRows(cartQty, ToSet(tx.todo), r) \in Nat
            /\ InRows(cartQty, ToSet(Tail(tx.todo)), r) \in Nat
            /\ r # p => InRows(cartQty, ToSet(tx.todo), r) = InRows(cartQty, ToSet(Tail(tx.todo)), r)
            /\ r = p => InRows(cartQty, ToSet(tx.todo), r)
                          = InRows(cartQty, ToSet(Tail(tx.todo)), r) + cartQty[i]
        BY <2>4, <2>5, <2>6, <2>10, OneRowDone
      <4>3. /\ Quantity(tx.ended, lines, r) \in Nat
            /\ InRows(cartQty, ToSet(tx.items), r) \in Nat
            /\ tx.moved[r] \in Int
        BY <2>2, <2>15, TxStateTypes, UnitsFinite, InRowsFinite
      <4> QED
        BY <2>10, <2>14, <4>1, <4>2, <4>3
    <3> QED
      BY <2>13, <2>21, <3>1 DEF MovedSound
  <2>26. MovedSound(n)'
    BY <2>8, <2>25, MovedSame
  <2>27. \A r \in Product : n.moved[r] # 0 => lock'[r] = t
    BY <2>1, <2>13, <2>14, <2>18, PcTells DEF Row
  <2>28. Sound(t, n)'
    BY <2>3, <2>13, <2>22, <2>23, <2>24, <2>26, <2>27 DEF Sound, CheckoutSound
  <2>29. \A r \in Product : stock[r] + n.moved[r] >= 0
    <3> TAKE r \in Product
    <3>1. stock[r] + tx.moved[r] >= 0 /\ stock[r] \in Nat /\ tx.moved[r] \in Int
      BY <2>1, <2>15, PcTells, TxInvGives DEF TypeOK
    <3> QED
      BY <2>9, <2>10, <2>13, <2>14, <3>1
  <2>30. n.order \in OrderId /\ status[n.order] = "none"
           => \A q \in Tx \ {t} : txn[q].order # n.order
    BY <2>1, <2>13 DEF TxInv, FreshApart
  <2> QED
    BY <2>8, <2>16, <2>18, <2>28, <2>29, <2>30, OwnStepInv
<1> QED
  BY <1>1, <1>2

LEMMA BeginInv ==
  ASSUME TxInv, NEW t \in Tx, NEW kind \in Kind \ {"checkout", "clear"}, NEW o \in OrderId,
         Begin(t, kind, o)
  PROVE  TxInv'
<1>1. /\ txn' = [txn EXCEPT ![t] = [Idle EXCEPT !.pc = "lock", !.kind = kind, !.order = o]]
      /\ UNCHANGED vars /\ lock' = lock /\ status[o] # "none"
  BY DEF Begin
<1>2. PICK n : n = [Idle EXCEPT !.pc = "lock", !.kind = kind, !.order = o]
  OBVIOUS
<1>3. /\ n.pc = "lock" /\ n.kind = kind /\ n.order = o /\ n.todo = <<>>
      /\ n.ended = {} /\ n.moved = [p \in Product |-> 0]
  BY <1>2 DEF Idle
<1>4. n \in TxState
  BY <1>2, IdleIsSound DEF TxState
<1>5. status' = status
  BY <1>1 DEF vars, orderVars
<1>6. OneOrderSound(t, n)'
  BY <1>1, <1>3, <1>5, NoneInEmpty DEF OneOrderSound
<1>7. Sound(t, n)'
  BY <1>3, <1>6 DEF Sound
<1>8. \A p \in Product : stock[p] + n.moved[p] >= 0
  BY <1>3, TxInvGives DEF TypeOK
<1>9. status[n.order] # "none" /\ txn' = [txn EXCEPT ![t] = n]
  BY <1>1, <1>2, <1>3
<1> QED
  BY <1>1, <1>4, <1>7, <1>8, <1>9, TxInvGives, OwnStepInv

LEMMA LockOrderInv ==
  ASSUME TxInv, NEW t \in Tx, LockOrder(t)
  PROVE  TxInv'
<1>1. CASE Rollback(t)
  BY <1>1, RollbackInv
<1>2. CASE ~Rollback(t)
  <2>1. PICK tx : tx = txn[t]
    OBVIOUS
  <2>2. tx \in TxState /\ tx.pc = "lock"
    BY <2>1, PcTells DEF LockOrder
  <2>3. OneOrderSound(t, tx)
    BY <2>1, <2>2, PcTells
  <2>4. PICK o \in OrderId : o = tx.order
    BY <2>3 DEF OneOrderSound
  <2>5. /\ Allows(tx.kind, o) /\ Acquire(t, o) /\ UNCHANGED vars
        /\ IF tx.kind = "confirm"
           THEN txn' = [txn EXCEPT ![t].pc = "commit"]
           ELSE \E todo \in AnyOrder(LinesOf(o)) :
                  txn' = [txn EXCEPT ![t].pc = "move", ![t].todo = todo]
    BY <1>2, <2>1, <2>4 DEF LockOrder
  <2>6. o \in Row
    BY DEF Row
  <2>7. /\ lock' \in [Row -> Tx \cup {NoTx}] /\ lock'[o] = t
        /\ \A s \in Row : lock[s] = t => lock'[s] = t
        /\ \A s \in Row, q \in Tx \ {t} : lock[s] = q => lock'[s] = q
    BY <2>5, <2>6, AcquireKeepsOthers
  <2>8. /\ status' = status /\ lines' = lines /\ overdue' = overdue
    BY <2>5 DEF vars, orderVars
  <2>9. status[o] # "none" /\ \A p \in Product : tx.moved[p] = 0
    BY <2>2, <2>3, <2>4 DEF OneOrderSound
  <2>10. CASE tx.kind = "confirm"
    <3>1. PICK n : n = [tx EXCEPT !.pc = "commit"]
      OBVIOUS
    <3>2. n \in TxState
      BY <2>2, <3>1 DEF TxState
    <3>3. /\ n.pc = "commit" /\ n.kind = "confirm" /\ n.order = o /\ n.todo = tx.todo
          /\ n.ended = tx.ended /\ n.moved = tx.moved
      BY <2>2, <2>4, <2>10, <3>1 DEF TxState
    <3>4. tx.todo = <<>>
      BY <2>2, <2>3 DEF OneOrderSound
    <3>5. OneOrderSound(t, n)'
      BY <2>3, <2>5, <2>7, <2>8, <2>9, <2>10, <3>3, <3>4, NoneInEmpty
         DEF OneOrderSound, Allows, StillExpired, LinesOf
    <3>6. Sound(t, n)'
      BY <2>9, <3>3, <3>5 DEF Sound
    <3>7. \A p \in Product : stock[p] + n.moved[p] >= 0
      BY <2>1, <3>3, PcTells
    <3>8. status[n.order] # "none" /\ txn' = [txn EXCEPT ![t] = n]
      BY <2>1, <2>5, <2>9, <2>10, <3>1, <3>3
    <3> QED
      BY <2>5, <2>7, <3>2, <3>6, <3>7, <3>8, OwnStepInv
  <2>11. CASE tx.kind # "confirm"
    <3>1. PICK todo \in AnyOrder(LinesOf(o)) :
            txn' = [txn EXCEPT ![t].pc = "move", ![t].todo = todo]
      BY <2>5, <2>11
    <3>2. todo \in Seq(CartItem) /\ IsInjective(todo) /\ ToSet(todo) = LinesOf(o)
      BY TxInvGives, LinesOfOrder, OrderReturnsEach, SeqMonotonic
    <3>3. todo # <<>>
      BY <2>9, <3>2, NoneInEmpty DEF TxInv, OrdersHaveLines
    <3>4. PICK n : n = [tx EXCEPT !.pc = "move", !.todo = todo]
      OBVIOUS
    <3>5. n \in TxState
      BY <2>2, <3>2, <3>4 DEF TxState
    <3>6. /\ n.pc = "move" /\ n.kind = tx.kind /\ n.order = o /\ n.todo = todo
          /\ n.ended = tx.ended /\ n.moved = tx.moved
      BY <2>2, <2>4, <3>4 DEF TxState
    <3>7. \A p \in Product :
            n.moved[p] + InRows(lines[o], ToSet(n.todo), p) = Quantity({o}, lines, p)
      <4> TAKE p \in Product
      <4>1. Quantity({o}, lines, p) = InRows(lines[o], ToSet(n.todo), p)
        BY <3>2, <3>6, TxInvGives, LinesOfOrder
      <4>2. Quantity({o}, lines, p) \in Nat
        BY UnitsFinite
      <4> QED
        BY <2>9, <3>6, <4>1, <4>2
    <3>8. (\A p \in Product :
             n.moved[p] + InRows(lines[o], ToSet(n.todo), p) = Quantity({o}, lines, p))'
      BY <2>8, <3>7 DEF InRows, RowUnits, Quantity, Units
    <3>9. OneOrderSound(t, n)'
      BY <2>3, <2>5, <2>7, <2>8, <2>9, <2>11, <3>2, <3>3, <3>6, <3>8
         DEF OneOrderSound, Allows, StillExpired, LinesOf
    <3>10. Sound(t, n)'
      BY <2>9, <3>6, <3>9 DEF Sound
    <3>11. \A p \in Product : stock[p] + n.moved[p] >= 0
      BY <2>1, <3>6, PcTells
    <3>12. status[n.order] # "none" /\ txn' = [txn EXCEPT ![t] = n]
      BY <2>1, <2>9, <3>1, <3>4, <3>6
    <3> QED
      BY <2>5, <2>7, <3>5, <3>10, <3>11, <3>12, OwnStepInv
  <2> QED
    BY <2>10, <2>11
<1> QED
  BY <1>1, <1>2

LEMMA MoveLineInv ==
  ASSUME TxInv, NEW t \in Tx, MoveLine(t)
  PROVE  TxInv'
<1>1. PICK tx : tx = txn[t]
  OBVIOUS
<1>2. tx \in TxState /\ tx.pc = "move"
  BY <1>1, PcTells DEF MoveLine
<1>3. OneOrderSound(t, tx)
  BY <1>1, <1>2, PcTells
<1>4. PICK o \in OrderId : o = tx.order
  BY <1>3 DEF OneOrderSound
<1>5. tx.todo # <<>> /\ tx.todo \in Seq(CartItem) /\ IsInjective(tx.todo)
  BY <1>2, <1>3, TxStateTypes DEF OneOrderSound
<1>6. PICK i \in CartItem : i = Head(tx.todo)
  BY <1>5, TailDropsOne
<1>7. PICK p \in Product : p = ProductOf(i)
  BY RowAssumption DEF ProductOf
<1>8. /\ i \in ToSet(tx.todo) /\ Tail(tx.todo) \in Seq(CartItem) /\ IsInjective(Tail(tx.todo))
      /\ ToSet(Tail(tx.todo)) = ToSet(tx.todo) \ {i}
      /\ Len(tx.todo) = 1 <=> Tail(tx.todo) = <<>>
  BY <1>5, <1>6, TailDropsOne
<1>9. /\ Acquire(t, p) /\ UNCHANGED vars
      /\ txn' = [txn EXCEPT ![t].moved[p] = @ + lines[o][i],
                            ![t].todo = Tail(@),
                            ![t].pc = IF Len(tx.todo) = 1 THEN "commit" ELSE "move"]
  BY <1>1, <1>4, <1>6, <1>7 DEF MoveLine, NextLine
<1>10. lines[o][i] \in Nat /\ \A j \in CartItem : lines[o][j] \in 0..MaxQty
  <2>1. \A j \in CartItem : lines[o][j] \in 0..MaxQty
    BY TxInvGives, LinesOfOrder
  <2> QED
    BY <2>1, QtyAssumption
<1>11. PICK pc, moved, todo :
         /\ pc = (IF Len(tx.todo) = 1 THEN "commit" ELSE "move")
         /\ moved = [tx.moved EXCEPT ![p] = tx.moved[p] + lines[o][i]]
         /\ todo = Tail(tx.todo)
  OBVIOUS
<1>12. PICK n : n = [tx EXCEPT !.moved = moved, !.todo = todo, !.pc = pc]
  OBVIOUS
<1>13. /\ n.pc = pc /\ n.kind = tx.kind /\ n.todo = Tail(tx.todo) /\ n.order = o
       /\ n.ended = tx.ended /\ n.moved = moved
  BY <1>2, <1>4, <1>11, <1>12 DEF TxState
<1>14. \A r \in Product : moved[r] = IF r = p THEN tx.moved[p] + lines[o][i] ELSE tx.moved[r]
  BY <1>2, <1>11, TxStateTypes
<1>15. tx.moved \in [Product -> Int] /\ moved \in [Product -> Int]
  <2>1. tx.moved \in [Product -> Int] /\ tx.moved[p] + lines[o][i] \in Int
    BY <1>2, <1>10, TxStateTypes
  <2> QED
    BY <1>11, <2>1
<1>16. n \in TxState /\ txn' = [txn EXCEPT ![t] = n]
  <2>1. pc \in {"move", "commit"} /\ todo \in Seq(CartItem)
    BY <1>8, <1>11
  <2>2. n \in TxState
    BY <1>2, <1>12, <1>15, <2>1 DEF TxState
  <2>3. txn' = [txn EXCEPT ![t].moved = moved, ![t].todo = todo, ![t].pc = pc]
    BY <1>1, <1>9, <1>11
  <2> QED
    BY <1>1, <1>12, <2>2, <2>3
<1>17. p \in Row /\ o \in Row
  BY DEF Row
<1>18. /\ lock' \in [Row -> Tx \cup {NoTx}] /\ lock'[p] = t
       /\ \A s \in Row : lock[s] = t => lock'[s] = t
       /\ \A s \in Row, q \in Tx \ {t} : lock[s] = q => lock'[s] = q
  BY <1>9, <1>17, AcquireKeepsOthers
<1>19. status' = status /\ lines' = lines /\ overdue' = overdue
  BY <1>9 DEF vars, orderVars
<1>20. tx.kind # "confirm" /\ status[o] # "none" /\ Allows(tx.kind, o) /\ lock'[o] = t
  BY <1>2, <1>3, <1>4, <1>17, <1>18 DEF OneOrderSound
<1>21. \A r \in Product :
         n.moved[r] + InRows(lines[o], ToSet(n.todo), r) = Quantity({o}, lines, r)
  <2> TAKE r \in Product
  <2>1. tx.moved[r] + InRows(lines[o], ToSet(tx.todo), r) = Quantity({o}, lines, r)
    BY <1>2, <1>3, <1>4, <1>20 DEF OneOrderSound
  <2>2. /\ InRows(lines[o], ToSet(tx.todo), r) \in Nat
        /\ InRows(lines[o], ToSet(Tail(tx.todo)), r) \in Nat
        /\ r # p => InRows(lines[o], ToSet(tx.todo), r) = InRows(lines[o], ToSet(Tail(tx.todo)), r)
        /\ r = p => InRows(lines[o], ToSet(tx.todo), r)
                      = InRows(lines[o], ToSet(Tail(tx.todo)), r) + lines[o][i]
    BY <1>5, <1>6, <1>7, <1>10, OneRowDone
  <2>3. tx.moved[r] \in Int
    BY <1>15
  <2> QED
    BY <1>10, <1>13, <1>14, <2>1, <2>2, <2>3
<1>22. (\A r \in Product :
          n.moved[r] + InRows(lines[o], ToSet(n.todo), r) = Quantity({o}, lines, r))'
  BY <1>19, <1>21 DEF InRows, RowUnits, Quantity, Units
<1>23. n.pc \in {"move", "commit"} /\ (n.pc = "move" <=> n.todo # <<>>)
  BY <1>8, <1>11, <1>13
<1>24. OneOrderSound(t, n)'
  <2>1. /\ tx.kind \in Kind \ {"checkout", "clear"} /\ tx.ended = {}
        /\ ToSet(tx.todo) \subseteq LinesOf(o)
    BY <1>3, <1>4 DEF OneOrderSound
  <2>2. Allows(tx.kind, o)'
    BY <1>19, <1>20 DEF Allows, StillExpired
  <2>3. ToSet(n.todo) \subseteq LinesOf(o)'
    BY <1>8, <1>13, <1>19, <2>1 DEF LinesOf
  <2> QED
    BY <1>8, <1>13, <1>19, <1>20, <1>22, <1>23, <2>1, <2>2, <2>3 DEF OneOrderSound
<1>25. \A r \in Product : n.moved[r] # 0 => lock'[r] = t
  BY <1>1, <1>13, <1>14, <1>18, PcTells DEF Row
<1>26. Sound(t, n)'
  BY <1>24, <1>25 DEF Sound
<1>27. \A r \in Product : stock[r] + n.moved[r] >= 0
  <2> TAKE r \in Product
  <2>1. stock[r] + tx.moved[r] >= 0 /\ stock[r] \in Nat /\ tx.moved[r] \in Int
    BY <1>1, <1>15, PcTells, TxInvGives DEF TypeOK
  <2> QED
    BY <1>10, <1>13, <1>14, <2>1
<1>28. status[n.order] # "none"
  BY <1>13, <1>20
<1>29. n.order \in OrderId /\ status[n.order] = "none"
         => \A q \in Tx \ {t} : txn[q].order # n.order
  BY <1>28
<1> QED
  BY <1>9, <1>16, <1>18, <1>26, <1>27, <1>29, OwnStepInv, Zenon

LEMMA BeginClearInv ==
  ASSUME TxInv, NEW t \in Tx, NEW I \in SUBSET CartItem, BeginClear(t, I)
  PROVE  TxInv'
<1>1. PICK todo \in AnyOrder({i \in I : Live(i)}) :
        txn' = [txn EXCEPT ![t] = [Idle EXCEPT !.pc = "clear", !.kind = "clear", !.todo = todo]]
  BY DEF BeginClear
<1>2. UNCHANGED vars /\ lock' = lock
  BY DEF BeginClear
<1>3. todo \in Seq(CartItem)
  <2>1. {i \in I : Live(i)} \in SUBSET CartItem /\ IsFiniteSet({i \in I : Live(i)})
    BY CartItemAssumption, FS_Subset
  <2> QED
    BY <2>1, OrderReturnsEach, SeqMonotonic
<1>4. PICK n : n = [Idle EXCEPT !.pc = "clear", !.kind = "clear", !.todo = todo]
  OBVIOUS
<1>5. /\ n.pc = "clear" /\ n.kind = "clear" /\ n.order = NoOrder /\ n.ended = {}
      /\ n.items = <<>> /\ n.moved = [p \in Product |-> 0]
  BY <1>4 DEF Idle
<1>6. n \in TxState
  BY <1>3, <1>4, IdleIsSound DEF TxState, Kind
<1>7. ClearSound(t, n)'
  BY <1>5, NoneInEmpty DEF ClearSound
<1>8. Sound(t, n)'
  BY <1>5, <1>7 DEF Sound
<1>9. \A p \in Product : stock[p] + n.moved[p] >= 0
  BY <1>5, TxInvGives DEF TypeOK
<1>10. n.order \notin OrderId /\ txn' = [txn EXCEPT ![t] = n]
  BY <1>1, <1>4, <1>5, TxAssumption
<1> QED
  BY <1>2, <1>6, <1>8, <1>9, <1>10, TxInvGives, OwnStepInv

\* One row more at the end of a list.
LEMMA AppendAddsOne ==
  ASSUME NEW S, NEW s \in Seq(S), NEW x \in S
  PROVE  Append(s, x) \in Seq(S) /\ ToSet(Append(s, x)) = ToSet(s) \cup {x}
<1>1. /\ Append(s, x) \in Seq(S) /\ Len(Append(s, x)) = Len(s) + 1
      /\ \A k \in 1..Len(s) : Append(s, x)[k] = s[k]
      /\ Append(s, x)[Len(s) + 1] = x
  BY AppendProperties
<1>2. Len(s) \in Nat /\ DOMAIN s = 1..Len(s) /\ DOMAIN Append(s, x) = 1..(Len(s) + 1)
  BY <1>1, LenProperties
<1>3. ToSet(Append(s, x)) \subseteq ToSet(s) \cup {x}
  BY <1>1, <1>2 DEF ToSet
<1>4. ToSet(s) \cup {x} \subseteq ToSet(Append(s, x))
  <2>1. Len(s) + 1 \in 1..(Len(s) + 1) /\ 1..Len(s) \subseteq 1..(Len(s) + 1)
    BY <1>2
  <2> QED
    BY <1>1, <1>2, <2>1 DEF ToSet
<1> QED
  BY <1>1, <1>3, <1>4

LEMMA DeleteCartRowInv ==
  ASSUME TxInv, NEW t \in Tx, DeleteCartRow(t)
  PROVE  TxInv'
<1>1. PICK tx : tx = txn[t]
  OBVIOUS
<1>2. tx \in TxState /\ tx.pc = "clear" /\ tx.todo # <<>> /\ UNCHANGED vars
  BY <1>1, PcTells DEF DeleteCartRow
<1>3. ClearSound(t, tx) /\ tx.items \in Seq(CartItem) /\ tx.todo \in Seq(CartItem)
  BY <1>1, <1>2, PcTells, TxStateTypes
<1>4. PICK i \in CartItem : i = Head(tx.todo)
  BY <1>2, <1>3, HeadTailProperties
<1>5. i \in Row /\ \A j \in ToSet(tx.items) : j \in Row
  BY <1>2, TxStateTypes DEF Row
<1>6. Tail(tx.todo) \in Seq(CartItem)
  BY <1>2, <1>3, HeadTailProperties
<1>7. \A p \in Product : stock[p] + 0 >= 0
  BY TxInvGives DEF TypeOK
<1>8. CASE Live(i)
  <2>1. /\ Acquire(t, i)
        /\ txn' = [txn EXCEPT ![t].items = Append(@, i), ![t].todo = Tail(@)]
    BY <1>1, <1>4, <1>8 DEF DeleteCartRow
  <2>2. PICK n : n = [tx EXCEPT !.items = Append(tx.items, i), !.todo = Tail(tx.todo)]
    OBVIOUS
  <2>3. /\ n.pc = "clear" /\ n.kind = tx.kind /\ n.order = tx.order /\ n.ended = tx.ended
        /\ n.moved = tx.moved /\ n.items = Append(tx.items, i)
        /\ txn' = [txn EXCEPT ![t] = n]
    BY <1>1, <1>2, <2>1, <2>2 DEF TxState
  <2>4. Append(tx.items, i) \in Seq(CartItem) /\ ToSet(n.items) = ToSet(tx.items) \cup {i}
    BY <1>3, <2>3, AppendAddsOne
  <2>5. n \in TxState
    BY <1>2, <1>6, <2>2, <2>4 DEF TxState
  <2>6. /\ lock' \in [Row -> Tx \cup {NoTx}] /\ lock'[i] = t
        /\ \A r \in Row : lock[r] = t => lock'[r] = t
        /\ \A r \in Row, q \in Tx \ {t} : lock[r] = q => lock'[r] = q
    BY <1>5, <2>1, AcquireKeepsOthers
  <2>7. ClearSound(t, n)'
    BY <1>3, <1>5, <2>3, <2>4, <2>6 DEF ClearSound
  <2>8. Sound(t, n)'
    BY <1>3, <2>3, <2>7 DEF Sound, ClearSound
  <2>9. \A p \in Product : stock[p] + n.moved[p] >= 0
    BY <1>3, <1>7, <2>3 DEF ClearSound
  <2>10. n.order \notin OrderId
    BY <1>3, <2>3, TxAssumption DEF ClearSound
  <2> QED
    BY <1>2, <2>3, <2>5, <2>6, <2>8, <2>9, <2>10, OwnStepInv
<1>9. CASE ~Live(i)
  <2>1. txn' = [txn EXCEPT ![t].todo = Tail(@)] /\ lock' = lock
    BY <1>1, <1>4, <1>9 DEF DeleteCartRow
  <2>2. PICK n : n = [tx EXCEPT !.todo = Tail(tx.todo)]
    OBVIOUS
  <2>3. /\ n.pc = "clear" /\ n.kind = tx.kind /\ n.order = tx.order /\ n.ended = tx.ended
        /\ n.moved = tx.moved /\ n.items = tx.items
        /\ txn' = [txn EXCEPT ![t] = n]
    BY <1>1, <1>2, <2>1, <2>2 DEF TxState
  <2>4. n \in TxState
    BY <1>2, <1>6, <2>2 DEF TxState
  <2>5. ClearSound(t, n)'
    BY <1>3, <2>1, <2>3 DEF ClearSound
  <2>6. Sound(t, n)'
    BY <1>3, <2>3, <2>5 DEF Sound, ClearSound
  <2>7. \A p \in Product : stock[p] + n.moved[p] >= 0
    BY <1>3, <1>7, <2>3 DEF ClearSound
  <2>8. n.order \notin OrderId
    BY <1>3, <2>3, TxAssumption DEF ClearSound
  <2> QED
    BY <1>2, <2>1, <2>3, <2>4, <2>6, <2>7, <2>8, TxInvGives, OwnStepInv
<1> QED
  BY <1>8, <1>9

-----------------------------------------------------------------------------
(***************************************************************************)
(* A COMMIT, and the handlers that are one step, change the committed rows *)
(* as ConcurrentNext does, and disturb no transaction that goes on.        *)
(***************************************************************************)

LEMMA SystemStepInv ==
  ASSUME TxInv, ConcurrentNext,
         txn' \in [Tx -> TxState], lock' \in [Row -> Tx \cup {NoTx}],
         \A q \in Tx : txn'[q] = Idle \/ (txn'[q] = txn[q] /\ Undisturbed(q, txn[q].order)),
         OrdersHaveLines', \A o \in OrderId : status'[o] = "none" => status[o] = "none"
  PROVE  TxInv'
<1>1. TypeOK /\ TypeOK' /\ OverdueArePending'
  BY TypeStep, OverdueStep DEF TxInv, TxTypeOK
<1>2. ASSUME NEW q \in Tx, NEW tx, tx = txn'[q]
      PROVE  Sound(q, tx)' /\ \A p \in Product : stock'[p] + tx.moved[p] >= 0
  <2>1. CASE tx = Idle
    BY <1>1, <2>1, IdleIsSound DEF TypeOK
  <2>2. CASE tx # Idle
    <3>1. tx = txn[q] /\ tx \in TxState /\ Undisturbed(q, tx.order)
      BY <1>2, <2>2, TxInvGives
    <3>2. Sound(q, tx) /\ \A p \in Product : stock[p] + tx.moved[p] >= 0
      BY <3>1, TxInvGives
    <3> QED
      BY <1>1, <3>1, <3>2, SoundUndisturbed, SumUndisturbed
  <2> QED
    BY <2>1, <2>2
<1>3. FreshApart'
  <2> SUFFICES ASSUME NEW t \in Tx, NEW q \in Tx, t # q, txn'[t].order \in OrderId,
                      status'[txn'[t].order] = "none"
               PROVE  txn'[q].order # txn'[t].order
    BY DEF FreshApart
  <2>1. txn'[t] = txn[t] /\ status[txn[t].order] = "none"
    BY IdleIsSound, TxAssumption
  <2>2. CASE txn'[q] = Idle
    BY <2>2, IdleIsSound, TxAssumption
  <2>3. CASE txn'[q] = txn[q]
    BY <2>1, <2>3 DEF TxInv, FreshApart
  <2> QED
    BY <2>2, <2>3
<1>4. \A q \in Tx : \A tx \in {txn'[q]} : Sound(q, tx)'
  BY <1>2
<1>5. \A q \in Tx, p \in Product : stock'[p] + txn'[q].moved[p] >= 0
  BY <1>2
<1> QED
  BY <1>1, <1>3, <1>4, <1>5 DEF TxInv, TxTypeOK

LEMMA ProductHandlerInv ==
  ASSUME TxInv, ProductHandler
  PROVE  ConcurrentNext /\ TxInv'
<1>1. ConcurrentNext
  BY DEF ProductHandler, ConcurrentNext
<1>2. /\ UNCHANGED <<stock, sold, status, owner, lines, overdue>>
      /\ cartQty' = cartQty /\ txn' = txn /\ lock' = lock
  BY NotOrders DEF ProductHandler, ProductStep, UpdateProductStatus, DeleteProduct, RestoreProduct,
       cartVars
<1>3. \A p \in Product : ~Unlocked(p) => shelf'[p] = shelf[p] /\ (p \in deleted' => p \in deleted)
  BY DEF ProductHandler
<1>4. \A q \in Tx : Undisturbed(q, txn[q].order)
  BY <1>2, <1>3, TxAssumption DEF Undisturbed, Unlocked
<1>5. OrdersHaveLines'
  BY <1>2 DEF TxInv, OrdersHaveLines, LinesOf
<1> QED
  BY <1>1, <1>2, <1>4, <1>5, TxInvGives, SystemStepInv DEF TxInv, TxTypeOK

LEMMA CartHandlerInv ==
  ASSUME TxInv, CartHandler
  PROVE  ConcurrentNext /\ TxInv'
<1>1. CartStep /\ ConcurrentNext
  BY DEF CartHandler, CartStep, ConcurrentNext
<1>2. /\ UNCHANGED <<stock, sold, status, owner, lines, overdue>>
      /\ shelf' = shelf /\ deleted' = deleted /\ txn' = txn /\ lock' = lock
  BY <1>1, NotOrders DEF CartHandler, RowStep, AddItemTx, UpdateItemQuantity, DeleteItem,
       RemoveRows, productVars
<1>3. \A i \in CartItem : ~Unlocked(i) => cartQty'[i] = cartQty[i]
  BY DEF CartHandler
<1>4. \A q \in Tx : Undisturbed(q, txn[q].order)
  BY <1>2, <1>3, TxAssumption DEF Undisturbed, Unlocked
<1>5. OrdersHaveLines'
  BY <1>2 DEF TxInv, OrdersHaveLines, LinesOf
<1> QED
  BY <1>1, <1>2, <1>4, <1>5, TxInvGives, SystemStepInv DEF TxInv, TxTypeOK

\* The commit of a transaction that clears is the step of ClearItemsByIDs with
\* the rows it has deleted, none of which another transaction has locked.
LEMMA CommitClearInv ==
  ASSUME TxInv, NEW t \in Tx, CommitClear(t)
  PROVE  TxInv' /\ (ConcurrentNext \/ UNCHANGED vars)
<1>1. PICK tx : tx = txn[t]
  OBVIOUS
<1>2. tx \in TxState /\ ClearSound(t, tx)
  BY <1>1, PcTells DEF CommitClear
<1>3. PICK I \in SUBSET CartItem : I = ToSet(tx.items)
  BY <1>2, TxStateTypes
<1>4. /\ ClearItemsByIDs(I) /\ lock' = Released(t) /\ txn' = [txn EXCEPT ![t] = Idle]
      /\ \A i \in I : lock[i] = t
  BY <1>1, <1>2, <1>3 DEF CommitClear, ItemsOf, ClearSound
<1>5. TypeOK /\ lock \in [Row -> Tx \cup {NoTx}] /\ txn \in [Tx -> TxState]
  BY TxInvGives
<1>6. CASE I = {}
  <2>1. cartQty' = cartQty
    BY <1>4, <1>5, <1>6 DEF ClearItemsByIDs, RemoveRows, TypeOK
  <2>2. UNCHANGED vars
    BY <1>4, <2>1 DEF ClearItemsByIDs, RemoveRows, vars, cartVars
  <2> QED
    BY <1>4, <2>2, RollbackInv DEF Rollback
<1>7. CASE I # {}
  <2>1. ConcurrentNext
    BY <1>4, <1>7 DEF ConcurrentNext, CartStep, ClearStep
  <2>2. /\ stock' = stock /\ shelf' = shelf /\ deleted' = deleted /\ status' = status
        /\ owner' = owner /\ lines' = lines /\ overdue' = overdue
        /\ \A i \in CartItem \ I : cartQty'[i] = cartQty[i]
    BY <1>4 DEF ClearItemsByIDs, RemoveRows, productVars, orderVars
  <2>3. \A r \in Row : lock'[r] = IF lock[r] = t THEN NoTx ELSE lock[r]
    BY <1>4 DEF Released
  <2>4. ASSUME NEW q \in Tx \ {t}
        PROVE  Undisturbed(q, txn[q].order)
    <3>1. \A i \in CartItem : lock[i] = q => i \notin I
      BY <1>4
    <3> QED
      BY <2>2, <2>3, <3>1 DEF Undisturbed
  <2>5. OrdersHaveLines'
    BY <2>2 DEF TxInv, OrdersHaveLines, LinesOf
  <2>6. txn' \in [Tx -> TxState] /\ lock' \in [Row -> Tx \cup {NoTx}]
    BY <1>4, <1>5, IdleIsSound DEF Released
  <2>7. \A q \in Tx : txn'[q] = Idle \/ (txn'[q] = txn[q] /\ Undisturbed(q, txn[q].order))
    BY <1>4, <1>5, <2>4
  <2> QED
    BY <2>1, <2>2, <2>5, <2>6, <2>7, SystemStepInv
<1> QED
  BY <1>6, <1>7

LEMMA TimePassesInv ==
  ASSUME TxInv, TimePasses
  PROVE  ConcurrentNext /\ TxInv'
<1>1. PICK e \in OrderId : Expire(e)
  BY DEF TimePasses
<1>2. ConcurrentNext
  BY <1>1 DEF ConcurrentNext, OrderStep
<1>3. /\ stock' = stock /\ shelf' = shelf /\ deleted' = deleted /\ cartQty' = cartQty
      /\ status' = status /\ owner' = owner /\ lines' = lines /\ overdue \subseteq overdue'
      /\ txn' = txn /\ lock' = lock
  BY <1>1 DEF TimePasses, Expire, productVars, cartVars
<1>4. \A q \in Tx : Undisturbed(q, txn[q].order)
  BY <1>3 DEF Undisturbed
<1>5. OrdersHaveLines'
  BY <1>3 DEF TxInv, OrdersHaveLines, LinesOf
<1> QED
  BY <1>2, <1>3, <1>4, <1>5, TxInvGives, SystemStepInv DEF TxInv, TxTypeOK

\* The commit of a transaction on one order is the whole handler: all lines
\* are done, the order is locked, and its status is still what was checked.
LEMMA CommitOneOrder ==
  ASSUME TxInv, NEW t \in Tx, Commit(t), NEW tx, tx = txn[t], tx.kind # "checkout"
  PROVE  /\ OrderStep
         /\ tx.order \in OrderId /\ lock[tx.order] = t /\ status[tx.order] # "none"
         /\ tx.ended = {}
<1>1. tx \in TxState /\ tx.pc = "commit" /\ OneOrderSound(t, tx)
  BY PcTells DEF Commit
<1>2. PICK o \in OrderId : o = tx.order
  BY <1>1 DEF OneOrderSound
<1>3. /\ lock[o] = t /\ status[o] # "none" /\ Allows(tx.kind, o)
      /\ tx.ended = {} /\ tx.todo = <<>> /\ tx.kind \in {"cancel", "expire", "confirm", "complete"}
  BY <1>1, <1>2 DEF OneOrderSound, Kind
<1>4. TypeOK /\ \A e \in overdue : status[e] = "PENDING"
  BY TxInvGives DEF TxInv, OverdueArePending
<1>5. tx.kind = "confirm" => \A p \in Product : tx.moved[p] = 0
  BY <1>1 DEF OneOrderSound
<1>6. tx.kind # "confirm" => \A p \in Product : tx.moved[p] = Quantity({o}, lines, p)
  <2> SUFFICES ASSUME tx.kind # "confirm", NEW p \in Product
               PROVE  tx.moved[p] = Quantity({o}, lines, p)
    OBVIOUS
  <2>1. tx.moved[p] + InRows(lines[o], ToSet(<<>>), p) = Quantity({o}, lines, p)
    BY <1>1, <1>2, <1>3 DEF OneOrderSound
  <2>2. InRows(lines[o], ToSet(<<>>), p) = 0
    BY NoneInEmpty, InNoRows
  <2>3. tx.moved[p] \in Int
    BY <1>1, TxStateTypes
  <2> QED
    BY <2>1, <2>2, <2>3
<1>7. /\ status' = [r \in OrderId |-> Written(t, r)]
      /\ overdue' = {r \in overdue : Written(t, r) = "PENDING"}
      /\ IF tx.kind = "complete"
         THEN sold' = Plus(sold, tx.moved) /\ UNCHANGED stock
         ELSE stock' = Plus(stock, tx.moved) /\ UNCHANGED sold
      /\ UNCHANGED <<owner, lines, shelf, deleted, cartVars>>
  BY DEF Commit
<1>8. \A r \in OrderId :
        Written(t, r) = IF r # o THEN status[r]
                        ELSE CASE tx.kind \in {"cancel", "expire"} -> "CANCELLED"
                               [] tx.kind = "confirm" -> "CONFIRMED"
                               [] tx.kind = "complete" -> "COMPLETED"
  BY <1>2, <1>3 DEF Written
<1>9. CASE tx.kind \in {"cancel", "expire"}
  <2>1. stock' = [p \in Product |-> stock[p] + Quantity({o}, lines, p)]
    BY <1>6, <1>7, <1>9 DEF Plus
  <2>2. status' = [status EXCEPT ![o] = "CANCELLED"]
    BY <1>4, <1>7, <1>8, <1>9 DEF TypeOK
  <2>3. overdue' = overdue \ {o}
    BY <1>4, <1>7, <1>8, <1>9 DEF TypeOK
  <2>4. CancelAndRestock(o)
    BY <1>7, <1>9, <2>1, <2>2, <2>3 DEF CancelAndRestock
  <2>5. CancelOrder(o) \/ CancelExpiredOrder(o)
    BY <1>3, <1>9, <2>4 DEF CancelOrder, CancelExpiredOrder, Allows, StillExpired
  <2> QED
    BY <1>2, <1>3, <2>5 DEF OrderStep
<1>10. CASE tx.kind = "confirm"
  <2>1. stock' = stock /\ UNCHANGED <<sold, shelf, deleted>>
    BY <1>4, <1>5, <1>7, <1>10 DEF Plus, TypeOK
  <2>2. status' = [status EXCEPT ![o] = "CONFIRMED"]
    BY <1>4, <1>7, <1>8, <1>10 DEF TypeOK
  <2>3. overdue' = overdue \ {o}
    BY <1>4, <1>7, <1>8, <1>10 DEF TypeOK
  <2>4. ConfirmOrder(o)
    BY <1>3, <1>7, <1>10, <2>1, <2>2, <2>3 DEF ConfirmOrder, Allows, productVars
  <2> QED
    BY <1>2, <1>3, <2>4 DEF OrderStep
<1>11. CASE tx.kind = "complete"
  <2>1. sold' = [p \in Product |-> sold[p] + Quantity({o}, lines, p)]
    BY <1>6, <1>7, <1>11 DEF Plus
  <2>2. status' = [status EXCEPT ![o] = "COMPLETED"]
    BY <1>4, <1>7, <1>8, <1>11 DEF TypeOK
  <2>3. status[o] = "CONFIRMED"
    BY <1>3, <1>11 DEF Allows
  <2>4. overdue' = overdue
    BY <1>4, <1>7, <1>8, <2>3 DEF TypeOK
  <2>5. CompleteOrder(o)
    BY <1>7, <1>11, <2>1, <2>2, <2>3, <2>4 DEF CompleteOrder, RecordSale
  <2> QED
    BY <1>2, <1>3, <2>5 DEF OrderStep
<1> QED
  BY <1>3, <1>9, <1>10, <1>11

\* The commit of a checkout is the whole CheckoutTx: the orders it has ended
\* are those that were listed and are still expired, and no more.
LEMMA CommitCheckout ==
  ASSUME TxInv, NEW t \in Tx, Commit(t), NEW tx, tx = txn[t], tx.kind = "checkout"
  PROVE  /\ tx.user \in User /\ ToSet(tx.items) \in (SUBSET CartItem) \ {{}}
         /\ CheckoutTx(tx.user, ToSet(tx.items))
         /\ tx.order \in OrderId /\ status[tx.order] = "none"
         /\ \A e \in tx.ended : lock[e] = t /\ status[e] = "PENDING"
         /\ \A i \in ToSet(tx.items) : lock[i] = t /\ Live(i)
<1>1. tx \in TxState /\ tx.pc = "commit" /\ CheckoutSound(t, tx)
  BY PcTells DEF Commit
<1>2. RowsSound(t, tx) /\ ExpiredSound(t, tx) /\ PlacedSound(t, tx) /\ MovedSound(tx)
  BY <1>1 DEF CheckoutSound
<1>3. PICK o \in OrderId, u \in User, I \in (SUBSET CartItem) \ {{}} :
        o = tx.order /\ u = tx.user /\ I = ToSet(tx.items)
  BY <1>1, <1>2, TxStateTypes, SomeInSequence DEF RowsSound, PlacedSound
<1>4. tx.todo = <<>> /\ ToSet(tx.todo) = {} /\ status[o] = "none"
  BY <1>1, <1>2, <1>3, NoneInEmpty DEF RowsSound, PlacedSound
<1>5. TypeOK /\ \A e \in overdue : status[e] = "PENDING"
  BY TxInvGives DEF TxInv, OverdueArePending
<1>6. \A i \in I : lock[i] = t /\ Live(i) /\ RowOf[i].user = u
  BY <1>1, <1>2, <1>3, <1>4 DEF RowsSound
<1>7. \A e \in tx.ended : /\ lock[e] = t /\ status[e] = "PENDING" /\ e \in overdue
                          /\ owner[e] = u /\ \E i \in I : lines[e][i] > 0
  BY <1>2, <1>3 DEF ExpiredSound, StillExpired, ListedBy
<1>8. NonePending(u, I, tx.ended)
  BY <1>1, <1>2, <1>3 DEF PlacedSound
<1>9. ExpiredOrders(u, I) = tx.ended
  <2>1. tx.ended \subseteq ExpiredOrders(u, I)
    BY <1>7 DEF ExpiredOrders
  <2>2. ASSUME NEW e \in ExpiredOrders(u, I), e \notin tx.ended
        PROVE  FALSE
    <3>1. PICK i \in I : e \in overdue /\ e \in OrderId /\ owner[e] = u /\ lines[e][i] > 0
      BY <1>5 DEF ExpiredOrders, TypeOK
    <3>2. lines[e][i] = 0
      BY <1>5, <1>8, <2>2, <3>1 DEF NonePending
    <3> QED
      BY <3>1, <3>2
  <2> QED
    BY <2>1, <2>2
<1>10. PICK expired \in SUBSET OrderId : expired = tx.ended /\ expired = ExpiredOrders(u, I)
  BY <1>1, <1>9, TxStateTypes
<1>11. /\ status' = [r \in OrderId |-> Written(t, r)]
       /\ overdue' = {r \in overdue : Written(t, r) = "PENDING"}
       /\ stock' = Plus(stock, tx.moved) /\ sold' = sold
       /\ owner' = [owner EXCEPT ![o] = u]
       /\ lines' = [lines EXCEPT ![o] = [i \in CartItem |-> IF i \in I THEN cartQty[i] ELSE 0]]
       /\ UNCHANGED <<shelf, deleted, cartVars>>
  BY <1>3 DEF Commit, ItemsOf
<1>12. o \notin expired
  BY <1>4, <1>7, <1>10
<1>13. \A r \in OrderId : Written(t, r) = IF r = o THEN "PENDING"
                                          ELSE IF r \in expired THEN "CANCELLED"
                                          ELSE status[r]
  BY <1>3, <1>10, <1>12 DEF Written
<1>14. status' = [r \in OrderId |-> IF r = o THEN "PENDING"
                                    ELSE IF r \in expired THEN "CANCELLED"
                                    ELSE status[r]]
  BY <1>11, <1>13
<1>15. overdue' = overdue \ expired
  BY <1>4, <1>5, <1>11, <1>13 DEF TypeOK
<1>16. OwnRows(u, I) /\ \A i \in I : OnSale(ProductOf(i))
  BY <1>1, <1>2, <1>3, <1>4, <1>6 DEF OwnRows, PlacedSound
<1>17. ASSUME NEW p \in Product
       PROVE  /\ stock[p] + tx.moved[p]
                   = stock[p] + Quantity(expired, lines, p) - Quantity({o}, lines', p)
              /\ CanTake(Quantity({o}, lines', p), stock[p] + Quantity(expired, lines, p))
  <2>1. Quantity({o}, lines', p) = InRows(cartQty, I, p)
    <3>1. lines'[o] = [i \in CartItem |-> IF i \in I THEN cartQty[i] ELSE 0]
      BY <1>5, <1>11 DEF TypeOK
    <3>2. Quantity({o}, lines', p) = InRows(lines'[o], I, p)
      <4>1. PICK L : L = lines'
        OBVIOUS
      <4>2. \A i \in CartItem \ I : L[o][i] = 0
        BY <3>1, <4>1
      <4>3. Quantity({o}, L, p) = InRows(L[o], I, p)
        BY <4>2, InRowsOfOrder
      <4> QED
        BY <4>1, <4>3
    <3>3. InRows(lines'[o], I, p) = InRows(cartQty, I, p)
      BY <3>1, InSameRows
    <3> QED
      BY <3>2, <3>3
  <2>2. tx.moved[p] + InRows(cartQty, I, p) = Quantity(expired, lines, p) + InRows(cartQty, {}, p)
    BY <1>1, <1>2, <1>3, <1>4, <1>10 DEF MovedSound
  <2>3. InRows(cartQty, {}, p) = 0
    BY InNoRows
  <2>4. /\ tx.moved[p] \in Int /\ InRows(cartQty, I, p) \in Nat /\ stock[p] \in Nat
        /\ Quantity(expired, lines, p) \in Nat
    BY <1>1, <1>5, TxStateTypes, InRowsFinite, UnitsFinite DEF TypeOK
  <2>5. stock[p] + tx.moved[p] >= 0
    BY PcTells
  <2> QED
    BY <2>1, <2>2, <2>3, <2>4, <2>5 DEF CanTake
<1>18. stock' = [p \in Product |-> stock[p] + Quantity(expired, lines, p) - Quantity({o}, lines', p)]
  BY <1>11, <1>17 DEF Plus
<1>19. CheckoutTx(u, I)
  <2>1. /\ OwnRows(u, I) /\ NonePending(u, I, expired) /\ \A i \in I : OnSale(ProductOf(i))
        /\ overdue' = overdue \ expired
        /\ UNCHANGED <<sold, shelf, deleted, cartVars>>
    BY <1>8, <1>10, <1>11, <1>15, <1>16
  <2>2. \A p \in Product :
          CanTake(Quantity({o}, lines', p), stock[p] + Quantity(expired, lines, p))
    BY <1>17
  <2>3. /\ status[o] = "none"
        /\ lines' = [lines EXCEPT ![o] = [i \in CartItem |-> IF i \in I THEN cartQty[i] ELSE 0]]
        /\ owner' = [owner EXCEPT ![o] = u]
    BY <1>4, <1>11
  <2> QED
    BY ONLY o \in OrderId, <1>10, <1>14, <1>18, <2>1, <2>2, <2>3 DEF CheckoutTx
<1> QED
  BY <1>3, <1>4, <1>6, <1>7, <1>19

LEMMA CommitInv ==
  ASSUME TxInv, NEW t \in Tx, Commit(t)
  PROVE  ConcurrentNext /\ TxInv'
<1>1. PICK tx : tx = txn[t]
  OBVIOUS
<1>2. ConcurrentNext
  BY <1>1, CommitOneOrder, CommitCheckout DEF ConcurrentNext
<1>3. tx \in TxState /\ tx.kind \in Kind \ {"clear"} /\ tx.order \in OrderId /\ tx.ended \in SUBSET OrderId
  <2>1. tx \in TxState /\ tx.pc = "commit"
    BY <1>1, PcTells DEF Commit
  <2>2. tx.kind \in Kind \ {"clear"}
    BY <1>1, <2>1, PcTells DEF OneOrderSound, CheckoutSound, Kind
  <2> QED
    BY <1>1, <2>1, <2>2, TxStateTypes, CommitOneOrder, CommitCheckout
<1>4. /\ \A e \in tx.ended : lock[e] = t /\ status[e] # "none"
      /\ tx.kind # "checkout" => lock[tx.order] = t /\ status[tx.order] # "none"
      /\ tx.kind = "checkout" => status[tx.order] = "none"
  BY <1>1, CommitOneOrder, CommitCheckout
<1>5. TypeOK /\ lock \in [Row -> Tx \cup {NoTx}] /\ txn \in [Tx -> TxState]
  BY TxInvGives
<1>6. /\ status' = [r \in OrderId |-> Written(t, r)]
      /\ overdue' = {r \in overdue : Written(t, r) = "PENDING"}
      /\ stock' = stock \/ stock' = Plus(stock, tx.moved)
      /\ shelf' = shelf /\ deleted' = deleted /\ cartQty' = cartQty
      /\ txn' = [txn EXCEPT ![t] = Idle]
      /\ lock' = [r \in Row |-> IF lock[r] = t THEN NoTx ELSE lock[r]]
  BY <1>1 DEF Commit, Released, cartVars
<1>7. /\ tx.kind # "checkout" => owner' = owner /\ lines' = lines
      /\ tx.kind = "checkout" =>
           /\ owner' = [owner EXCEPT ![tx.order] = tx.user]
           /\ lines' = [lines EXCEPT ![tx.order] =
                [i \in CartItem |-> IF i \in ToSet(tx.items) THEN cartQty[i] ELSE 0]]
  BY <1>1 DEF Commit, ItemsOf
<1>8. /\ \A r \in OrderId : r \notin tx.ended /\ r # tx.order => Written(t, r) = status[r]
      /\ \A r \in tx.ended : Written(t, r) = "CANCELLED"
      /\ tx.order \notin tx.ended =>
           Written(t, tx.order) = CASE tx.kind = "checkout" -> "PENDING"
                                    [] tx.kind \in {"cancel", "expire"} -> "CANCELLED"
                                    [] tx.kind = "confirm" -> "CONFIRMED"
                                    [] tx.kind = "complete" -> "COMPLETED"
  BY <1>1 DEF Written
<1>9. /\ Written(t, tx.order) # "none"
      /\ Written(t, tx.order) = "PENDING" => tx.kind = "checkout"
  BY <1>3, <1>8 DEF Kind
<1>10. ASSUME NEW q \in Tx \ {t}
       PROVE  Undisturbed(q, txn[q].order)
  <2>1. \A r \in Row : lock[r] = q => lock'[r] = q
    BY <1>6
  <2>2. \A p \in Product : lock[p] = q => stock'[p] = stock[p]
    <3> SUFFICES ASSUME NEW p \in Product, lock[p] = q
                 PROVE  stock'[p] = stock[p]
      OBVIOUS
    <3>1. tx.moved[p] = 0
      BY <1>1, PcTells
    <3> QED
      BY <1>5, <1>6, <3>1 DEF Plus, TypeOK
  <2>3. \A o \in OrderId : status[o] # "none" =>
          status'[o] # "none" /\ lines'[o] = lines[o] /\ owner'[o] = owner[o]
    BY <1>4, <1>5, <1>6, <1>7, <1>8, <1>9 DEF TypeOK
  <2>4. \A o \in OrderId : lock[o] = q /\ status[o] # "none" =>
          status'[o] = status[o] /\ (o \in overdue => o \in overdue')
    <3> SUFFICES ASSUME NEW o \in OrderId, lock[o] = q, status[o] # "none"
                 PROVE  status'[o] = status[o] /\ (o \in overdue => o \in overdue')
      OBVIOUS
    <3>1. Written(t, o) = status[o]
      BY <1>4, <1>8
    <3> QED
      BY <1>6, <3>1 DEF TxInv, OverdueArePending
  <2>5. ASSUME NEW o \in OrderId, status'[o] = "PENDING", status[o] # "PENDING",
               NEW i \in CartItem, lock[i] = q
        PROVE  lines'[o][i] = 0
    <3>1. Written(t, o) = "PENDING" /\ o \notin tx.ended
      BY <1>6, <1>8, <2>5
    <3>2. o = tx.order /\ tx.kind = "checkout"
      BY <1>8, <1>9, <2>5, <3>1
    <3>3. i \notin ToSet(tx.items)
      BY <1>1, <2>5, <3>2, CommitCheckout
    <3> QED
      BY <1>3, <1>5, <1>7, <3>2, <3>3 DEF TypeOK
  <2>6. ASSUME NEW fresh \in OrderId, fresh = txn[q].order, status[fresh] = "none"
        PROVE  status'[fresh] = "none"
    <3>1. fresh \notin tx.ended
      BY <1>4, <2>6
    <3>2. fresh # tx.order
      BY <1>1, <1>3, <1>4, <2>6 DEF TxInv, FreshApart
    <3> QED
      BY <1>6, <1>8, <2>6, <3>1, <3>2
  <2> QED
    BY <1>6, <2>1, <2>2, <2>3, <2>4, <2>5, <2>6 DEF Undisturbed
<1>11. OrdersHaveLines'
  <2> SUFFICES ASSUME NEW o \in OrderId, status'[o] # "none"
               PROVE  \E i \in CartItem : lines'[o][i] > 0
    BY DEF OrdersHaveLines, LinesOf
  <2>1. CASE status[o] # "none"
    <3>1. lines'[o] = lines[o]
      BY <1>4, <1>5, <1>7, <2>1 DEF TypeOK
    <3> QED
      BY <2>1, <3>1 DEF TxInv, OrdersHaveLines, LinesOf
  <2>2. CASE status[o] = "none"
    <3>1. o = tx.order
      BY <1>4, <1>6, <1>8, <2>2
    <3>2. tx.kind = "checkout"
      BY <1>4, <2>2, <3>1
    <3>3. PICK i \in CartItem : i \in ToSet(tx.items) /\ cartQty[i] > 0
      BY <1>1, <3>2, CommitCheckout DEF Live
    <3>4. lines'[o][i] = cartQty[i]
      BY <1>5, <1>7, <3>1, <3>2, <3>3 DEF TypeOK
    <3> QED
      BY <3>3, <3>4
  <2> QED
    BY <2>1, <2>2
<1>12. \A o \in OrderId : status'[o] = "none" => status[o] = "none"
  BY <1>6, <1>8, <1>9
<1>13. txn' \in [Tx -> TxState] /\ lock' \in [Row -> Tx \cup {NoTx}]
  BY <1>5, <1>6, IdleIsSound
<1>14. \A q \in Tx : txn'[q] = Idle \/ (txn'[q] = txn[q] /\ Undisturbed(q, txn[q].order))
  <2> TAKE q \in Tx
  <2>1. CASE q = t
    BY <1>5, <1>6, <2>1
  <2>2. CASE q # t
    <3>1. txn'[q] = txn[q]
      BY <1>5, <1>6, <2>2
    <3> QED
      BY <1>10, <2>2, <3>1
  <2> QED
    BY <2>1, <2>2
<1> QED
  BY <1>2, <1>11, <1>12, <1>13, <1>14, SystemStepInv

-----------------------------------------------------------------------------
(***************************************************************************)
(* The theorems.                                                           *)
(***************************************************************************)

LEMMA TxInvInit == TxInit => TxInv
<1> SUFFICES ASSUME TxInit
             PROVE  TxInv
  OBVIOUS
<1>1. Init /\ txn = [t \in Tx |-> Idle] /\ lock = [r \in Row |-> NoTx]
  BY DEF TxInit
<1>2. TypeOK
  BY <1>1, TypeInit
<1>3. TxTypeOK
  BY <1>1, <1>2, IdleIsSound DEF TxTypeOK, TypeOK
<1>4. OverdueArePending /\ OrdersHaveLines
  BY <1>1 DEF Init, OverdueArePending, OrdersHaveLines
<1>5. FreshApart
  BY <1>1, IdleIsSound, TxAssumption DEF FreshApart
<1>6. \A t \in Tx : \A tx \in {txn[t]} : Sound(t, tx)
  BY <1>1, IdleIsSound DEF Sound
<1> QED
  BY <1>3, <1>4, <1>5, <1>6 DEF TxInv

\* Whatever happens next, the invariant holds again, and the committed rows
\* stay as they are or change as some handler changes them.
LEMMA TxInvStep == TxInv /\ [TxNext]_txVars => TxInv' /\ [ConcurrentNext]_vars
<1> SUFFICES ASSUME TxInv, [TxNext]_txVars
             PROVE  TxInv' /\ [ConcurrentNext]_vars
  OBVIOUS
<1>1. ASSUME NEW t \in Tx, Start(t)
      PROVE  TxInv' /\ UNCHANGED vars
  <2>1. CASE \E u \in User, I \in (SUBSET CartItem) \ {{}} :
               \E items \in AnyOrder(I) : BeginCheckout(t, u, items)
    BY <2>1, BeginCheckoutInv DEF BeginCheckout
  <2>2. CASE \E kind \in Started \ {"checkout", "clear"}, o \in OrderId : Begin(t, kind, o)
    BY <2>2, BeginInv, StartedAssumption DEF Begin
  <2>3. CASE \E I \in (SUBSET CartItem) \ {{}} : BeginClear(t, I)
    BY <2>3, BeginClearInv DEF BeginClear
  <2> QED
    BY <1>1, <2>1, <2>2, <2>3 DEF Start
<1>2. ASSUME NEW t \in Tx, Statement(t)
      PROVE  TxInv' /\ (ConcurrentNext \/ UNCHANGED vars)
  <2>1. CASE LockCartRow(t)
    BY <2>1, LockCartRowInv DEF LockCartRow, Rollback
  <2>2. CASE ListExpired(t)
    BY <2>2, ListExpiredInv DEF ListExpired
  <2>3. CASE LockExpiredOrder(t)
    BY <2>3, LockExpiredOrderInv DEF LockExpiredOrder
  <2>4. CASE RestockExpired(t)
    BY <2>4, RestockExpiredInv DEF RestockExpired
  <2>5. CASE CountPending(t)
    BY <2>5, CountPendingInv DEF CountPending, Rollback
  <2>6. CASE CreateOrder(t)
    BY <2>6, CreateOrderInv DEF CreateOrder, Rollback
  <2>7. CASE TakeFromStock(t)
    BY <2>7, TakeFromStockInv DEF TakeFromStock, Rollback
  <2>8. CASE LockOrder(t)
    BY <2>8, LockOrderInv DEF LockOrder, Rollback
  <2>9. CASE MoveLine(t)
    BY <2>9, MoveLineInv DEF MoveLine
  <2>10. CASE Commit(t)
    BY <2>10, CommitInv
  <2>11. CASE DeleteCartRow(t)
    BY <2>11, DeleteCartRowInv DEF DeleteCartRow
  <2>12. CASE CommitClear(t)
    BY <2>12, CommitClearInv
  <2> QED
    BY <1>2, <2>1, <2>2, <2>3, <2>4, <2>5, <2>6, <2>7, <2>8, <2>9, <2>10, <2>11, <2>12
    DEF Statement
<1>3. ASSUME NEW t \in Tx, Fail(t) \/ BreakDeadlock(t)
      PROVE  TxInv' /\ UNCHANGED vars
  BY <1>3, RollbackInv DEF Fail, BreakDeadlock, Rollback
<1>4. CASE ProductHandler \/ CartHandler \/ TimePasses
  BY <1>4, ProductHandlerInv, CartHandlerInv, TimePassesInv
<1>5. CASE UNCHANGED txVars
  <2>1. UNCHANGED vars /\ txn' = txn /\ lock' = lock
    BY <1>5 DEF txVars
  <2>2. /\ stock' = stock /\ sold' = sold /\ shelf' = shelf /\ deleted' = deleted
        /\ cartQty' = cartQty /\ usedItems' = usedItems /\ status' = status
        /\ owner' = owner /\ lines' = lines /\ overdue' = overdue
    BY <2>1 DEF vars, productVars, cartVars, orderVars
  <2>3. TypeOK' /\ OverdueArePending'
    BY <2>1, TypeStep, OverdueStep DEF TxInv, TxTypeOK
  <2>4. OrdersHaveLines' /\ FreshApart'
    BY <2>1, <2>2 DEF TxInv, OrdersHaveLines, FreshApart, LinesOf
  <2>5. TxTypeOK'
    BY <2>1, <2>2, <2>3 DEF TxInv, TxTypeOK
  <2>6. ASSUME NEW q \in Tx, NEW tx, tx = txn'[q]
        PROVE  Sound(q, tx)'
    <3>1. tx = txn[q] /\ Undisturbed(q, tx.order)
      BY <2>1, <2>2, <2>6 DEF Undisturbed
    <3> QED
      BY <2>3, <3>1, TxInvGives, SoundUndisturbed
  <2>7. \A q \in Tx : \A tx \in {txn'[q]} : Sound(q, tx)'
    BY <2>6
  <2> QED
    BY <2>1, <2>3, <2>4, <2>5, <2>7 DEF TxInv
<1> QED
  BY <1>1, <1>2, <1>3, <1>4, <1>5 DEF TxNext

\* The invariant holds in every state of the interleaved transactions: what a
\* transaction has locked is as it was when it was checked, and what it has
\* written so far, with the rows still to come, is what its handler writes.
THEOREM TxInvariance == TxSpec => []TxInv
<1> QED
  BY TxInvInit, TxInvStep, PTL DEF TxSpec

\* Every variable keeps its type, and no transaction, whatever it has written
\* but not committed, leaves a product with a stock below zero.
THEOREM TxTypes == TxSpec => []TxTypeOK
<1>1. TxInv => TxTypeOK
  BY DEF TxInv
<1> QED
  BY <1>1, TxInvariance, PTL

\* A transaction never cancels, confirms or completes an order that another
\* one decided meanwhile: the row it has locked still has the status checked.
THEOREM DecisionsHold == TxSpec => []DecisionStillHolds
<1>1. TxInv => DecisionStillHolds
  <2> SUFFICES ASSUME TxInv, NEW t \in Tx
               PROVE  /\ txn[t].pc \in {"move", "commit"} /\ txn[t].kind # "checkout"
                           => Allows(txn[t].kind, txn[t].order)
                      /\ \A o \in txn[t].ended : status[o] = "PENDING" /\ o \in overdue
    BY DEF DecisionStillHolds
  <2>1. PICK tx : tx = txn[t]
    OBVIOUS
  <2>2. tx = Idle \/ CheckoutSound(t, tx) \/ OneOrderSound(t, tx) \/ ClearSound(t, tx)
    BY <2>1, TxInvGives DEF Sound
  <2>3. CASE tx = Idle
    BY <2>1, <2>3 DEF Idle
  <2>4. CASE CheckoutSound(t, tx)
    BY <2>1, <2>4 DEF CheckoutSound, ExpiredSound, StillExpired
  <2>5. CASE OneOrderSound(t, tx)
    BY <2>1, <2>5 DEF OneOrderSound
  <2>6. CASE ClearSound(t, tx)
    BY <2>1, <2>6 DEF ClearSound
  <2> QED
    BY <2>2, <2>3, <2>4, <2>5, <2>6
<1> QED
  BY <1>1, TxInvariance, PTL

\* Interleaved at READ COMMITTED, with any number of them failing or rolled
\* back at any statement, the transactions do to the committed rows what the
\* handlers do one after the other: TxSpec implements ConcurrentSpec.
THEOREM TransactionsAreSerializable == TxSpec => Serializable
<1>1. TxInit => Init
  BY DEF TxInit
<1> QED
  BY <1>1, TxInvStep, TxInvariance, PTL DEF TxSpec, Serializable, ConcurrentSpec

\* Every step is a handler's, or changes no committed row.
THEOREM EveryCommitIsAStep == TxSpec => CommitsAreSteps
<1> QED
  BY TxInvStep, TxInvariance, PTL DEF TxSpec, CommitsAreSteps

\* So what the handlers keep, the transactions keep: no unit of stock is lost
\* or sold twice, sales are counted once, and no cart row is in two pending
\* orders or in an order of another customer.
COROLLARY TransactionsKeepInvariants ==
  TxSpec => [](StockConserved /\ SoldMatchesCompleted /\ OnePendingPerCartItem /\ OwnLines)
<1>1. IInv => StockConserved /\ SoldMatchesCompleted /\ OnePendingPerCartItem /\ OwnLines
  BY DEF IInv
<1> QED
  BY <1>1, TransactionsAreSerializable, Invariance, PTL DEF Serializable

-----------------------------------------------------------------------------
(***************************************************************************)
(* Deadlocks.  The second invariant: which rows a checkout has locked, and  *)
(* that it has yet to lock the later ones.                                 *)
(***************************************************************************)

Ascending(s) ==
  \A j, k \in DOMAIN s : j < k => CreatedAt[s[j]] < CreatedAt[s[k]]

Locks(t, tx) ==
  /\ tx = Idle \/ tx.pc = "lock" => \A r \in Row : lock[r] # t
  /\ tx.kind = "checkout" =>
       /\ lock[DateLock] = t <=> tx.pc \in {"take", "commit"}
       /\ tx.pc = "rows" =>
            /\ Ascending(tx.todo)
            /\ \A r \in Row : lock[r] = t =>
                 r \in CartItem /\ \A i \in ToSet(tx.todo) : CreatedAt[r] < CreatedAt[i]
       /\ tx.pc = "expired" /\ tx.ended = {} =>
            /\ Ascending(tx.expd)
            /\ \A r \in Row : lock[r] = t =>
                 \/ r \in CartItem
                 \/ r \in OrderId /\ \A o \in ToSet(tx.expd) : CreatedAt[r] < CreatedAt[o]
       /\ tx.pc = "number" /\ tx.ended = {} => \A p \in Product : lock[p] # t

LocksInv == \A t \in Tx : \A tx \in {txn[t]} : Locks(t, tx)

\* What remains of an ascending list is ascending, and later than its head.
LEMMA AscendingTail ==
  ASSUME NEW S, NEW s \in Seq(S), s # <<>>, Ascending(s)
  PROVE  Ascending(Tail(s)) /\ \A x \in ToSet(Tail(s)) : CreatedAt[Head(s)] < CreatedAt[x]
<1>1. Len(s) \in Nat \ {0} /\ DOMAIN s = 1..Len(s)
  BY EmptySeq, LenProperties
<1>2. /\ Tail(s) \in Seq(S) /\ Len(Tail(s)) = Len(s) - 1 /\ Head(s) = s[1]
      /\ \A k \in 1..Len(Tail(s)) : Tail(s)[k] = s[k + 1]
  BY HeadTailProperties
<1>3. DOMAIN Tail(s) = 1..(Len(s) - 1)
  BY <1>2, LenProperties
<1>4. \A k \in 1..(Len(s) - 1) : Tail(s)[k] = s[k + 1] /\ k + 1 \in 1..Len(s) /\ 1 < k + 1
  BY <1>1, <1>2
<1>5. Ascending(Tail(s))
  <2> SUFFICES ASSUME NEW j \in 1..(Len(s) - 1), NEW k \in 1..(Len(s) - 1), j < k
               PROVE  CreatedAt[Tail(s)[j]] < CreatedAt[Tail(s)[k]]
    BY <1>3 DEF Ascending
  <2>1. j + 1 \in 1..Len(s) /\ k + 1 \in 1..Len(s) /\ j + 1 < k + 1
    BY <1>1
  <2> QED
    BY <1>1, <1>4, <2>1 DEF Ascending
<1>6. \A x \in ToSet(Tail(s)) : CreatedAt[Head(s)] < CreatedAt[x]
  <2> SUFFICES ASSUME NEW k \in 1..(Len(s) - 1)
               PROVE  CreatedAt[s[1]] < CreatedAt[Tail(s)[k]]
    BY <1>2, <1>3 DEF ToSet
  <2>1. 1 \in 1..Len(s) /\ k + 1 \in 1..Len(s) /\ 1 < k + 1
    BY <1>1
  <2> QED
    BY <1>1, <1>4, <2>1 DEF Ascending
<1> QED
  BY <1>5, <1>6

LEMMA OwnLocksInv ==
  ASSUME TxInv, LocksInv, NEW t \in Tx, NEW n, txn' = [txn EXCEPT ![t] = n],
         \A r \in Row, q \in Tx \ {t} : lock'[r] = q <=> lock[r] = q,
         Locks(t, n)'
  PROVE  LocksInv'
<1>1. txn \in [Tx -> TxState]
  BY TxInvGives
<1>2. ASSUME NEW q \in Tx, NEW tx, tx = txn'[q]
      PROVE  Locks(q, tx)'
  <2>1. CASE q = t
    BY <1>1, <1>2, <2>1
  <2>2. CASE q # t
    <3>1. tx = txn[q]
      BY <1>1, <1>2, <2>2
    <3>2. Locks(q, tx)
      BY <3>1 DEF LocksInv
    <3>3. \A r \in Row : lock'[r] = q <=> lock[r] = q
      BY <2>2
    <3>4. DateLock \in Row /\ Product \subseteq Row
      BY DEF Row
    <3> QED
      BY <3>2, <3>3, <3>4 DEF Locks
  <2> QED
    BY <2>1, <2>2
<1> QED
  BY <1>2 DEF LocksInv

LEMMA AcquireTakesOne ==
  ASSUME TxInv, NEW t \in Tx, NEW r \in Row, Acquire(t, r)
  PROVE  /\ lock'[r] = t /\ \A s \in Row : s # r => lock'[s] = lock[s]
         /\ \A s \in Row, q \in Tx \ {t} : lock'[s] = q <=> lock[s] = q
BY TxInvGives, TxAssumption DEF Acquire

\* A transaction that is over holds no lock.
LEMMA ReleasedLocks ==
  ASSUME TxInv, LocksInv, NEW t \in Tx, txn' = [txn EXCEPT ![t] = Idle], lock' = Released(t)
  PROVE  LocksInv'
<1>1. \A r \in Row : lock'[r] = IF lock[r] = t THEN NoTx ELSE lock[r]
  BY DEF Released
<1>2. Locks(t, Idle)'
  BY <1>1, TxAssumption DEF Locks, Idle
<1>3. \A r \in Row, q \in Tx \ {t} : lock'[r] = q <=> lock[r] = q
  BY <1>1, TxAssumption
<1> QED
  BY <1>2, <1>3, OwnLocksInv

LEMMA BeginLocks ==
  ASSUME TxInv, LocksInv, NEW t \in Tx, Start(t)
  PROVE  LocksInv'
<1>1. txn[t] = Idle /\ lock' = lock
  <2>1. txn[t].pc = "idle" /\ lock' = lock
    BY DEF Start, BeginCheckout, Begin, BeginClear
  <2>2. PICK tx : tx = txn[t]
    OBVIOUS
  <2> QED
    BY <2>1, <2>2, PcTells
<1>2. \A r \in Row : lock'[r] # t
  BY <1>1 DEF LocksInv, Locks
<1>3. DateLock \in Row
  BY DEF Row
<1>4. ASSUME NEW kind \in Kind \ {"checkout", "clear"}, NEW o, Begin(t, kind, o)
      PROVE  LocksInv'
  <2>1. PICK n : n = [Idle EXCEPT !.pc = "lock", !.kind = kind, !.order = o]
    OBVIOUS
  <2>2. n.kind # "checkout" /\ txn' = [txn EXCEPT ![t] = n]
    BY <1>4, <2>1 DEF Begin, Idle
  <2>3. Locks(t, n)'
    BY <1>2, <2>2 DEF Locks
  <2> QED
    BY <1>1, <2>2, <2>3, OwnLocksInv
<1>5. ASSUME NEW u \in User, NEW items, BeginCheckout(t, u, items)
      PROVE  LocksInv'
  <2>1. PICK todo \in Sorted(ToSet(items)) :
          txn' = [txn EXCEPT ![t] =
            [Idle EXCEPT !.pc = "rows", !.kind = "checkout", !.user = u, !.items = items,
               !.todo = todo,
               !.seen = [p \in Product |-> IF OnSale(p) THEN stock[p] ELSE 0]]]
    BY <1>5 DEF BeginCheckout
  <2>2. PICK n : n = [Idle EXCEPT !.pc = "rows", !.kind = "checkout", !.user = u,
                        !.items = items, !.todo = todo,
                        !.seen = [p \in Product |-> IF OnSale(p) THEN stock[p] ELSE 0]]
    OBVIOUS
  <2>3. n.pc = "rows" /\ n.todo = todo
    BY <2>2 DEF Idle
  <2>4. Ascending(todo)
    BY DEF Sorted, Ascending
  <2>5. Locks(t, n)'
    BY <1>2, <1>3, <2>3, <2>4 DEF Locks, Ascending
  <2> QED
    BY <1>1, <2>1, <2>2, <2>5, OwnLocksInv
<1>6. ASSUME NEW I, BeginClear(t, I)
      PROVE  LocksInv'
  <2>1. PICK todo :
          txn' = [txn EXCEPT ![t] = [Idle EXCEPT !.pc = "clear", !.kind = "clear", !.todo = todo]]
    BY <1>6 DEF BeginClear
  <2>2. PICK n : n = [Idle EXCEPT !.pc = "clear", !.kind = "clear", !.todo = todo]
    OBVIOUS
  <2>3. n.kind # "checkout" /\ txn' = [txn EXCEPT ![t] = n]
    BY <2>1, <2>2 DEF Idle
  <2>4. Locks(t, n)'
    BY <1>2, <2>3 DEF Locks
  <2> QED
    BY <1>1, <2>3, <2>4, OwnLocksInv
<1> QED
  BY <1>4, <1>5, <1>6, StartedAssumption DEF Start

LEMMA RowsLocks ==
  ASSUME TxInv, LocksInv, NEW t \in Tx, LockCartRow(t) \/ ListExpired(t)
  PROVE  LocksInv'
<1>1. PICK tx : tx = txn[t]
  OBVIOUS
<1>2. tx \in TxState /\ tx.pc = "rows" /\ CheckoutSound(t, tx)
  BY <1>1, PcTells DEF LockCartRow, ListExpired
<1>3. tx.kind = "checkout" /\ tx.todo \in Seq(CartItem)
  BY <1>2, TxStateTypes DEF CheckoutSound
<1>4. /\ lock[DateLock] # t /\ Ascending(tx.todo)
      /\ \A r \in Row : lock[r] = t =>
           r \in CartItem /\ \A i \in ToSet(tx.todo) : CreatedAt[r] < CreatedAt[i]
  BY <1>1, <1>2, <1>3 DEF LocksInv, Locks
<1>5. Idle.pc = "idle" /\ DateLock \in Row
  BY DEF Idle, Row
<1>6. CASE Rollback(t)
  BY <1>6, ReleasedLocks DEF Rollback
<1>7. CASE LockCartRow(t) /\ ~Rollback(t)
  <2>1. tx.todo # <<>>
    BY <1>1, <1>7 DEF LockCartRow
  <2>2. PICK i \in CartItem : i = Head(tx.todo)
    BY <1>3, <2>1, HeadTailProperties
  <2>3. Acquire(t, i) /\ txn' = [txn EXCEPT ![t].todo = Tail(@)]
    BY <1>1, <1>7, <2>2 DEF LockCartRow
  <2>4. PICK n : n = [tx EXCEPT !.todo = Tail(tx.todo)]
    OBVIOUS
  <2>5. n.pc = "rows" /\ n.todo = Tail(tx.todo) /\ txn' = [txn EXCEPT ![t] = n]
    BY <1>1, <1>2, <2>3, <2>4 DEF TxState
  <2>6. /\ Ascending(Tail(tx.todo))
        /\ \A j \in ToSet(Tail(tx.todo)) : CreatedAt[i] < CreatedAt[j]
    BY <1>3, <1>4, <2>1, <2>2, AscendingTail
  <2>7. ToSet(Tail(tx.todo)) \subseteq ToSet(tx.todo)
    BY <1>2, <1>3, <2>1, TailDropsOne DEF CheckoutSound, RowsSound
  <2>8. /\ i \in Row /\ i # DateLock
        /\ \A s \in Row : s # i => lock'[s] = lock[s]
        /\ \A s \in Row, q \in Tx \ {t} : lock'[s] = q <=> lock[s] = q
    BY <2>3, AcquireTakesOne, RowsAssumption DEF Row
  <2>9. Locks(t, n)'
    <3>1. lock'[DateLock] # t
      BY <1>4, <1>5, <2>8
    <3>2. \A r \in Row : lock'[r] = t =>
            r \in CartItem /\ \A j \in ToSet(Tail(tx.todo)) : CreatedAt[r] < CreatedAt[j]
      BY <1>4, <2>6, <2>7, <2>8
    <3> QED
      BY <1>5, <2>5, <2>6, <3>1, <3>2 DEF Locks, Ascending
  <2> QED
    BY <2>5, <2>8, <2>9, OwnLocksInv
<1>8. CASE ListExpired(t)
  <2>1. PICK expd \in Sorted(ExpiredOrders(tx.user, ToSet(tx.items))) :
          txn' = [txn EXCEPT ![t].pc = "expired", ![t].expd = expd]
    BY <1>1, <1>8 DEF ListExpired, ItemsOf
  <2>2. PICK n : n = [tx EXCEPT !.pc = "expired", !.expd = expd]
    OBVIOUS
  <2>3. n.pc = "expired" /\ n.expd = expd /\ txn' = [txn EXCEPT ![t] = n]
    BY <1>1, <1>2, <2>1, <2>2 DEF TxState
  <2>4. tx.todo = <<>> /\ lock' = lock
    BY <1>1, <1>8 DEF ListExpired
  <2>5. Ascending(expd)
    BY DEF Sorted, Ascending
  <2>6. Locks(t, n)'
    BY <1>4, <1>5, <2>3, <2>4, <2>5 DEF Locks, Ascending
  <2> QED
    BY <2>3, <2>4, <2>6, OwnLocksInv
<1> QED
  BY <1>6, <1>7, <1>8

LEMMA ExpiredLocks ==
  ASSUME TxInv, LocksInv, NEW t \in Tx, LockExpiredOrder(t) \/ RestockExpired(t) \/ CountPending(t)
  PROVE  LocksInv'
<1>1. PICK tx : tx = txn[t]
  OBVIOUS
<1>2. tx \in TxState /\ tx.pc \in {"expired", "restock"} /\ CheckoutSound(t, tx)
  <2>1. tx.pc \in {"expired", "restock"}
    BY <1>1 DEF LockExpiredOrder, RestockExpired, CountPending
  <2> QED
    BY <1>1, <2>1, PcTells
<1>3. tx.kind = "checkout" /\ tx.expd \in Seq(OrderId)
  BY <1>2, TxStateTypes DEF CheckoutSound
<1>4. /\ lock[DateLock] # t
      /\ tx.pc = "expired" /\ tx.ended = {} =>
           /\ Ascending(tx.expd)
           /\ \A r \in Row : lock[r] = t =>
                \/ r \in CartItem
                \/ r \in OrderId /\ \A o \in ToSet(tx.expd) : CreatedAt[r] < CreatedAt[o]
  BY <1>1, <1>2, <1>3 DEF LocksInv, Locks
<1>5. Idle.pc = "idle" /\ DateLock \in Row
  BY DEF Idle, Row
<1>6. CASE Rollback(t)
  BY <1>6, ReleasedLocks DEF Rollback
<1>7. CASE LockExpiredOrder(t)
  <2>1. tx.pc = "expired" /\ tx.expd # <<>>
    BY <1>1, <1>7 DEF LockExpiredOrder
  <2>2. PICK o \in OrderId : o = Head(tx.expd)
    BY <1>3, <2>1, HeadTailProperties
  <2>3. /\ Acquire(t, o)
        /\ \/ \E todo : txn' = [txn EXCEPT ![t].pc = "restock", ![t].order = o, ![t].todo = todo]
           \/ txn' = [txn EXCEPT ![t].expd = Tail(@)]
    BY <1>1, <1>7, <2>2 DEF LockExpiredOrder
  <2>4. /\ o \in Row /\ o # DateLock
        /\ lock'[o] = t /\ \A s \in Row : s # o => lock'[s] = lock[s]
        /\ \A s \in Row, q \in Tx \ {t} : lock'[s] = q <=> lock[s] = q
    BY <2>3, AcquireTakesOne, RowsAssumption DEF Row
  <2>5. lock'[DateLock] # t
    BY <1>4, <1>5, <2>4
  <2>6. ASSUME NEW todo, txn' = [txn EXCEPT ![t].pc = "restock", ![t].order = o, ![t].todo = todo]
        PROVE  LocksInv'
    <3>1. PICK n : n = [tx EXCEPT !.pc = "restock", !.order = o, !.todo = todo]
      OBVIOUS
    <3>2. n.pc = "restock" /\ txn' = [txn EXCEPT ![t] = n]
      BY <1>1, <1>2, <2>6, <3>1 DEF TxState
    <3>3. Locks(t, n)'
      BY <1>5, <2>5, <3>2 DEF Locks
    <3> QED
      BY <2>4, <3>2, <3>3, OwnLocksInv
  <2>7. ASSUME txn' = [txn EXCEPT ![t].expd = Tail(@)]
        PROVE  LocksInv'
    <3>1. PICK n : n = [tx EXCEPT !.expd = Tail(tx.expd)]
      OBVIOUS
    <3>2. /\ n.pc = "expired" /\ n.expd = Tail(tx.expd) /\ n.ended = tx.ended
          /\ txn' = [txn EXCEPT ![t] = n]
      BY <1>1, <1>2, <2>1, <2>7, <3>1 DEF TxState
    <3>3. Ascending(tx.expd) =>
            /\ Ascending(Tail(tx.expd))
            /\ \A e \in ToSet(Tail(tx.expd)) : CreatedAt[o] < CreatedAt[e]
      BY <1>3, <2>1, <2>2, AscendingTail
    <3>4. ToSet(Tail(tx.expd)) \subseteq ToSet(tx.expd)
      BY <1>2, <1>3, <2>1, TailDropsOne DEF CheckoutSound, ExpiredSound
    <3>5. n.ended = {} => \A r \in Row : lock'[r] = t =>
            \/ r \in CartItem
            \/ r \in OrderId /\ \A e \in ToSet(Tail(tx.expd)) : CreatedAt[r] < CreatedAt[e]
      BY <1>4, <2>1, <2>2, <2>4, <3>2, <3>3, <3>4
    <3>6. Locks(t, n)'
      BY <1>4, <1>5, <2>1, <2>5, <3>2, <3>3, <3>5 DEF Locks, Ascending
    <3> QED
      BY <2>4, <3>2, <3>6, OwnLocksInv
  <2> QED
    BY <2>3, <2>6, <2>7
<1>8. CASE RestockExpired(t)
  <2>1. tx.todo # <<>> /\ tx.todo \in Seq(CartItem)
    BY <1>1, <1>2, <1>8, TxStateTypes DEF RestockExpired, CheckoutSound, RowsSound
  <2>2. PICK p \in Product : p = ProductOf(Head(tx.todo))
    BY <2>1, HeadTailProperties, RowAssumption DEF ProductOf
  <2> DEFINE last == Len(tx.todo) = 1
  <2>3. /\ Acquire(t, p)
        /\ \E moved, todo, expd :
             txn' = [txn EXCEPT ![t].moved = moved, ![t].todo = todo,
                        ![t].pc = IF last THEN "expired" ELSE "restock",
                        ![t].ended = IF last THEN @ \cup {tx.order} ELSE @, ![t].expd = expd]
    <3> HIDE DEF last
    <3> DEFINE moved == [tx.moved EXCEPT ![p] = @ + lines[tx.order][Head(tx.todo)]]
               expd == IF last THEN Tail(tx.expd) ELSE tx.expd
    <3>1. txn' = [txn EXCEPT ![t].moved = moved, ![t].todo = Tail(tx.todo),
                        ![t].pc = IF last THEN "expired" ELSE "restock",
                        ![t].ended = IF last THEN @ \cup {tx.order} ELSE @, ![t].expd = expd]
      BY <1>1, <1>8, <2>2 DEF RestockExpired, NextLine, last
    <3>2. Acquire(t, p)
      BY <1>1, <1>8, <2>2 DEF RestockExpired
    <3> HIDE DEF moved, expd
    <3> QED
      BY <3>1, <3>2
  <2>4. PICK moved, todo, expd, pc, ended :
          /\ txn' = [txn EXCEPT ![t].moved = moved, ![t].todo = todo, ![t].pc = pc,
                                ![t].ended = ended, ![t].expd = expd]
          /\ pc \in {"expired", "restock"} /\ (pc = "expired" => ended # {})
    <3> HIDE DEF last
    <3>1. PICK moved, todo, expd :
            txn' = [txn EXCEPT ![t].moved = moved, ![t].todo = todo,
                        ![t].pc = IF last THEN "expired" ELSE "restock",
                        ![t].ended = IF last THEN @ \cup {tx.order} ELSE @, ![t].expd = expd]
      BY <2>3
    <3>2. PICK pc, ended : /\ pc = (IF last THEN "expired" ELSE "restock")
                           /\ ended = (IF last THEN tx.ended \cup {tx.order} ELSE tx.ended)
      OBVIOUS
    <3>3. txn' = [txn EXCEPT ![t].moved = moved, ![t].todo = todo, ![t].pc = pc,
                             ![t].ended = ended, ![t].expd = expd]
      BY <1>1, <3>1, <3>2
    <3>4. pc \in {"expired", "restock"} /\ (pc = "expired" => ended # {})
      BY <3>2
    <3> QED
      BY <3>3, <3>4
  <2>5. PICK n : n = [tx EXCEPT !.moved = moved, !.todo = todo, !.pc = pc, !.ended = ended,
                                !.expd = expd]
    OBVIOUS
  <2>6. n.pc = pc /\ n.ended = ended /\ txn' = [txn EXCEPT ![t] = n]
    BY <1>1, <1>2, <2>4, <2>5 DEF TxState
  <2>7. /\ p \in Row /\ p # DateLock
        /\ \A s \in Row : s # p => lock'[s] = lock[s]
        /\ \A s \in Row, q \in Tx \ {t} : lock'[s] = q <=> lock[s] = q
    BY <2>3, AcquireTakesOne, RowsAssumption DEF Row
  <2>8. lock'[DateLock] # t
    BY <1>4, <1>5, <2>7
  <2>9. Locks(t, n)'
    BY <1>5, <2>4, <2>6, <2>8 DEF Locks
  <2> QED
    BY <2>6, <2>7, <2>9, OwnLocksInv
<1>9. CASE CountPending(t) /\ ~Rollback(t)
  <2>1. tx.pc = "expired" /\ txn' = [txn EXCEPT ![t].pc = "number"] /\ lock' = lock
    BY <1>1, <1>9 DEF CountPending
  <2>2. PICK n : n = [tx EXCEPT !.pc = "number"]
    OBVIOUS
  <2>3. n.pc = "number" /\ n.ended = tx.ended /\ txn' = [txn EXCEPT ![t] = n]
    BY <1>1, <1>2, <2>1, <2>2 DEF TxState
  <2>4. \A p \in Product : p \in Row /\ p \notin CartItem /\ p \notin OrderId
    BY RowsAssumption DEF Row
  <2>5. Locks(t, n)'
    BY <1>4, <1>5, <2>1, <2>3, <2>4 DEF Locks
  <2> QED
    BY <2>1, <2>3, <2>5, OwnLocksInv
<1> QED
  BY <1>6, <1>7, <1>8, <1>9

LEMMA TakeLocks ==
  ASSUME TxInv, LocksInv, NEW t \in Tx, CreateOrder(t) \/ TakeFromStock(t)
  PROVE  LocksInv'
<1>1. PICK tx : tx = txn[t]
  OBVIOUS
<1>2. tx \in TxState /\ tx.pc \in {"number", "take"} /\ CheckoutSound(t, tx)
  <2>1. tx.pc \in {"number", "take"}
    BY <1>1 DEF CreateOrder, TakeFromStock
  <2> QED
    BY <1>1, <2>1, PcTells
<1>3. lock[DateLock] = t <=> tx.pc = "take"
  BY <1>1, <1>2 DEF LocksInv, Locks, CheckoutSound
<1>4. Idle.pc = "idle" /\ DateLock \in Row
  BY DEF Idle, Row
<1>5. CASE Rollback(t)
  BY <1>5, ReleasedLocks DEF Rollback
<1>6. CASE CreateOrder(t) /\ ~Rollback(t)
  <2>1. Acquire(t, DateLock)
    BY <1>6 DEF CreateOrder, NumberLock
  <2>2. PICK o : txn' = [txn EXCEPT ![t].pc = "take", ![t].order = o, ![t].todo = txn[t].items]
    BY <1>6 DEF CreateOrder
  <2>3. PICK n : n = [tx EXCEPT !.pc = "take", !.order = o, !.todo = tx.items]
    OBVIOUS
  <2>4. n.pc = "take" /\ txn' = [txn EXCEPT ![t] = n]
    BY <1>1, <1>2, <2>2, <2>3 DEF TxState
  <2>5. /\ lock'[DateLock] = t
        /\ \A s \in Row, q \in Tx \ {t} : lock'[s] = q <=> lock[s] = q
    BY <1>4, <2>1, AcquireTakesOne
  <2>6. Locks(t, n)'
    BY <1>4, <2>4, <2>5 DEF Locks
  <2> QED
    BY <2>4, <2>5, <2>6, OwnLocksInv
<1>7. CASE TakeFromStock(t) /\ ~Rollback(t)
  <2>1. tx.pc = "take" /\ tx.todo # <<>> /\ tx.todo \in Seq(CartItem)
    BY <1>1, <1>2, <1>7, TxStateTypes DEF TakeFromStock, CheckoutSound, RowsSound
  <2>2. PICK p \in Product : p = ProductOf(Head(tx.todo))
    BY <2>1, HeadTailProperties, RowAssumption DEF ProductOf
  <2>3. /\ Acquire(t, p)
        /\ txn' = [txn EXCEPT ![t].moved[p] = @ - cartQty[Head(tx.todo)],
                              ![t].todo = Tail(@),
                              ![t].pc = NextLine(t, "take", "commit")]
    BY <1>1, <1>7, <2>2 DEF TakeFromStock
  <2>4. PICK moved, todo, pc :
          /\ moved = [tx.moved EXCEPT ![p] = tx.moved[p] - cartQty[Head(tx.todo)]]
          /\ todo = Tail(tx.todo) /\ pc = NextLine(t, "take", "commit")
    OBVIOUS
  <2>5. PICK n : n = [tx EXCEPT !.moved = moved, !.todo = todo, !.pc = pc]
    OBVIOUS
  <2>6. n.pc \in {"take", "commit"} /\ txn' = [txn EXCEPT ![t] = n]
    <3>1. txn' = [txn EXCEPT ![t].moved = moved, ![t].todo = todo, ![t].pc = pc]
      BY <1>1, <2>3, <2>4
    <3> QED
      BY <1>1, <1>2, <2>4, <2>5, <3>1 DEF TxState, NextLine
  <2>7. /\ p \in Row /\ p # DateLock
        /\ \A s \in Row : s # p => lock'[s] = lock[s]
        /\ \A s \in Row, q \in Tx \ {t} : lock'[s] = q <=> lock[s] = q
    BY <2>3, AcquireTakesOne, RowsAssumption DEF Row
  <2>8. lock'[DateLock] = t
    BY <1>3, <1>4, <2>1, <2>7
  <2>9. Locks(t, n)'
    BY <1>4, <2>6, <2>8 DEF Locks
  <2> QED
    BY <2>6, <2>7, <2>9, OwnLocksInv
<1> QED
  BY <1>5, <1>6, <1>7

LEMMA OneOrderLocks ==
  ASSUME TxInv, LocksInv, NEW t \in Tx, LockOrder(t) \/ MoveLine(t)
  PROVE  LocksInv'
<1>1. PICK tx : tx = txn[t]
  OBVIOUS
<1>2. tx \in TxState /\ tx.pc \in {"lock", "move"} /\ OneOrderSound(t, tx)
  <2>1. tx.pc \in {"lock", "move"}
    BY <1>1 DEF LockOrder, MoveLine
  <2> QED
    BY <1>1, <2>1, PcTells
<1>3. tx.kind # "checkout" /\ tx.order \in OrderId
  BY <1>2 DEF OneOrderSound
<1>4. CASE Rollback(t)
  BY <1>4, ReleasedLocks DEF Rollback
<1>5. ASSUME NEW n, n.kind # "checkout", n.pc \notin {"idle", "lock"},
             NEW r \in Row, Acquire(t, r), txn' = [txn EXCEPT ![t] = n]
      PROVE  LocksInv'
  <2>1. Locks(t, n)'
    BY <1>5 DEF Locks, Idle
  <2> QED
    BY <1>5, <2>1, AcquireTakesOne, OwnLocksInv
<1>6. CASE LockOrder(t) /\ ~Rollback(t)
  <2>1. tx.order \in Row /\ Acquire(t, tx.order)
    BY <1>1, <1>3, <1>6 DEF LockOrder, Row
  <2>2. CASE txn' = [txn EXCEPT ![t].pc = "commit"]
    <3>1. PICK n : n = [tx EXCEPT !.pc = "commit"]
      OBVIOUS
    <3>2. n.kind # "checkout" /\ n.pc \notin {"idle", "lock"} /\ txn' = [txn EXCEPT ![t] = n]
      BY <1>1, <1>2, <1>3, <2>2, <3>1 DEF TxState
    <3> QED
      BY <1>5, <2>1, <3>2
  <2>3. ASSUME NEW todo, txn' = [txn EXCEPT ![t].pc = "move", ![t].todo = todo]
        PROVE  LocksInv'
    <3>1. PICK n : n = [tx EXCEPT !.pc = "move", !.todo = todo]
      OBVIOUS
    <3>2. n.kind # "checkout" /\ n.pc \notin {"idle", "lock"} /\ txn' = [txn EXCEPT ![t] = n]
      BY <1>1, <1>2, <1>3, <2>3, <3>1 DEF TxState
    <3> QED
      BY <1>5, <2>1, <3>2
  <2> QED
    BY <1>6, <2>2, <2>3 DEF LockOrder
<1>7. CASE MoveLine(t)
  <2>1. tx.todo # <<>> /\ tx.todo \in Seq(CartItem)
    BY <1>1, <1>2, <1>7, TxStateTypes DEF MoveLine, OneOrderSound
  <2>2. PICK p \in Product : p = ProductOf(Head(tx.todo))
    BY <2>1, HeadTailProperties, RowAssumption DEF ProductOf
  <2>3. /\ Acquire(t, p)
        /\ txn' = [txn EXCEPT ![t].moved[p] = @ + lines[tx.order][Head(tx.todo)],
                              ![t].todo = Tail(@),
                              ![t].pc = NextLine(t, "move", "commit")]
    BY <1>1, <1>7, <2>2 DEF MoveLine
  <2>4. PICK moved, todo, pc :
          /\ moved = [tx.moved EXCEPT ![p] = tx.moved[p] + lines[tx.order][Head(tx.todo)]]
          /\ todo = Tail(tx.todo) /\ pc = NextLine(t, "move", "commit")
    OBVIOUS
  <2>5. PICK n : n = [tx EXCEPT !.moved = moved, !.todo = todo, !.pc = pc]
    OBVIOUS
  <2>6. n.kind # "checkout" /\ n.pc \notin {"idle", "lock"} /\ txn' = [txn EXCEPT ![t] = n]
    <3>1. txn' = [txn EXCEPT ![t].moved = moved, ![t].todo = todo, ![t].pc = pc]
      BY <1>1, <2>3, <2>4
    <3> QED
      BY <1>1, <1>2, <1>3, <2>4, <2>5, <3>1 DEF TxState, NextLine
  <2>7. p \in Row
    BY DEF Row
  <2> QED
    BY <1>5, <2>3, <2>6, <2>7
<1> QED
  BY <1>4, <1>6, <1>7

LEMMA ClearLocks ==
  ASSUME TxInv, LocksInv, NEW t \in Tx, DeleteCartRow(t)
  PROVE  LocksInv'
<1>1. PICK tx : tx = txn[t]
  OBVIOUS
<1>2. tx \in TxState /\ tx.pc = "clear" /\ tx.kind = "clear" /\ tx.todo # <<>>
  BY <1>1, PcTells DEF DeleteCartRow, ClearSound
<1>3. PICK i \in CartItem : i = Head(tx.todo)
  BY <1>2, TxStateTypes, HeadTailProperties
<1>4. PICK n : /\ n.kind = "clear" /\ n.pc = "clear"
               /\ txn' = [txn EXCEPT ![t] = n]
  <2>1. CASE txn' = [txn EXCEPT ![t].items = Append(@, i), ![t].todo = Tail(@)]
    <3>1. PICK n : n = [tx EXCEPT !.items = Append(tx.items, i), !.todo = Tail(tx.todo)]
      OBVIOUS
    <3>2. n.kind = "clear" /\ n.pc = "clear" /\ txn' = [txn EXCEPT ![t] = n]
      BY <1>1, <1>2, <2>1, <3>1 DEF TxState
    <3> QED
      BY <3>2
  <2>2. CASE txn' = [txn EXCEPT ![t].todo = Tail(@)]
    <3>1. PICK n : n = [tx EXCEPT !.todo = Tail(tx.todo)]
      OBVIOUS
    <3>2. n.kind = "clear" /\ n.pc = "clear" /\ txn' = [txn EXCEPT ![t] = n]
      BY <1>1, <1>2, <2>2, <3>1 DEF TxState
    <3> QED
      BY <3>2
  <2> QED
    BY <1>1, <1>3, <2>1, <2>2 DEF DeleteCartRow
<1>5. Locks(t, n)'
  BY <1>4 DEF Locks, Idle
<1>6. Acquire(t, i) \/ lock' = lock
  BY <1>1, <1>3 DEF DeleteCartRow
<1>7. \A r \in Row, q \in Tx \ {t} : lock'[r] = q <=> lock[r] = q
  BY <1>6, AcquireTakesOne DEF Row
<1> QED
  BY <1>4, <1>5, <1>7, OwnLocksInv

LEMMA LocksStep == TxInv /\ LocksInv /\ [TxNext]_txVars => LocksInv'
<1> SUFFICES ASSUME TxInv, LocksInv, [TxNext]_txVars
             PROVE  LocksInv'
  OBVIOUS
<1>1. ASSUME NEW t \in Tx, Start(t)
      PROVE  LocksInv'
  BY <1>1, BeginLocks
<1>2. ASSUME NEW t \in Tx, Statement(t)
      PROVE  LocksInv'
  <2>1. CASE LockCartRow(t) \/ ListExpired(t)
    BY <2>1, RowsLocks
  <2>2. CASE LockExpiredOrder(t) \/ RestockExpired(t) \/ CountPending(t)
    BY <2>2, ExpiredLocks
  <2>3. CASE CreateOrder(t) \/ TakeFromStock(t)
    BY <2>3, TakeLocks
  <2>4. CASE LockOrder(t) \/ MoveLine(t)
    BY <2>4, OneOrderLocks
  <2>5. CASE Commit(t) \/ CommitClear(t)
    BY <2>5, ReleasedLocks DEF Commit, CommitClear
  <2>6. CASE DeleteCartRow(t)
    BY <2>6, ClearLocks
  <2> QED
    BY <1>2, <2>1, <2>2, <2>3, <2>4, <2>5, <2>6 DEF Statement
<1>3. ASSUME NEW t \in Tx, Fail(t) \/ BreakDeadlock(t)
      PROVE  LocksInv'
  BY <1>3, ReleasedLocks DEF Fail, BreakDeadlock, Rollback
<1>4. CASE UNCHANGED <<txn, lock>>
  BY <1>4 DEF LocksInv, Locks, Ascending
<1> QED
  BY <1>1, <1>2, <1>3, <1>4 DEF TxNext, ProductHandler, CartHandler, TimePasses, txVars

LEMMA LeastOf ==
  ASSUME NEW N, N \subseteq Nat, N # {}
  PROVE  \E m \in N : \A n \in N : m <= n
<1> DEFINE R == {pair \in Nat \X Nat : pair[1] < pair[2]}
<1>1. IsWellFoundedOn(R, Nat)
  BY NatLessThanWellFounded DEF OpToRel
<1>2. \A m, n \in Nat : <<n, m>> \in R <=> n < m
  OBVIOUS
<1> HIDE DEF R
<1>3. PICK m \in N : \A n \in N : ~ (<<n, m>> \in R)
  BY <1>1, WFMin
<1>4. \A n \in N : m <= n
  <2> TAKE n \in N
  <2>1. m \in Nat /\ n \in Nat /\ ~ (<<n, m>> \in R)
    BY <1>3
  <2>2. ~ (n < m)
    BY <1>2, <2>1
  <2> QED
    BY <2>1, <2>2
<1> QED
  BY <1>4

\* What a statement waits for is a row.
LEMMA WantsRows ==
  ASSUME TxInv, NEW t \in Tx
  PROVE  Wants(t) \subseteq Row
<1>1. PICK tx : tx = txn[t]
  OBVIOUS
<1>2. /\ tx \in TxState /\ tx.todo \in Seq(CartItem) /\ tx.expd \in Seq(OrderId)
      /\ tx.pc = "lock" => tx.order \in OrderId
      /\ tx.pc \in {"restock", "take", "move"} => tx.todo # <<>>
  BY <1>1, PcTells, TxStateTypes DEF CheckoutSound, RowsSound, OneOrderSound
<1>3. /\ tx.todo # <<>> => Head(tx.todo) \in CartItem /\ ProductOf(Head(tx.todo)) \in Product
      /\ tx.expd # <<>> => Head(tx.expd) \in OrderId
  BY <1>2, HeadTailProperties, RowAssumption DEF ProductOf
<1>4. CartItem \subseteq Row /\ OrderId \subseteq Row /\ Product \subseteq Row /\ DateLock \in Row
  BY DEF Row
<1>5. CASE tx.pc \in {"rows", "clear", "expired"}
  BY <1>1, <1>3, <1>4, <1>5 DEF Wants
<1>6. CASE tx.pc \in {"restock", "take", "move"}
  BY <1>1, <1>2, <1>3, <1>4, <1>6 DEF Wants
<1>7. CASE tx.pc \notin {"rows", "clear", "expired", "restock", "take", "move"}
  BY <1>1, <1>2, <1>4, <1>7 DEF Wants
<1> QED
  BY <1>5, <1>6, <1>7

\* ConfirmOrderFromPayment waits for its only lock, so nobody waits for it.
LEMMA NobodyWaitsForConfirm ==
  ASSUME TxInv, LocksInv, NEW T \in SUBSET Tx, Cycle(T), NEW t \in T
  PROVE  txn[t].kind # "confirm"
<1>1. /\ T # {} /\ \A s \in T : WaitsFor(s) \cap T # {}
      /\ \A S \in SUBSET T : S # {} /\ (\A s \in S : WaitsFor(s) \cap S # {}) => S = T
  BY DEF Cycle, Circular
<1> SUFFICES ASSUME txn[t].kind = "confirm"
             PROVE  FALSE
  OBVIOUS
<1>2. PICK tx : tx = txn[t]
  OBVIOUS
<1>3. OneOrderSound(t, tx)
  <2>1. tx = Idle \/ CheckoutSound(t, tx) \/ OneOrderSound(t, tx) \/ ClearSound(t, tx)
    BY <1>2, TxInvGives DEF Sound
  <2> QED
    BY <1>2, <2>1 DEF Idle, CheckoutSound, ClearSound
<1>4. tx.pc = "lock"
  <2>1. Wants(t) # {}
    BY <1>1 DEF WaitsFor
  <2> QED
    BY <1>2, <1>3, <2>1 DEF Wants, OneOrderSound
<1>5. \A r \in Row : lock[r] # t
  BY <1>2, <1>4 DEF LocksInv, Locks
<1>6. \A s \in T : t \notin WaitsFor(s)
  BY <1>5, WantsRows DEF WaitsFor
<1> DEFINE S == T \ {t}
<1>7. S \in SUBSET T /\ \A s \in S : WaitsFor(s) \cap S # {}
  BY <1>1, <1>6
<1>8. S # {}
  BY <1>1, <1>6
<1>9. S # T
  OBVIOUS
<1> QED
  <2> HIDE DEF S
  <2> QED
    BY <1>1, <1>7, <1>8, <1>9

\* A checkout that waits for other checkouts waits for a row of its list.
LEMMA NoCircleOfCheckouts ==
  ASSUME TxInv, LocksInv, NEW T \in SUBSET Tx, Cycle(T),
         \A t \in T : ~MovesLines(t) /\ ~ClearsCart(t)
  PROVE  FALSE
<1>1. /\ T # {} /\ \A t \in T : WaitsFor(t) \cap T # {}
      /\ \A S \in SUBSET T : S # {} /\ (\A t \in S : WaitsFor(t) \cap S # {}) => S = T
  BY DEF Cycle, Circular
<1>2. \A t \in T : \E r \in Wants(t) : lock[r] \in T /\ lock[r] # t
  BY <1>1 DEF WaitsFor
<1>3. ASSUME NEW t \in T
      PROVE  /\ txn[t] \in TxState /\ txn[t].kind = "checkout" /\ txn[t].ended = {}
             /\ Locks(t, txn[t])
             /\ \/ txn[t].pc = "rows" /\ txn[t].todo # <<>> /\ Wants(t) = {Head(txn[t].todo)}
                     /\ Head(txn[t].todo) \in ToSet(txn[t].todo) /\ Head(txn[t].todo) \in CartItem
                \/ txn[t].pc = "expired" /\ txn[t].expd # <<>> /\ Wants(t) = {Head(txn[t].expd)}
                     /\ Head(txn[t].expd) \in ToSet(txn[t].expd) /\ Head(txn[t].expd) \in OrderId
                \/ txn[t].pc = "number" /\ Wants(t) = {DateLock}
                \/ txn[t].pc = "take" /\ Wants(t) \subseteq Product
  <2>1. PICK tx : tx = txn[t]
    OBVIOUS
  <2>2. /\ tx.kind \notin {"cancel", "expire", "complete", "clear", "confirm"}
        /\ tx.ended = {} /\ tx.pc # "restock"
    BY <2>1, NobodyWaitsForConfirm DEF MovesLines, ClearsCart
  <2>3. tx \in TxState /\ Locks(t, tx)
    BY <2>1, TxInvGives DEF LocksInv
  <2>4. CheckoutSound(t, tx) /\ tx.kind = "checkout"
    <3>1. tx = Idle \/ CheckoutSound(t, tx) \/ OneOrderSound(t, tx) \/ ClearSound(t, tx)
      BY <2>1, TxInvGives DEF Sound
    <3>2. tx # Idle
      BY <1>2, <2>1 DEF Wants, Idle
    <3> QED
      BY <2>2, <3>1, <3>2 DEF Kind, CheckoutSound, OneOrderSound, ClearSound
  <2>5. /\ tx.pc \in {"rows", "expired", "number", "take", "commit"}
        /\ IsInjective(tx.todo) /\ IsInjective(tx.expd)
        /\ tx.pc = "take" => tx.todo # <<>>
        /\ tx.todo \in Seq(CartItem) /\ tx.expd \in Seq(OrderId)
    BY <2>2, <2>3, <2>4, TxStateTypes DEF CheckoutSound, RowsSound, ExpiredSound
  <2>6. /\ tx.todo # <<>> => Head(tx.todo) \in ToSet(tx.todo) /\ Head(tx.todo) \in CartItem
        /\ tx.expd # <<>> => Head(tx.expd) \in ToSet(tx.expd) /\ Head(tx.expd) \in OrderId
    BY <2>5, TailDropsOne
  <2>7. Wants(t) # {}
    BY <1>2
  <2>8. CASE tx.pc = "rows"
    BY <2>1, <2>2, <2>3, <2>4, <2>6, <2>7, <2>8 DEF Wants
  <2>9. CASE tx.pc = "expired"
    BY <2>1, <2>2, <2>3, <2>4, <2>6, <2>7, <2>9 DEF Wants
  <2>10. CASE tx.pc = "number"
    BY <2>1, <2>2, <2>3, <2>4, <2>10 DEF Wants
  <2>11. CASE tx.pc = "take"
    <3>1. Wants(t) = {ProductOf(Head(tx.todo))}
      BY <2>1, <2>11 DEF Wants
    <3>2. ProductOf(Head(tx.todo)) \in Product
      BY <2>5, <2>6, <2>11, RowAssumption DEF ProductOf
    <3> QED
      BY <2>1, <2>2, <2>3, <2>4, <2>11, <3>1, <3>2
  <2>12. CASE tx.pc = "commit"
    BY <2>1, <2>7, <2>12 DEF Wants
  <2> QED
    BY <2>5, <2>8, <2>9, <2>10, <2>11, <2>12
<1>4. /\ \A i \in CartItem : i \in Row /\ i \notin OrderId /\ i \notin Product
      /\ \A o \in OrderId : o \in Row /\ o \notin CartItem /\ o \notin Product
      /\ \A p \in Product : p \in Row /\ p \notin CartItem /\ p \notin OrderId
      /\ DateLock \in Row
  BY RowsAssumption DEF Row
\* Only a checkout that takes products has locked any, or the day's numbers,
\* and there is one such at a time.
<1>5. ASSUME NEW t \in T, NEW r \in Product \cup {DateLock}, lock[r] = t
      PROVE  txn[t].pc = "take"
  <2>1. r = DateLock => txn[t].pc = "take"
    BY <1>3, <1>5 DEF Locks
  <2>2. r \in Product => txn[t].pc = "take"
    BY <1>3, <1>4, <1>5 DEF Locks
  <2> QED
    BY <2>1, <2>2
<1>6. \A t \in T : txn[t].pc = "take" => lock[DateLock] = t
  BY <1>3 DEF Locks
<1>7. \A t \in T : txn[t].pc # "take"
  BY <1>2, <1>3, <1>5, <1>6
<1>8. \A t \in T : txn[t].pc # "number"
  BY <1>2, <1>3, <1>5, <1>7
<1> DEFINE wanted(t) == IF txn[t].pc = "rows" THEN Head(txn[t].todo) ELSE Head(txn[t].expd)
<1>9. ASSUME NEW t \in T
      PROVE  /\ Wants(t) = {wanted(t)} /\ lock[wanted(t)] \in T /\ lock[wanted(t)] # t
             /\ \/ txn[t].pc = "rows" /\ wanted(t) \in CartItem
                     /\ wanted(t) \in ToSet(txn[t].todo)
                \/ txn[t].pc = "expired" /\ wanted(t) \in OrderId
                     /\ wanted(t) \in ToSet(txn[t].expd)
  <2>1. Wants(t) = {wanted(t)}
    BY <1>3, <1>7, <1>8
  <2>2. lock[wanted(t)] \in T /\ lock[wanted(t)] # t
    BY <1>2, <2>1
  <2> QED
    BY <1>3, <1>7, <1>8, <2>1, <2>2
<1> HIDE DEF wanted
\* Who waits for an order waits for a checkout that locks orders, and who
\* waits for a cart row cannot close a circle with it.
<1>10. ASSUME NEW t \in T, txn[t].pc = "expired"
       PROVE  txn[lock[wanted(t)]].pc = "expired"
  <2>1. PICK q \in T : q = lock[wanted(t)]
    BY <1>9
  <2>2. wanted(t) \in OrderId /\ wanted(t) \in Row /\ wanted(t) \notin CartItem
    BY <1>4, <1>9, <1>10
  <2>3. txn[q].pc # "rows"
    BY <1>3, <2>1, <2>2 DEF Locks
  <2> QED
    BY <1>9, <2>1, <2>3
<1>11. ASSUME NEW S \in SUBSET T, S # {}, \A t \in S : lock[wanted(t)] \in S
       PROVE  S = T
  <2>1. ASSUME NEW t \in S
        PROVE  WaitsFor(t) \cap S # {}
    <3>1. lock[wanted(t)] \in S /\ lock[wanted(t)] # t /\ lock[wanted(t)] # NoTx
      BY <1>9, <1>11, TxAssumption
    <3> QED
      BY <1>9, <3>1 DEF WaitsFor
  <2> QED
    BY <1>1, <1>11, <2>1
<1>12. \/ \A t \in T : txn[t].pc = "expired"
       \/ \A t \in T : txn[t].pc = "rows"
  <2> DEFINE S == {t \in T : txn[t].pc = "expired"}
  <2>1. \A t \in S : lock[wanted(t)] \in S
    BY <1>9, <1>10
  <2>2. S \in SUBSET T /\ (S # {} => S = T)
    <3>1. S \in SUBSET T
      OBVIOUS
    <3> HIDE DEF S
    <3> QED
      BY <1>11, <2>1, <3>1
  <2> QED
    BY <1>9, <2>2
<1>13. ASSUME NEW t \in T
       PROVE  CreatedAt[wanted(t)] < CreatedAt[wanted(lock[wanted(t)])]
  <2>1. PICK q \in T : q = lock[wanted(t)]
    BY <1>9
  <2>2. wanted(t) \in Row
    BY <1>4, <1>9
  <2>3. CASE \A s \in T : txn[s].pc = "rows"
    BY <1>3, <1>9, <2>1, <2>2, <2>3 DEF Locks
  <2>4. CASE \A s \in T : txn[s].pc = "expired"
    <3>1. wanted(t) \notin CartItem /\ wanted(q) \in ToSet(txn[q].expd)
      BY <1>4, <1>9, <2>4
    <3> QED
      BY <1>3, <2>1, <2>2, <2>4, <3>1 DEF Locks
  <2> QED
    BY <1>12, <2>3, <2>4
\* Without the checkout that waits for the first of these rows, the others
\* still are a circle.
<1>14. PICK first \in T : \A t \in T : CreatedAt[wanted(first)] <= CreatedAt[wanted(t)]
  <2> DEFINE N == {CreatedAt[wanted(t)] : t \in T}
  <2>1. N \subseteq Nat
    BY <1>9, CreatedAtAssumption
  <2>2. N # {}
    <3>1. PICK t \in T : TRUE
      BY <1>1
    <3>2. CreatedAt[wanted(t)] \in N
      OBVIOUS
    <3> QED
      BY <3>2
  <2>3. \E m \in N : \A n \in N : m <= n
    <3> HIDE DEF N
    <3> QED
      BY <2>1, <2>2, LeastOf
  <2> QED
    BY <2>3
<1> DEFINE S == T \ {first}
<1>15. S \in SUBSET T /\ S # {}
  BY <1>9
<1>16. ASSUME NEW t \in S
       PROVE  lock[wanted(t)] \in S
  <2>1. PICK q \in T : q = lock[wanted(t)]
    BY <1>9
  <2>2. CreatedAt[wanted(t)] \in Nat /\ CreatedAt[wanted(q)] \in Nat /\ CreatedAt[wanted(first)] \in Nat
    BY <1>9, CreatedAtAssumption
  <2>3. CreatedAt[wanted(first)] <= CreatedAt[wanted(t)] /\ CreatedAt[wanted(t)] < CreatedAt[wanted(q)]
    BY <1>13, <1>14, <2>1
  <2>4. q # first
    BY <2>2, <2>3
  <2> QED
    BY <2>1, <2>4
<1>17. S = T
  <2> HIDE DEF S
  <2> QED
    BY <1>11, <1>15, <1>16
<1> QED
  BY <1>17

LEMMA LocksInit == TxInit => LocksInv
BY RowsAssumption, TxAssumption DEF TxInit, LocksInv, Locks, Idle, Row

\* Every deadlock of the transactions of a day has a member that moves the
\* lines of an order that exists, or that clears a cart: checkouts alone cannot
\* deadlock, nor with confirmations, although each locks its products in the
\* order its client sent them.
THEOREM CheckoutsNeedAnother == TxSpec => []CheckoutsDoNotDeadlock
<1>1. TxInv /\ LocksInv => CheckoutsDoNotDeadlock
  BY NoCircleOfCheckouts DEF CheckoutsDoNotDeadlock
<1>2. TxSpec => []LocksInv
  BY LocksInit, LocksStep, TxInvariance, PTL DEF TxSpec
<1> QED
  BY <1>1, <1>2, TxInvariance, PTL
=============================================================================
