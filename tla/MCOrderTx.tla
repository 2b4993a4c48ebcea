----------------------------- MODULE MCOrderTx -----------------------------
(***************************************************************************)
(* Two transactions at a time: over the carts of two customers who want    *)
(* the same last unit while an admin takes the product off the menu; and   *)
(* over the carts of two customers who each order the same two products.   *)
(***************************************************************************)
EXTENDS OrderTx, TLC

CONSTANTS u1, u2, p1, p2, i1, i2, i3, i4, o1, o2, t1, t2

SharedRowOf ==
  (i1 :> [user |-> u1, product |-> p1, key |-> "k"]) @@
  (i2 :> [user |-> u2, product |-> p1, key |-> "k"])

SharedInitStock == p1 :> 1

FullRowOf ==
  (i1 :> [user |-> u1, product |-> p1, key |-> "k"]) @@
  (i2 :> [user |-> u1, product |-> p2, key |-> "k"]) @@
  (i3 :> [user |-> u2, product |-> p1, key |-> "k"]) @@
  (i4 :> [user |-> u2, product |-> p2, key |-> "k"])

FullInitStock == (p1 :> 2) @@ (p2 :> 2)

MCCreatedAt ==
  (i1 :> 1) @@ (i2 :> 2) @@ (i3 :> 3) @@ (i4 :> 4) @@ (o1 :> 1) @@ (o2 :> 2)

Symmetry == Permutations(Tx)

-----------------------------------------------------------------------------
(***************************************************************************)
(* Full carts: every customer has filled the cart and now checks all of it *)
(* out, in any order of the rows, while orders expire and are cancelled;    *)
(* one of them, who is like the other, also clears it.  Single rows and     *)
(* products change in the other runs.                                       *)
(***************************************************************************)
FullInit ==
  /\ stock = InitStock
  /\ sold = [p \in Product |-> 0]
  /\ shelf = [p \in Product |-> "available"]
  /\ deleted = {}
  /\ cartQty = [i \in CartItem |-> 1]
  /\ usedItems = CartItem
  /\ status = [o \in OrderId |-> "none"]
  /\ owner = [o \in OrderId |-> NoUser]
  /\ lines = [o \in OrderId |-> [i \in CartItem |-> 0]]
  /\ overdue = {}
  /\ txn = [t \in Tx |-> Idle]
  /\ lock = [r \in Row |-> NoTx]

WholeCart(u) == {i \in CartItem : RowOf[i].user = u}

StartFull(t) ==
  \/ \E u \in User : \E items \in AnyOrder(WholeCart(u)) : BeginCheckout(t, u, items)
  \/ \E kind \in Started \ {"checkout", "clear"}, o \in OrderId : Begin(t, kind, o)
  \/ "clear" \in Started /\ BeginClear(t, WholeCart(u1))

FullNext ==
  \/ \E t \in Tx : StartFull(t) \/ Statement(t) \/ Fail(t) \/ BreakDeadlock(t)
  \/ TimePasses

FairFullSpec == FullInit /\ [][FullNext]_txVars /\ Fairness
=============================================================================
