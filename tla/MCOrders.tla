------------------------------ MODULE MCOrders ------------------------------
(***************************************************************************)
(* A small instance of Orders: one customer with two variants of a product *)
(* in the cart, another who wants the same product, stock for half of what *)
(* the rows can ask for.                                                   *)
(***************************************************************************)
EXTENDS Orders, TLC

CONSTANTS u1, u2, p1, i1, i2, i3, o1, o2, o3

MCRowOf ==
  (i1 :> [user |-> u1, product |-> p1, key |-> "iced"]) @@
  (i2 :> [user |-> u1, product |-> p1, key |-> "hot"]) @@
  (i3 :> [user |-> u2, product |-> p1, key |-> "iced"])

MCInitStock == p1 :> 3

Symmetry == Permutations(OrderId)
=============================================================================
