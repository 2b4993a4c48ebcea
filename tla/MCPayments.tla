----------------------------- MODULE MCPayments -----------------------------
(***************************************************************************)
(* One customer with one cart row, one order or two, two payments.  In     *)
(* MCPayments the second order may be confirmed without a payment.         *)
(***************************************************************************)
EXTENDS Payments, TLC

CONSTANTS u1, p1, i1, o1, o2, q1, q2, c1, c2, h1, h2

MCRowOf == i1 :> [user |-> u1, product |-> p1, key |-> "k"]

MCInitStock == p1 :> 1

Symmetry == Permutations(PaymentId) \cup Permutations(Client) \cup Permutations(Hook)
=============================================================================
