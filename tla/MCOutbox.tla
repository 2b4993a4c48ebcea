------------------------------ MODULE MCOutbox ------------------------------
(***************************************************************************)
(* Two workers, or a worker and the one that replaces it, and three events. *)
(***************************************************************************)
EXTENDS Outbox, TLC

CONSTANTS e1, e2, e3, w1, w2

MCCreatedAt == (e1 :> 1) @@ (e2 :> 2) @@ (e3 :> 2)
=============================================================================
