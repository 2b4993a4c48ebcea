----------------------------- MODULE MCServices -----------------------------
(***************************************************************************)
(* Six components that share no state, one instance each: a behaviour is   *)
(* one of the component that the initial state chooses.                    *)
(*                                                                         *)
(*   admin    two requests on two products with two names                  *)
(*   cache    two readers, one writer, one list and the detail of a        *)
(*            product that is written twice                                *)
(*   keys     two requests while Supabase rotates from one key to another  *)
(*   cart     two requests on one cart; two ids for one product, one for   *)
(*            another; admins delete the first and restore it              *)
(*   numbers  three checkouts, two days, two products in either order      *)
(*   amounts  two products and integers of four bits                       *)
(***************************************************************************)
EXTENDS ProductAdmin, ProductCache, SigningKeys, CartTx, OrderNumbers, Amounts, TLC

CONSTANTS n1, n2, k1, k2, i1, i2, i3, c1, x, y

VARIABLE part

Part == {"admin", "cache", "keys", "cart", "numbers", "amounts"}

-----------------------------------------------------------------------------
Ask(name, category, attributes, shelf) ==
  [name |-> name, category |-> category, attributes |-> attributes, status |-> shelf]

\* A coffee with all it needs, under either name, and a food that lacks portions.
MCCreateAsks ==
  {Ask(name, "coffee", Required["coffee"], NotSent) : name \in ProductName}
    \cup {Ask(n1, "food", Required["coffee"], NotSent)}

\* A new name; another category with its attributes; either of them alone.
MCUpdateAsks ==
  {Ask(name, NotSent, NotSent, NotSent) : name \in ProductName}
    \cup {Ask(NotSent, "food", Required["food"], NotSent),
          Ask(NotSent, "food", NotSent, NotSent),
          Ask(NotSent, NotSent, Required["food"], NotSent)}

MCKeySet == [v \in 0..2 |-> {k \in {k1, k2} : (v = 0 => k = k1) /\ (v = 2 => k = k2)}]

MCItemOf ==
  (i1 :> [user |-> c1, product |-> x, key |-> "k"]) @@
  (i2 :> [user |-> c1, product |-> x, key |-> "k"]) @@
  (i3 :> [user |-> c1, product |-> y, key |-> "k"])

MCMenuAsks == {x} \X {"available", "deleted"}

MCWanted == {<<x, y>>, <<y, x>>}

Symmetry == Permutations(Session) \cup Permutations(Reader)

-----------------------------------------------------------------------------
ServicesInit ==
  /\ part \in Part
  /\ AdminInit /\ CacheInit /\ KeysInit /\ CartTxInit /\ NumbersInit /\ AmountsInit

ServicesNext ==
  \/ /\ part = "admin" /\ AdminNext
     /\ UNCHANGED <<part, cacheVars, keysVars, cartTxVars, numbersVars, amountsVars>>
  \/ /\ part = "cache" /\ CacheNext
     /\ UNCHANGED <<part, adminVars, keysVars, cartTxVars, numbersVars, amountsVars>>
  \/ /\ part = "keys" /\ KeysNext
     /\ UNCHANGED <<part, adminVars, cacheVars, cartTxVars, numbersVars, amountsVars>>
  \/ /\ part = "cart" /\ CartTxNext
     /\ UNCHANGED <<part, adminVars, cacheVars, keysVars, numbersVars, amountsVars>>
  \/ /\ part = "numbers" /\ NumbersNext
     /\ UNCHANGED <<part, adminVars, cacheVars, keysVars, cartTxVars, amountsVars>>
  \/ /\ part = "amounts" /\ AmountsNext
     /\ UNCHANGED <<part, adminVars, cacheVars, keysVars, cartTxVars, numbersVars>>

servicesVars ==
  <<part, adminVars, cacheVars, keysVars, cartTxVars, numbersVars, amountsVars>>

ServicesSpec == ServicesInit /\ [][ServicesNext]_servicesVars

\* Every variable of the six components has its type.
ServicesTypeOK ==
  /\ AdminTypeOK /\ CacheTypeOK /\ KeysTypeOK
  /\ CartTxTypeOK /\ NumbersTypeOK /\ AmountsTypeOK
=============================================================================
