--------------------------- MODULE ServicesProofs ---------------------------
(***************************************************************************)
(* MCServices runs six components side by side that share no state.  What  *)
(* is proved of a component by itself holds of it there, so its runs check *)
(* what the other proof modules prove.                                     *)
(***************************************************************************)
EXTENDS MCServices, ProductAdminProofs, ReadsProofs, CheckoutProofs

\* A step of the services is a step of a component or leaves it alone.
LEMMA ServicesSteps ==
  ASSUME [ServicesNext]_servicesVars
  PROVE  /\ [AdminNext]_adminVars /\ [CacheNext]_cacheVars /\ [KeysNext]_keysVars
         /\ [CartTxNext]_cartTxVars /\ [NumbersNext]_numbersVars
         /\ [AmountsNext]_amountsVars
<1>1. CASE part = "admin" /\ AdminNext
           /\ UNCHANGED <<part, cacheVars, keysVars, cartTxVars, numbersVars, amountsVars>>
  BY <1>1
<1>2. CASE part = "cache" /\ CacheNext
           /\ UNCHANGED <<part, adminVars, keysVars, cartTxVars, numbersVars, amountsVars>>
  BY <1>2
<1>3. CASE part = "keys" /\ KeysNext
           /\ UNCHANGED <<part, adminVars, cacheVars, cartTxVars, numbersVars, amountsVars>>
  BY <1>3
<1>4. CASE part = "cart" /\ CartTxNext
           /\ UNCHANGED <<part, adminVars, cacheVars, keysVars, numbersVars, amountsVars>>
  BY <1>4
<1>5. CASE part = "numbers" /\ NumbersNext
           /\ UNCHANGED <<part, adminVars, cacheVars, keysVars, cartTxVars, amountsVars>>
  BY <1>5
<1>6. CASE part = "amounts" /\ AmountsNext
           /\ UNCHANGED <<part, adminVars, cacheVars, keysVars, cartTxVars, numbersVars>>
  BY <1>6
<1>7. CASE UNCHANGED servicesVars
  BY <1>7 DEF servicesVars
<1> QED
  BY <1>1, <1>2, <1>3, <1>4, <1>5, <1>6, <1>7 DEF ServicesNext

\* Side by side, each of the six components behaves as it does by itself:
\* product administration, the product cache, the key cache, the cart handlers,
\* the order numbers and the amounts.
THEOREM ServicesAreComponents ==
  ServicesSpec =>
    AdminSpec /\ CacheSpec /\ KeysSpec /\ CartTxSpec /\ NumbersSpec /\ AmountsSpec
<1>1. ServicesInit =>
        AdminInit /\ CacheInit /\ KeysInit /\ CartTxInit /\ NumbersInit /\ AmountsInit
  BY DEF ServicesInit
<1>2. [ServicesNext]_servicesVars => [AdminNext]_adminVars
  BY ServicesSteps
<1>3. [ServicesNext]_servicesVars => [CacheNext]_cacheVars
  BY ServicesSteps
<1>4. [ServicesNext]_servicesVars => [KeysNext]_keysVars
  BY ServicesSteps
<1>5. [ServicesNext]_servicesVars => [CartTxNext]_cartTxVars
  BY ServicesSteps
<1>6. [ServicesNext]_servicesVars => [NumbersNext]_numbersVars
  BY ServicesSteps
<1>7. [ServicesNext]_servicesVars => [AmountsNext]_amountsVars
  BY ServicesSteps
<1> QED
  BY <1>1, <1>2, <1>3, <1>4, <1>5, <1>6, <1>7, PTL
  DEF ServicesSpec, AdminSpec, CacheSpec, KeysSpec, CartTxSpec, NumbersSpec, AmountsSpec

\* The type invariants of the six components, of which one runs: rows, events,
\* sessions, cache entries and verifiers keep their types, no quantity in a cart
\* passes its limit, and totals are integers of their width, whatever the number
\* of requests, products, keys, versions, rows and days.
THEOREM ServicesTypes == ServicesSpec => []ServicesTypeOK
<1>1. AdminInv => AdminTypeOK
  BY DEF AdminInv
<1>2. CacheInv => CacheTypeOK
  BY DEF CacheInv
<1>3. KeysInv => KeysTypeOK
  BY DEF KeysInv
<1>4. CartInv => CartTxTypeOK
  BY DEF CartInv
<1>5. NumbersInv => NumbersTypeOK
  BY DEF NumbersInv
<1>6. AmountsInv => AmountsTypeOK
  BY DEF AmountsInv
<1> QED
  BY <1>1, <1>2, <1>3, <1>4, <1>5, <1>6, ServicesAreComponents, AdminInvariance,
     CacheInvariance, KeysInvariance, CartInvariance, NumbersInvariance,
     AmountsInvariance, PTL
  DEF ServicesTypeOK
=============================================================================
