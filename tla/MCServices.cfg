SPECIFICATION ServicesSpec
CONSTANTS
  n1 = n1
  n2 = n2
  k1 = k1
  k2 = k2
  i1 = i1
  i2 = i2
  i3 = i3
  c1 = c1
  x = x
  y = y
  ProductId = {pr1, pr2}
  NoProduct = NoProduct
  NoRow = NoRow
  NotSent = NotSent
  ProductName = {n1, n2}
  Session = {s1, s2}
  CreateAsks <- MCCreateAsks
  UpdateAsks <- MCUpdateAsks
  StatusAsks = {"unavailable"}
  Reader = {r1, r2}
  Writer = {w1}
  ListKey = {"list"}
  NoEntry = NoEntry
  NoVersion = NoVersion
  ListTTL = 0
  DetailTTL = 1
  MaxFill = 1
  MaxVersion = 2
  Verifier = {v1, v2}
  Kid = {k1, k2}
  KeySet <- MCKeySet
  NoKeySet = NoKeySet
  KeyTTL = 1
  MaxFetch = 1
  Customer = {c1}
  NoCustomer = NoCustomer
  ItemId = {i1, i2, i3}
  ItemOf <- MCItemOf
  MaxItemQty = 2
  CartRequest = {q1, q2}
  Asked = {1}
  MenuAsks <- MCMenuAsks
  Buyer = {b1, b2, b3}
  Day = {d1, d2}
  Wanted <- MCWanted
  NoDay = NoDay
  MaxNumber = 2
  Priced = {x, y}
  Width = 4
  MaxPrice = 3
  MaxInStock = 6
SYMMETRY Symmetry
INVARIANT
  ServicesTypeOK
  NamesUnique
  AttributesFitCategory
  AnnouncedIfCreated
  StaleOnlyIfCrossed
  ValidTokensPass
  FirstUseLeavesCart
  NumbersConsecutive
  NumberIsFree
  DeadlocksSpanDays
  PaidIsOrdered
  OrdersThatFitPass
PROPERTY
  ShelfAsInOrders
  ReadsAreRecent
  TrustIsRecent
  CartAsInOrders
