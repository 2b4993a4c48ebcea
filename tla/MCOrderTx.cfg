SPECIFICATION TxSpec
CONSTANTS
  u1 = u1
  u2 = u2
  p1 = p1
  p2 = p2
  i1 = i1
  i2 = i2
  i3 = i3
  i4 = i4
  o1 = o1
  o2 = o2
  t1 = t1
  t2 = t2
  User = {u1, u2}
  NoUser = NoUser
  Product = {p1}
  CartItem = {i1, i2}
  OrderId = {o1, o2}
  RowOf <- SharedRowOf
  MaxQty = 1
  InitStock <- SharedInitStock
  Tx = {t1, t2}
  NoTx = NoTx
  NoOrder = NoOrder
  DateLock = DateLock
  CreatedAt <- MCCreatedAt
  Admin = {"unavailable"}
  Started = {"checkout", "cancel", "expire", "confirm", "complete", "clear"}
SYMMETRY Symmetry
INVARIANT
  TxTypeOK
  DecisionStillHolds
PROPERTY
  Serializable
