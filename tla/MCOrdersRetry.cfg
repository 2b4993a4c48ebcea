SPECIFICATION Spec
CONSTANTS
  u1 = u1
  u2 = u2
  p1 = p1
  i1 = i1
  i2 = i2
  i3 = i3
  o1 = o1
  o2 = o2
  o3 = o3
  User = {u1, u2}
  NoUser = NoUser
  Product = {p1}
  CartItem = {i1, i2, i3}
  OrderId = {o1, o2, o3}
  RowOf <- MCRowOf
  MaxQty = 2
  InitStock <- MCInitStock
SYMMETRY Symmetry
INVARIANT
  RetryAfterExpiry
