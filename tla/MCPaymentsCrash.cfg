SPECIFICATION FairPaySpec
CONSTANTS
  u1 = u1
  p1 = p1
  i1 = i1
  o1 = o1
  o2 = o2
  q1 = q1
  q2 = q2
  c1 = c1
  c2 = c2
  h1 = h1
  h2 = h2
  User = {u1}
  NoUser = NoUser
  Product = {p1}
  CartItem = {i1}
  OrderId = {o1}
  RowOf <- MCRowOf
  MaxQty = 1
  InitStock <- MCInitStock
  PaymentId = {q1}
  NoPayment = NoPayment
  NoOrder = NoOrder
  Attested = {}
  Client = {c1}
  Hook = {h1}
  Sends = {"pending", "settlement"}
  MaxErrors = 0
  MaxCrashes = 1
PROPERTY
  SuccessDecidesOrder
