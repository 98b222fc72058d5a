SPECIFICATION Spec
CONSTANTS
  b1 = b1
  b2 = b2
  p1 = p1
  p2 = p2
  p3 = p3
  x = x
  y = y
  k1 = k1
  k2 = k2
  k3 = k3
  c1 = c1
  c2 = c2
  i1 = i1
  r1 = r1
  r2 = r2
  NoEmail = NoEmail
  Businesses = {b1, b2}
  KeyPrefixes = {p1, p2, p3}
  Bodies = {x, y}
  SeedToken <- Seeds
  KeyIds = {k1, k2, k3}
  SeedId <- SeedIds
  CustomerIds = {c1, c2}
  Emails = {"a@x.io", "A@X.io"}
  Folded <- CitextFold
  InvoiceIds = {i1}
  Orders <- SomeOrders
  Requests = {r1, r2}
  MaxBigint = 7
SYMMETRY Symmetric
INVARIANTS
  TypeOK
  ActsForOwner
  OwnCustomers
  ExactTotals
  CreatedOnce
PROPERTIES
  RevokedByOwner
  RevokedForGood
