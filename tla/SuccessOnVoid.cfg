SPECIFICATION Spec
CONSTANTS
  b1 = b1
  b2 = b2
  i1 = i1
  i2 = i2
  k1 = k1
  k2 = k2
  a1 = a1
  a2 = a2
  h1 = h1
  h2 = h2
  r1 = r1
  r2 = r2
  s1 = s1
  p1 = p1
  NoId = NoId
  Handlers = {h1}
  Reconcilers = {r1}
  Callers = {h1, r1}
  Slots = {}
  Pollers = {}
  Businesses = {b1}
  Invoices = {i1}
  PspKeys = {k1}
  AttemptIds = {a1}
  Tokens = {"tok_success"}
  Amounts = {100}
  Owner <- OneOwner
  Total <- OneTotal
  KeysOf <- OneKey
  Batch = 1
  MaxPspRestarts = 0
INVARIANTS
  SuccessMarksPaid
