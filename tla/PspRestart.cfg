SPECIFICATION Spec
CONSTANTS
  b1 = b1
  b2 = b2
  i1 = i1
  i2 = i2
  k1 = k1
  k2 = k2
  a1 = a1
  a2 = a2
  h1 = h1
  h2 = h2
  r1 = r1
  r2 = r2
  s1 = s1
  p1 = p1
  NoId = NoId
  Handlers = {h1}
  Reconcilers = {r1, r2}
  Callers = {h1, r1, r2}
  Slots = {s1}
  Pollers = {}
  Businesses = {b1}
  Invoices = {i1}
  PspKeys = {k1}
  AttemptIds = {a1}
  Tokens = {"tok_success", "tok_card_declined", "tok_timeout", "tok_network_error"}
  Amounts = {100}
  Owner <- OneOwner
  Total <- OneTotal
  KeysOf <- OneKey
  Batch = 1
  MaxPspRestarts = 1
SYMMETRY ReplicaSymmetry
INVARIANTS
  BooksMatchPsp
  IndInv
PROPERTIES
  TerminalAttemptFinal
  ImplementsMachine
