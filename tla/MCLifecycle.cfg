SPECIFICATION Spec
CONSTANTS
  i1 = i1
  i2 = i2
  m1 = m1
  m2 = m2
  m3 = m3
  Invoices = {i1, i2}
  Admins = {m1, m2, m3}
INVARIANTS
  TypeOK
  RowTellsItsPath
  NoStaleWin
PROPERTY
  ImplementsMachine
