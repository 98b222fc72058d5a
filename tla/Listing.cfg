SPECIFICATION FairSpec
CONSTANTS
  any = any
  Ids = {1, 2, 3}
  States = {"draft", "open", "paid"}
  Filters = {any, "open"}
  NoFilter = any
  Limits <- Requested
  DefaultLimit = 2
  MaxLimit = 2
  MaxTime = 2
INVARIANTS
  TypeOK
  Descending
  Complete
  Traversal
PROPERTIES
  Terminates
