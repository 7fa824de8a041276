SPECIFICATION BothSpec
CONSTANTS
  Clients = {c1, c2, c3}
  Overstays = {}
  None = None
  Workers = {w1, w2}
  Requests = {}
  MaxTasks = 2
  MaxFailures = 5
INVARIANTS
  HoldersOwnTheKey
PROPERTIES
  ImplementsLease
  KeepsLease
  TasksScrape
CHECK_DEADLOCK FALSE
