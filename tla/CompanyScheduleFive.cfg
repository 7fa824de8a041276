SPECIFICATION Spec
CONSTANTS
  Workers = {w1}
  Requests = {}
  MaxTasks = 1
  MaxFailures = 6
INVARIANT FivePauses
CHECK_DEADLOCK FALSE
