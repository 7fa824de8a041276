SPECIFICATION Spec
CONSTANTS
  Workers = {w1}
  Requests = {r1}
  MaxTasks = 1
  MaxFailures = 6
INVARIANTS
  HealthMatchesFailures
  NoneForgotten
PROPERTY DecisionsStand
CHECK_DEADLOCK FALSE
