SPECIFICATION Spec
CONSTANTS
  Ids = {i1}
  Values = {v1}
  None = None
  Queries = {q1, q2}
  Filtered = {q1}
  Wanted = {v1}
  Listeners = {l1, l2}
  MaxWrites = 1
  MaxDrops = 0
  MaxCrashes = 1
  MaxErrors = 1
  Leaves = TRUE
  ServerYields = TRUE
  ClientYields = FALSE
PROPERTY QueriesAnswered
PROPERTY NobodyLeft
CHECK_DEADLOCK FALSE
