SPECIFICATION Spec
CONSTANTS
  Ids = {i1, i2}
  Values = {v1, v2, v3}
  None = None
  Queries = {q1}
  Filtered = {q1}
  Wanted = {v1, v2}
  Listeners = {l1}
  MaxWrites = 3
  MaxDrops = 2
  MaxCrashes = 0
  MaxErrors = 0
  Leaves = FALSE
  ServerYields = FALSE
  ClientYields = FALSE
INVARIANT NothingSkipped
INVARIANT CheckpointHonest
PROPERTY QueriesSettle
CHECK_DEADLOCK FALSE
