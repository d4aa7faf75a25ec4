SPECIFICATION Spec
CONSTANTS
  Subs = {s1}
  Fetches = {f1}
  Policies = {"local-first", "local-and-remote"}
  MaxWrites = 1
  MaxFaults = 1
  Fails = TRUE
  Leaves = TRUE
  Overlap = FALSE
INVARIANTS LoadedHonest FetchComplete
PROPERTY FetchReturns
CHECK_DEADLOCK FALSE
