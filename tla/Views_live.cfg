SPECIFICATION Spec
CONSTANTS
  Ids = {1,2}
  Attrs = {a, b}
  a = a
  b = b
  Inserted <- MCInserted
  Updated <- MCUpdated
  Values = {1, 2}
  None = None
  Queries = {q1,q2,q3}
  Filtered = {q1}
  Key = a
  Wanted = {1}
  Limited = {q3}
  Limit = 1
  Refetched = {q2}
  Listeners = {l1,l2}
  MaxWrites = 2
  Reinserts = FALSE
  Upserts = FALSE
  EarlyUnsubscribe = FALSE
INVARIANT NoChangeMissed
INVARIANT ListenersFollow
PROPERTY ListenersSettle
CHECK_DEADLOCK FALSE
