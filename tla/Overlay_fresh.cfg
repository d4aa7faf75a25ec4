SPECIFICATION Spec
CONSTANTS
  Ids = {i1}
  Attrs = {a, b}
  Values = {v1, v2}
  None = None
  Reinserts = FALSE
  Upserts = FALSE
  BlindWrites = FALSE
  ResendRejects = FALSE
  SharedValues = FALSE
INVARIANT TypeOK
INVARIANT CacheTracksServer
PROPERTY ImplementsSnapshots
PROPERTY WritesShow
CHECK_DEADLOCK FALSE
