SPECIFICATION FairSpec
CONSTANTS
  Entities = {e1, e2}
  ReadsYield = FALSE
  CommitsYield = FALSE
  MaxOverlap = 1
  MaxWrites = 2
  MaxDrops = 1
  MaxRejects = 1
  MaxViewErrors = 0
  MaxCrashes = 1
PROPERTY ImplementsPush
INVARIANT NoWriteLost
INVARIANT CacheConfirmed
INVARIANT OnePushInFlight
INVARIANT AnswerMatchesLocked
INVARIANT ReadYourWrites
PROPERTY ServerNeverReverts
PROPERTY EventuallySynced
CHECK_DEADLOCK FALSE
