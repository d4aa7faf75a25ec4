SPECIFICATION FairSpec
CONSTANTS
  Entities = {e1}
  ReadsYield = TRUE
  CommitsYield = TRUE
  MaxOverlap = 2
  MaxWrites = 2
  MaxDrops = 1
  MaxRejects = 0
  MaxViewErrors = 1
  MaxCrashes = 0
 
PROPERTY PushSettles
CHECK_DEADLOCK FALSE
