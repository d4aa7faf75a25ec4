SPECIFICATION Spec
SYMMETRY Symmetry
CONSTANTS
  Ids = {i1}
  Attrs = {a, b}
  Values = {v1, v2}
  None = None
  Clients = {c1, c2}
  MaxTime = 4
  MaxWrites = 2
  MaxRestarts = 1
  MaxDrops = 1
  Ties = FALSE
  StepsBack = FALSE
  ServerYields = FALSE
INVARIANTS TypeOK AckedApplied Converged StampsGrow
CHECK_DEADLOCK FALSE
