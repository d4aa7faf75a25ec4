SPECIFICATION Spec
CONSTANTS
  MaxSessions = 2
  MaxCalls = 4
  MaxLosses = 3
  MaxRefusals = 1
  Impatient = FALSE
  Offline = FALSE
  SlowCloses = FALSE
INVARIANTS  StatusHonest DisconnectHolds
PROPERTY Reconnects
CHECK_DEADLOCK FALSE
