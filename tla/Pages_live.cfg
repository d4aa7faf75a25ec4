SPECIFICATION PagesSpec
CONSTANTS
  Ids = {1, 2, 3, 4, 5}
  Keys = {1, 2}
  PageSize = 2
  MaxPageWrites = 2
  MaxMoves = 5
  Hasty = FALSE
  Adrift = FALSE
INVARIANTS PageHonest TurnsTile
CHECK_DEADLOCK FALSE
