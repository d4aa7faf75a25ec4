SPECIFICATION Spec
CONSTANTS
  Collections = {"posts", "authors"}
  Ids = {1, 2, 3, 4}
  Values <- AttrValues
  Pool <- Asked
  MaxRows = 4
INVARIANT FetchCorrect
CHECK_DEADLOCK FALSE
