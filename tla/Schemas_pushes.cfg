SPECIFICATION Spec
CONSTANTS
  Ids = {i1}
  Attrs = {"id", "a"}
  Id = "id"
  Types <- MCTypes
  IdType <- Text
  Values <- MCValues
  IdValue <- MCIdValue
  None <- MCNone
  NoSchema = NoSchema
  NoEntity = NoEntity
  Clients = {c1}
  ClientSchemas <- MCClientSchemas
  Server = Server
  MaxPushes = 2
  MaxWrites = 1
  Careful = TRUE
INVARIANTS TypeOK  SyncingFit WritesLand
CHECK_DEADLOCK FALSE
