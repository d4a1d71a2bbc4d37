CONSTANTS
  Reqs = {r1, r2}
  Ids = {a}
  Adapters = {"axum", "actix", "rocket"}
  MaxLen = 2
  Bodies <- Pieces
  Bytes <- Places
  Zero = 0
  Capacity = 1
  Limit = 1
  MaxEmpty <- OneOfChecked
  MaxSize = 1
  Unlocked = {"axum"}
  Checked = {r1}
  Sizes <- NotYet
  Lengths = {1, 2}
  Broken = Broken
  Eof = Eof
  NoUpload = NoUpload
  NoLen = NoLen
  NoReq = NoReq
  NoId = NoId
  NoSum = NoSum
SPECIFICATION FairSpec
INVARIANTS TypeOK InOrder StoredIsFile
PROPERTIES WholeBodyOrNothing Ends
