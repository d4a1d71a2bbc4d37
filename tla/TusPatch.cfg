CONSTANTS
  Zero = Zero
  NoUpload = NoUpload
  NoLen = NoLen
  NoReq = NoReq
  NoId = NoId
  Bytes <- Uploaders
  Reqs = {r1, r2}
  Ids = {a}
  MaxLen = 2
  MaxSize = 0
  Locking = TRUE
  Enabled = {"creation-with-upload", "creation-defer-length", "termination", "download", "hooks", "expiration"}
  ChosenIds = {}
  Listening = FALSE
  Sizes <- ZeroTwoOrNone
  FinalLists <- NoLists
SPECIFICATION FairSpec
INVARIANTS TypeOK OffsetCountsBytes ReportedBytesKept
PROPERTIES WrittenBytesKept NothingAfterTerminated ImplementsService Answered
