CONSTANTS
  Zero = Zero
  NoUpload = NoUpload
  NoLen = NoLen
  NoReq = NoReq
  NoId = NoId
  Bytes <- Uploaders
  Reqs = {r1, r2}
  Ids = {a, b, c}
  MaxLen = 1
  MaxSize = 0
  Locking = TRUE
  Enabled = {"concatenation", "cleanup-concat-partials", "termination"}
  ChosenIds = {}
  Listening = FALSE
  Sizes <- OneOrNone
  FinalLists <- Pairs
VIEW Unobserved
SYMMETRY FullSymmetry
SPECIFICATION Spec
INVARIANTS FinalIsConcatenation
PROPERTIES CleanupAfterAssembly
