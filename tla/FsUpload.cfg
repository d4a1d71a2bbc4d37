CONSTANTS
  Reqs = {r1, r2}
  PartNames <- ThreeParts
  MaxLen = 3
  Sizes <- LengthsOrNone
  ChunkLens = {1, 2}
  FinalLen = 2
  Kinds = {"plain", "final"}
  MaxFaults = 1
  MaxCancels = 1
  Absent = Absent
  NoLen = NoLen
  NoReq = NoReq
SYMMETRY Symmetry
SPECIFICATION Spec
INVARIANTS TypeOK PartsMatchOffset ToldBytesOnDisk OffsetWithinSize FinishedIsWhole NothingLeftBehind
PROPERTIES DownloadIsWhole PartsNeverRewritten
CHECK_DEADLOCK FALSE
