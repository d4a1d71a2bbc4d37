CONSTANTS
  Reqs = {r1, r2}
  PartNames <- TwoParts
  MaxLen = 2
  Sizes <- UpToTwo
  ChunkLens = {1}
  FinalLen = 2
  Kinds = {"final"}
  MaxFaults = 0
  MaxCancels = 0
  Absent = Absent
  NoLen = NoLen
  NoReq = NoReq
SYMMETRY Symmetry
SPECIFICATION Spec
INVARIANTS FinalIsWhole
CHECK_DEADLOCK FALSE
