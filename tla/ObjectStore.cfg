CONSTANTS
  Reqs = {r1, r2}
  Clouds = {"s3", "gcs", "azure"}
  PartNames <- FourParts
  TmpNames <- FiveTmps
  SourceNames <- FivePartials
  SourceBytes <- FivePartialsBytes
  Batch = 2
  MinPart = 2
  Piece = 2
  MaxLen = 3
  Sizes <- LengthsOrNone
  ChunkLens = {1, 2}
  Kinds = {"plain", "final"}
  MaxFaults = 1
  MaxTaken = 2
  Absent = Absent
  NoLen = NoLen
  NoReq = NoReq
SYMMETRY Symmetry
SPECIFICATION Spec
INVARIANTS TypeOK ToldBytesStored PartialsKept MultipartLegal
PROPERTIES DownloadIsWhole
CHECK_DEADLOCK FALSE
