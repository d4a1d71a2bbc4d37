CONSTANTS
  Reqs = {r1, r2}
  Ids = {a, b}
  Inodes = {i1, i2, i3, i4}
  NoId = NoId
  NoInode = NoInode
  NoReq = NoReq
SPECIFICATION FairSpec
INVARIANTS TypeOK LocksHaveHolders
PROPERTIES AcquireReturns GhostsLetGo
