CONSTANTS
  Reqs = {r1, r2, r3}
  Ids = {a}
  Inodes = {i1, i2, i3, i4}
  NoId = NoId
  NoInode = NoInode
  NoReq = NoReq
SPECIFICATION Spec
INVARIANTS Exclusive
