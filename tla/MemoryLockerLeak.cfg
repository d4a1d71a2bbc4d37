CONSTANTS
  Reqs = {r1, r2}
  Ids = {a}
  NoId = NoId
SPECIFICATION Spec
PROPERTIES FreedByNextAcquire
