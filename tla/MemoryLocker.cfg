CONSTANTS
  Reqs = {r1, r2, r3}
  Ids = {a, b}
  NoId = NoId
SPECIFICATION FairSpec
INVARIANTS TypeOK Exclusive
PROPERTIES LeaksOnlyAtBusyMutex AcquireReturns ReleaseReturns
