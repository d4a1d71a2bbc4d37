CONSTANTS
  Reqs = {r1, r2, r3}
  Ids = {a, b}
  Mutexes = {m1, m2, m3}
  NoId = NoId
  NoMutex = NoMutex
SPECIFICATION FairSpec
INVARIANTS TypeOK Exclusive
PROPERTIES NoOvertaking Served
