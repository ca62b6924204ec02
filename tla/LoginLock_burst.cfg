SPECIFICATION FairSpec
CONSTANTS
  r1 = r1
  r2 = r2
  r3 = r3
  Requests <- ThreeRequests
  Threshold = 3
  Window = 2
  LockDuration = 3
  Quick = TRUE
INVARIANT TypeOK
INVARIANT BurstLocks
PROPERTY LockEnds
PROPERTY LockIsNotProlonged
