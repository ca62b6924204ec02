SPECIFICATION FairServe
CONSTANTS
  job = job
  slot = slot
  c1 = c1
  c2 = c2
  Jobs <- OneJob
  Slots <- OneSlot
  Connections <- TwoConnections
INVARIANT ServeTypeOK
INVARIANT NothingKilled
INVARIANT CleanExit
PROPERTY ShutdownEnds
CHECK_DEADLOCK FALSE
