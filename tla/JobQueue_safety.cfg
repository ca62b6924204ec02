SPECIFICATION Spec
CONSTANTS
  w1 = w1
  w2 = w2
  p1 = p1
  p2 = p2
  j1 = j1
  j2 = j2
  j3 = j3
  Job = {j1, j2, j3}
  Worker = {w1, w2}
  Process = {p1, p2}
  ProcessOf <- TwoProcesses
  Handles <- Skewed
  MaxRetries <- OneRetry
  FollowUps <- Cascade
  Delays = {0, 2}
  LockFor = 3
  BackoffCap = 2
  Horizon = 1
  MaxFaults = 2
  SlowHandlers = FALSE
  Stalls = FALSE
  Nobody = Nobody
  Command = Command
  NoJob = NoJob
INVARIANTS
  TypeOK
  SoleHolder
  EffectsMatchRow
  Budgeted
  FollowUpsOfCommitted
PROPERTIES
  KeepsPromise
