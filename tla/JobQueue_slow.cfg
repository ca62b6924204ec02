SPECIFICATION Spec
CONSTANTS
  w1 = w1
  w2 = w2
  p1 = p1
  p2 = p2
  j1 = j1
  j2 = j2
  j3 = j3
  Job = {j1, j2}
  Worker = {w1, w2}
  Process = {p1, p2}
  ProcessOf <- TwoProcesses
  Handles <- AllHandled
  MaxRetries <- OneRetry
  FollowUps <- Independent
  Delays = {0, 2}
  LockFor = 3
  BackoffCap = 2
  Horizon = 0
  MaxFaults = 0
  SlowHandlers = TRUE
  Stalls = FALSE
  Nobody = Nobody
  Command = Command
  NoJob = NoJob
INVARIANTS
  OneOutcome
