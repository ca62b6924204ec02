SPECIFICATION Spec
CONSTANTS
  r1 = r1
  j1 = j1
  s1 = s1
  Requests <- OneRequest
  Jobs <- OneJob
  Subscribers <- OneSubscriber
  MaxRetries = 1
  MaxClaims = 3
  BufferSize = 1
  MaxFaults = 3
INVARIANT TypeOK
INVARIANT OneReport
INVARIANT Delivered
PROPERTY ReportsAreTrue
CHECK_DEADLOCK FALSE
