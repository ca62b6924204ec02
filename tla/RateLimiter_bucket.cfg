SPECIFICATION Spec
CONSTANTS
  r1 = r1
  r2 = r2
  Requests <- TwoRequests
  Specs <- ShortLongAndBad
  Longest = 7
  DropAfter = 5
  Delay = 1
INVARIANT TypeOK
INVARIANT LimitHolds
PROPERTY RefusalIsEarned
