SPECIFICATION Spec
CONSTANTS
  u1 = u1
  b1 = b1
  t1 = t1
  t2 = t2
  t3 = t3
  c1 = c1
  c2 = c2
  c3 = c3
  Users <- OneUser
  Browsers <- OneBrowser
  Tokens <- ThreeTokens
  Calls <- TwoCalls
  NoToken = NoToken
  NoUser = NoUser
  MaxFaults = 0
  Events <- LogoutOnly
SYMMETRY Symmetry
PROPERTY RaceMeansRotated
CHECK_DEADLOCK FALSE
