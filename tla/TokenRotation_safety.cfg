SPECIFICATION Spec
CONSTANTS
  u1 = u1
  b1 = b1
  t1 = t1
  t2 = t2
  t3 = t3
  c1 = c1
  c2 = c2
  c3 = c3
  Users <- OneUser
  Browsers <- OneBrowser
  Tokens <- ThreeTokens
  Calls <- ThreeCalls
  NoToken = NoToken
  NoUser = NoUser
  MaxFaults = 1
  Events <- AllEvents
SYMMETRY Symmetry
INVARIANT SingleUse
INVARIANT RevocationHolds
INVARIANT DeniedIsUseless
CHECK_DEADLOCK FALSE
PROPERTY OneChainPerLogin
