SPECIFICATION FairSystem
CONSTANTS
  f1 = f1
  Fetches <- OneFetch
  MaxRetries = 1
  Account = Account
  Browser = Browser
  Tokens <- ThreeTokens
  Calls <- TwoCalls
  NoToken = NoToken
  NoUser = NoUser
  MaxTroubles = 1
INVARIANT SystemTypeOK
INVARIANT SessionIsReal
INVARIANT Tended
PROPERTY StaysSignedIn
PROPERTY GhostsEnd
PROPERTY WaitingEnds
CHECK_DEADLOCK FALSE
