\* One thread, an honest clock, and a nonce that was signed twice.
CONSTANTS
  h1 = h1
  h2 = h2
  r1 = r1
  n1 = n1
  n2 = n2
  NoRequest = NoRequest
  NoConfig = NoConfig
  NoToken = NoToken
  NoNow = NoNow
  NoThread = NoThread
  NoSession = NoSession
  Request = {r1}
  Thread = {h1}
  Config <- OneConfig
  Token <- SameNonce
  HonestClock = TRUE
  MaxClock = 2
  MaxCalls = 5
  MaxLives = 1
SPECIFICATION Spec
INVARIANTS
  NonceRefused
