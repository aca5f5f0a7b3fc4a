\* Two threads, callers with any idea of the time, and fairness.
CONSTANTS
  h1 = h1
  h2 = h2
  r1 = r1
  n1 = n1
  n2 = n2
  NoRequest = NoRequest
  NoConfig = NoConfig
  NoToken = NoToken
  NoNow = NoNow
  NoThread = NoThread
  NoSession = NoSession
  Request = {r1}
  Thread = {h1, h2}
  Config <- OneConfig
  Token <- EarlyAndLate
  HonestClock = FALSE
  MaxClock = 2
  MaxCalls = 6
  MaxLives = 1
SPECIFICATION FairSpec
INVARIANTS
  TypeOK
  NoApprovalLost
PROPERTIES
  ImplementsSingleUse
  EveryCallReturns
