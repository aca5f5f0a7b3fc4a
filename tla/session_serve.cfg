\* One thread and an honest clock, as in serve; and the transport around a session.
CONSTANTS
  h1 = h1
  h2 = h2
  r1 = r1
  n1 = n1
  n2 = n2
  NoRequest = NoRequest
  NoConfig = NoConfig
  NoToken = NoToken
  NoNow = NoNow
  NoThread = NoThread
  NoSession = NoSession
  Request = {r1}
  Thread = {h1}
  Config <- TwoConfigs
  Token <- Assorted
  HonestClock = TRUE
  MaxClock = 3
  MaxCalls = 6
  MaxLives = 2
  Line <- Lines
  Read <- Reads
  IoError = IoError
  MaxWire = 2
  NoTokenUsed = NoTokenUsed
  MaxEvents = 5
SPECIFICATION ServeSpec
\* A run of the transport ends.
CHECK_DEADLOCK FALSE
INVARIANTS
  SingleUse
  ChildOnlyTruncates
  OnlyLenientCallsEscape
PROPERTIES
  GoodTokenServes
