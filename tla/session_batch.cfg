\* The transport of session_serve, against a comment of its source.
CONSTANTS
  h1 = h1
  h2 = h2
  r1 = r1
  n1 = n1
  n2 = n2
  NoRequest = NoRequest
  NoConfig = NoConfig
  NoToken = NoToken
  NoNow = NoNow
  NoThread = NoThread
  NoSession = NoSession
  Request = {r1}
  Thread = {h1}
  Config <- TwoConfigs
  Token <- Assorted
  HonestClock = TRUE
  MaxClock = 3
  MaxCalls = 6
  MaxLives = 2
  Line <- Lines
  Read <- Reads
  IoError = IoError
  MaxWire = 2
  NoTokenUsed = NoTokenUsed
  MaxEvents = 2
SPECIFICATION ServeSpec
\* A run of the transport ends.
CHECK_DEADLOCK FALSE
INVARIANTS
  NoBatchEscapes
