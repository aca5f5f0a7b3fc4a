\* Generations 0 to 2, two principals, every store mounted at any time.
CONSTANTS
  Envelope <- Envelopes
  Registry <- Keys
  Allowed = {"call"}
  Mediator <- Mcp
  SignedConfig <- Config
  None = None
  Unavailable = Unavailable
  NoAnswer = NoAnswer
  MaxClock = 2
  MaxGeneration = 2
  MaxReleased = 3
  MaxExecuted = 2
SPECIFICATION Spec
INVARIANTS
  TypeOK
  ReplayNeedsRotation
  ExecutionsFollowGenerations
  RefusalsBurnNothing
PROPERTIES
  FreshEnvelopeServes
  ImplementsSingleUse
