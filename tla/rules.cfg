\* Lines of at most nine tokens; policies of at most three rules, at most two
\* approvals, restarts.
CONSTANTS
  Document <- Documents
  Matcher <- Matchers
  Request <- Requests
  ScalarAt <- Scalars
  Absent = Absent
  NotAnObject = NotAnObject
  NotRunning = NotRunning
  NoAnswer = NoAnswer
  MaxEndorsed = 2
  WireStrings <- SomeStrings
  WireNumbers <- SomeNumbers
  WireUnsafe <- OddOne
  MaxExponentDigits = 1
  MaxSignificantDigits = 2
  MaxTokens = 9
SPECIFICATION PathSpec
\* A line ends, at the bound too.
CHECK_DEADLOCK FALSE
INVARIANTS
  TypeOK
  ResolvesByPrecedence
  GatesAreExact
PROPERTIES
  ApprovalIsForOneCall
  ApprovedCallIsServed
