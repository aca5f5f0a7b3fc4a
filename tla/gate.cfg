\* Two corners (MCSealGateClock): the edits of FileOps across a restart, and every
\* clock and mint time beside the twin.
CONSTANTS
  t1 = t1
  t2 = t2
  NoTarget = NoTarget
  NoTime = NoTime
  Target = {t1, t2}
  TtlMs = 2
  MintTimes <- MintOrNot
  FileOps = {"append", "torn", "delete", "rewrite", "insert", "remove", "symlink"}
  ClockMayStepBack = TRUE
  MaxClock = 4
  MaxRecords = 2
  MaxEpoch = 2
  MaxServed = 3
SPECIFICATION ClockSpec
CONSTRAINT Corners
INVARIANTS
  TypeOK
  OneShot
  PruneChangesNoDecision
  ServedInTime
  IngestLosesNothing
  ExpiredStaysExpired
PROPERTIES
  ImplementsOneShot
SYMMETRY Symmetry
CHECK_DEADLOCK FALSE
