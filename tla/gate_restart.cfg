\* The smallest instance that restarts: one line of the file, two processes.
CONSTANTS
  t1 = t1
  t2 = t2
  NoTarget = NoTarget
  NoTime = NoTime
  Target = {t1}
  TtlMs = 2
  MintTimes <- NoMint
  FileOps = {"append"}
  ClockMayStepBack = FALSE
  MaxClock = 1
  MaxRecords = 1
  MaxEpoch = 2
  MaxServed = 2
SPECIFICATION Spec
INVARIANTS
  OneShotAcrossRestarts
CHECK_DEADLOCK FALSE
