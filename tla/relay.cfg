\* Two lines each way, pipes of one piece, with fairness.
CONSTANTS
  MaxSent = 2
  MaxMade = 2
  PipeRoom = 1
SPECIFICATION FairSpec
INVARIANTS
  TypeOK
  LinesNeverInterleave
  RelayLosesNothing
PROPERTIES
  EveryLineArrives
  EofEndsTheProcess
