\* The four miniatures of the C leaf.
CONSTANTS
  ByteBits = 4
  N = 4
  L <- GroupOrder
  Low = 3
  FieldBits = 15
  D = 193
  X = 8512
  Y = 9
  I = 15645
  NoPoint = NoPoint
  NoAnswer = NoAnswer
  Hash <- MixHash
  Seeds <- OneSeed
  Messages <- TwoMessages
  Altered <- Variants
  Digests <- ExtremeDigests
  Scalars <- ExtremeScalars
  WordBytes = 2
  LengthShift = 2
  Rounds = 80
  K <- RoundConstants
  IV <- StartBytes
  BigSigma0 <- RotateA
  BigSigma1 <- RotateE
  SmallSigma0 <- Expand15
  SmallSigma1 <- Expand2
  Texts <- SomeTexts
  Limbs = 4
  Width = 4
  Fold = 2
  Encodings <- SomeEncodings
  MaxOps = 3
SPECIFICATION LeafSpec
\* A reduction and a formula end.
CHECK_DEADLOCK FALSE
INVARIANTS
  TypeOK
  MemorySafe
  Ladder
  AnswersTheEquation
  NotMalleable
  SignedIsAccepted
  ReductionIsExact
  HashIsStandard
  FieldIsExact
