CONSTANTS
  MaxChunks = 2
SPECIFICATION FairSpec
INVARIANTS NoUploadLeft SentIsFinal CaptureHonest ResponseReported
PROPERTIES CloseReturns BodyMoves
CHECK_DEADLOCK FALSE
