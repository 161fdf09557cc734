CONSTANTS
  Names <- TwoSpellings
  Canon <- OneField
  Shapes <- AllShapes
  Runs <- Pairs
  BufSize = 2
  MaxPieces = 2
SPECIFICATION FairSpec
INVARIANTS Aligned HeadersKept BuffersBounded TruncationVisible
PROPERTIES AnswerWhole LoopEnds
CHECK_DEADLOCK FALSE
