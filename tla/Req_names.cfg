CONSTANTS
  Names <- TwoSpellings
  Canon <- OneField
  Shapes <- AllShapes
  Runs <- Pairs
  BufSize = 2
  MaxPieces = 2
SPECIFICATION Spec
INVARIANTS NamesKept
CHECK_DEADLOCK FALSE
