CONSTANTS
  MaxChunks = 1
SPECIFICATION Spec
INVARIANTS ErrorReported
CHECK_DEADLOCK FALSE
