CONSTANTS
  MaxBytes = 2
  Window = 1
SPECIFICATION FairSpec
INVARIANTS ReportFinal
PROPERTIES StreamSpec EndForwarded RelayEnds
CHECK_DEADLOCK FALSE
