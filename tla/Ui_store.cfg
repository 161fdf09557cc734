CONSTANTS
  MaxSess = 3
  MaxConns = 1
  MaxHist = 2
  MaxBreaks = 1
  MaxRestarts = 1
  MaxClears = 1
  MaxLogins = 1
SPECIFICATION FairSpec
INVARIANTS HistoryMatchesSet
PROPERTIES FiledWhenGone LiveSocketKept GhostGoes Reconnects
CHECK_DEADLOCK FALSE
