CONSTANTS
  c1 = c1
  c2 = c2
  r1 = r1
  n1 = n1
  n2 = n2
  boot = boot
  Clients <- TwoTabs
  Requests <- OneRequest
  Boot = boot
  Nodes = {n1, n2}
  Tables <- GoodOrBad
  NoTable <- EmptyTable
  DiskFails = TRUE
  MaxSaves = 2
  MaxCrashes = 1
SPECIFICATION FairSpec
INVARIANTS DiskWhole MemoryIsSaved NoMissingNode
PROPERTIES SaveAnswered LoneSavesRouted
CHECK_DEADLOCK FALSE
