CONSTANTS
  c1 = c1
  c2 = c2
  r1 = r1
  n1 = n1
  n2 = n2
  boot = boot
  Clients <- TwoTabs
  Requests <- NoRequest
  Boot = boot
  Nodes = {n1, n2}
  Tables <- ThreeTables
  NoTable <- EmptyTable
  DiskFails = FALSE
  MaxSaves = 2
  MaxCrashes = 0
SPECIFICATION Spec
INVARIANTS RouterFollowsConfig
CHECK_DEADLOCK FALSE
