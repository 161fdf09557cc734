CONSTANTS
  h1 = h1
  h2 = h2
  c1 = c1
  pusher = pusher
  Handlers <- OneHandler
  Controllers <- OneController
  Pusher = pusher
  Kinds <- AllKinds
  MaxSess = 2
  MaxTime = 1
  MaxCmds = 1
  Retention = 0
SPECIFICATION FairSpec
INVARIANTS CloseAllSticks
PROPERTIES NoActiveEvicted ChildrenReached ClosedIsCollected ClosedTunnelEnds LifecycleSpec
CHECK_DEADLOCK FALSE
