CONSTANTS
  h1 = h1
  h2 = h2
  c1 = c1
  pusher = pusher
  Handlers <- OneHandler
  Controllers <- OneController
  Pusher = pusher
  Kinds <- TunnelOnly
  MaxSess = 1
  MaxTime = 0
  MaxCmds = 1
  Retention = 0
SPECIFICATION Spec
PROPERTIES RemovedStaysRemoved
CHECK_DEADLOCK FALSE
