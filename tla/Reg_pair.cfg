CONSTANTS
  h1 = h1
  h2 = h2
  c1 = c1
  pusher = pusher
  Handlers <- TwoHandlers
  Controllers <- NoController
  Pusher = pusher
  Kinds <- AllKinds
  MaxSess = 3
  MaxTime = 1
  MaxCmds = 0
  Retention = 0
SPECIFICATION Spec
INVARIANTS ActiveIsServed ParentPresent
CHECK_DEADLOCK FALSE
