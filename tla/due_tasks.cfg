SPECIFICATION FairSpec
CONSTANTS
  GraceMin = 1
  GraceMax = 2
  OneshotGrace = 1
  Tasks = {"t"}
  Triggers <- Cursors
  Policies = {"skip", "catch_up_once", "fire_now"}
  Handlers = {"pause", "web resume", "tool resume", "update", "delete", "manual", "crash"}
  Horizon = 5
  MaxManual = 1
CHECK_DEADLOCK FALSE
INVARIANTS
  TypeOK
  NoEarlyFire
  ManualOnce
PROPERTIES
  WindowsInOrder
  DueIsServed
