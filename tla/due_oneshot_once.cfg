SPECIFICATION Spec
CONSTANTS
  GraceMin = 1
  GraceMax = 2
  OneshotGrace = 1
  Tasks = {"t"}
  Triggers <- OneShots
  Policies = {"skip"}
  Handlers = {"web resume"}
  Horizon = 6
  MaxManual = 1
CHECK_DEADLOCK FALSE
PROPERTIES
  OneShotOnce
