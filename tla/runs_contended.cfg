SPECIFICATION Spec
CONSTANTS
  Runs <- ThreeRuns
  Tasks = {"t"}
  TaskOf <- OneTask
  ReservationOf <- Distinct
  Policy <- ReplaceAll
  Outcomes = {"completed"}
  MaxInflight = 2
  MaxRetained = 1
  Disturbances = {}
  MaxCrashes = 0
  Contended = TRUE
CHECK_DEADLOCK FALSE
INVARIANTS
  SerialTask
  ResultIsDurable
PROPERTIES
  CancelSettles
