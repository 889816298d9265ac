SPECIFICATION Spec
CONSTANTS
  Runs <- TwoRuns
  Tasks = {"t"}
  TaskOf <- OneTask
  ReservationOf <- Distinct
  Policy <- ForbidAll
  Outcomes = {"completed", "cancelled"}
  MaxInflight = 2
  MaxRetained = 1
  Disturbances = {}
  MaxCrashes = 0
  Contended = TRUE
CHECK_DEADLOCK FALSE
PROPERTIES
  FirstTerminalWins
