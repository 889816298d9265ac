SPECIFICATION Spec
CONSTANTS
  Runs <- FourRuns
  Tasks = {"t", "u"}
  TaskOf <- TwoTasks
  ReservationOf <- Resubmitted
  Policy <- AllowAndForbid
  Outcomes = {"completed"}
  MaxInflight = 1
  MaxRetained = 1
  Disturbances = {}
  MaxCrashes = 0
  Contended = FALSE
CHECK_DEADLOCK FALSE
INVARIANTS
  InflightBound
  OneLiveRunPerReservation
