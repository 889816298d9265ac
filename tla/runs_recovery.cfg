SPECIFICATION FairSpec
CONSTANTS
  Runs <- TwoRuns
  Tasks = {"t"}
  TaskOf <- OneTask
  ReservationOf <- Distinct
  Policy <- ReplaceAll
  Outcomes = {"completed", "failed", "cancelled"}
  MaxInflight = 2
  MaxRetained = 1
  Disturbances = {"shutdown", "peer", "delete", "crash", "write error"}
  MaxCrashes = 1
  Contended = FALSE
CHECK_DEADLOCK FALSE
INVARIANTS
  TypeOK
  NoStrayRunning
PROPERTIES
  LedgerSpec
  Resolved
