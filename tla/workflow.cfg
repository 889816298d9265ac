SPECIFICATION FairSpec
CONSTANTS
  Tasks = {"s1", "s2"}
  MaxRetries = 1
  MaxConcurrency = 2
  Texts <- UserText
  Others <- OtherResult
  Stops = {"interrupt", "cancel"}
CHECK_DEADLOCK FALSE
INVARIANTS
  TypeOK
  AttemptsExclude
  OwnResultsStay
PROPERTIES
  FinalizedStays
  MailTaken
