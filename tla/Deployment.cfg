CONSTANTS
  c1 = c1
  c2 = c2
  Callers <- Callers2
  Requests <- SomeRequests
  CliEnabled = TRUE
  JobKnown = TRUE
  MaxPolls = 2
  MaxRollbacks = 1
SPECIFICATION FairSpec
CHECK_DEADLOCK FALSE
INVARIANTS DeploymentTypeOK RollbackPlanned
PROPERTIES ProductionIsReal CallsAnswered
