CONSTANTS
  c1 = c1
  c2 = c2
  Callers <- Callers1
  Requests <- ProductionRequests
  CliEnabled = TRUE
  JobKnown = FALSE
  MaxPolls = 2
  MaxRollbacks = 0
SPECIFICATION Spec
CHECK_DEADLOCK FALSE
INVARIANT ProductionNotPretended
