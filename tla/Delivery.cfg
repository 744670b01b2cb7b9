CONSTANTS
  Workflows = {"w1", "w2"}
  Plans <- MCPlans
  Texts <- MCTexts
  MaxParallel = 2
  MaxAttempts = 2
  MaxRestarts = 1
  MaxFaults = 1
SPECIFICATION FairSpec
CHECK_DEADLOCK FALSE
INVARIANTS
  DeliveryTypeOK
  DeployedWasApproved
  GeneratedIsVerified
PROPERTIES
  DeliveriesEnd
