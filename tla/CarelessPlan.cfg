CONSTANTS
  Workflows = {"w1"}
  Plans <- CarelessPlans
  Texts <- MCTexts
  MaxParallel = 2
  MaxAttempts = 2
  MaxRestarts = 1
  MaxFaults = 1
SPECIFICATION Spec
INVARIANT OnlyFromDependencies
