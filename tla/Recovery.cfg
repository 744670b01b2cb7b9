CONSTANTS
  t1 = t1
  t2 = t2
  Tasks <- TwoTasks
  SeenCategories <- TwoCategories
  Artifact <- SameArtifact
  Registered <- SystemStrategy
  MaxAttempts = 2
  MaxRecoveryAttempts = 3
  FailureLoopThreshold = 4
SPECIFICATION FairSpec
CHECK_DEADLOCK FALSE
INVARIANTS RecoveryTypeOK LoopBroken RetryEarned
PROPERTIES FailuresAnswered
