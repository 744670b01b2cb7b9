CONSTANTS
  Tasks <- BushTasks
  InitialPlan <- BushPlan
  Deps <- BushDeps
  Position <- BushPosition
  Guarded = {"c"}
  GuardOn <- ForkGuardOn
  HoldWhenSkipped = {}
  Generators = {"b"}
  Generated <- ForkGenerated
  Undoable = {"a", "b"}
  UndoIds <- ForkUndoIds
  UndoOf <- ForkUndoOf
  MaxAttempts <- OnceEach
  PolicyAttempts = 2
  MaxParallel = 2
  FailFast = TRUE
  RollbackOnFailure = TRUE
  Flaky = {"c"}
  Unregistered = {}
  Main = Main
  Clients = {"caller"}
  Budget <- PauseCancel
SPECIFICATION FairSpec
CHECK_DEADLOCK FALSE
INVARIANTS
  ConditionRespected
  EscalationHasCause
  GeneratedTasksRun
  ParallelismBounded
  DependenciesSucceeded
  NothingLeftRunning
PROPERTIES
  Termination
  RollbackReversed
  CancelledIsFinal
  CancelHonoured
  ImplementsTaskGraph
