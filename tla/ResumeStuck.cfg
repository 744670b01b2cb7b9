CONSTANTS
  Tasks <- PairTasks
  InitialPlan <- PairTasks
  Deps <- ChainDeps
  Position <- PairPosition
  Guarded = {}
  GuardOn <- EmptyFunction
  HoldWhenSkipped = {}
  Generators = {}
  Generated <- EmptyFunction
  Undoable = {}
  UndoIds = {}
  UndoOf <- EmptyFunction
  MaxAttempts <- OnceEach
  PolicyAttempts = 2
  MaxParallel = 2
  FailFast = TRUE
  RollbackOnFailure = FALSE
  Flaky = {"a"}
  Unregistered = {}
  Main = Main
  Clients = {"caller"}
  Budget <- CrashResume
SPECIFICATION Spec
CHECK_DEADLOCK FALSE
INVARIANTS
  EscalationHasCause
