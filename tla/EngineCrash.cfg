CONSTANTS
  Tasks <- StrayTasks
  InitialPlan <- ForkPlan
  Deps <- StrayDeps
  Position <- StrayPosition
  Guarded = {"c"}
  GuardOn <- ForkGuardOn
  HoldWhenSkipped = {}
  Generators = {"b"}
  Generated <- ForkGenerated
  Undoable = {"a", "b"}
  UndoIds <- ForkUndoIds
  UndoOf <- ForkUndoOf
  MaxAttempts <- OnceEach
  PolicyAttempts = 2
  MaxParallel = 2
  FailFast = TRUE
  RollbackOnFailure = TRUE
  Flaky = {"b", "undo_a"}
  Unregistered = {"c"}
  Main = Main
  Clients = {"caller"}
  Budget <- CrashFault
SPECIFICATION Spec
CHECK_DEADLOCK FALSE
INVARIANTS
  TypeOK
  CompletionIsHonest
  RollbackComplete
  ResultStored
PROPERTIES
  CompletedNotRerun

