-------------------------- MODULE MCWorkflowEngine --------------------------
(* Small plans for WorkflowEngine.                                         *)
EXTENDS TaskGraphRefinement, TLC

\* A plan a -> b, a -> c, where c has a condition on the output of a and b may
\* generate g, which runs after a and c; a and b have rollback tasks.  BushTasks adds
\* d after a: three tasks are then ready at once.
ForkTasks     == {"a", "b", "c", "g"}
ForkPlan      == {"a", "b", "c"}
ForkDeps      == "a" :> {} @@ "b" :> {"a"} @@ "c" :> {"a"} @@ "g" :> {"a", "c"}
ForkPosition  == "a" :> 0 @@ "b" :> 1 @@ "c" :> 2 @@ "g" :> 3
BushTasks     == ForkTasks \cup {"d"}
BushPlan      == ForkPlan \cup {"d"}
BushDeps      == "d" :> {"a"} @@ ForkDeps
BushPosition  == "d" :> 4 @@ ForkPosition
ForkGuardOn   == "c" :> "a"
ForkGenerated == "b" :> "g"
ForkUndoIds   == {"undo_a", "undo_b"}
ForkUndoOf    == "a" :> "undo_a" @@ "b" :> "undo_b"

\* Two tasks that do not depend on each other.
PairTasks     == {"a", "b"}
PairDeps      == "a" :> {} @@ "b" :> {}
PairPosition  == "a" :> 0 @@ "b" :> 1

\* A generated task that names a dependency outside the plan.
StrayTasks    == ForkTasks \cup {"elsewhere"}
StrayDeps     == "elsewhere" :> {} @@ "g" :> {"elsewhere"} @@ ForkDeps
StrayPosition == "elsewhere" :> 9 @@ ForkPosition

\* A chain a -> b.
ChainDeps     == "a" :> {} @@ "b" :> {"a"}

EmptyFunction == [t \in {} |-> t]
OnceEach      == [t \in Ids |-> 1]

\* Budgets of outside events.
Quiet         == [e \in Events |-> 0]
PauseCancel   == [Quiet EXCEPT !["pause"] = 1, !["cancel"] = 1]
CrashFault    == [Quiet EXCEPT !["crash"] = 1, !["fault"] = 1, !["rerun"] = 1, !["cancel"] = 1]
CrashResume   == [Quiet EXCEPT !["crash"] = 1, !["rerun"] = 1]
=============================================================================
