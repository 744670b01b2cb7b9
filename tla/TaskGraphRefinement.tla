-------------------------- MODULE TaskGraphRefinement --------------------------
(* The workflow engine implements TaskGraph in one run of execute_plan: a task is    *)
(* running while its coroutine is inside _execute_task, whatever its recorded status *)
(* says, and otherwise what that status says.                                        *)
EXTENDS WorkflowEngine

Phase(t) ==
  IF pc[t] \notin {"idle", "done"} THEN "running"
  ELSE IF snap.tstatus[t] = "success" THEN "done"
  ELSE IF snap.tstatus[t] = "failed" THEN "failed" ELSE "waiting"

Graph == INSTANCE TaskGraph WITH
  Optional <- Guarded,
  plan <- snap.plan,
  phase <- [t \in Tasks |-> Phase(t)],
  outcome <- result

\* The engine, with its pauses, cancellations, retries, conditions, generated tasks and
\* rollback, runs the plan as TaskGraph says (_run_until_terminal, _execute_task).
ImplementsTaskGraph == Graph!Spec
=============================================================================
