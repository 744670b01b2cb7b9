------------------------------- MODULE TaskGraph -------------------------------
(***************************************************************************)
(* What one run of the workflow engine promises about the tasks of a plan, *)
(* without coroutines, checkpoints, retries, controls or a DAG: tasks run  *)
(* in batches of bounded size, each after the tasks it depends on, a       *)
(* failure stops new batches, and the run only ends when nothing runs.     *)
(***************************************************************************)
EXTENDS FiniteSets, Naturals

CONSTANTS
  Tasks, InitialPlan,     \* all tasks, and those of the submitted plan
  Deps,                   \* [Tasks -> SUBSET Tasks]
  Optional,               \* tasks that may be skipped
  Generators, Generated,  \* tasks that may add a task, and which
  MaxParallel,            \* the largest batch
  FailFast                \* a failure stops new batches

VARIABLES
  plan,     \* the tasks of the plan
  phase,    \* the phase of each task
  outcome   \* how the run ended

vars == <<plan, phase, outcome>>

Running == {t \in Tasks : phase[t] = "running"}
Done == {t \in Tasks : phase[t] = "done"}
Failed == {t \in Tasks : phase[t] = "failed"}
Waiting == {t \in plan : phase[t] = "waiting"}

Init ==
  /\ plan = InitialPlan
  /\ phase = [t \in Tasks |-> "waiting"]
  /\ outcome = "none"

\* A batch starts when nothing runs.
Start ==
  /\ outcome = "none" /\ Running = {}
  /\ FailFast => Failed = {}
  /\ \E batch \in SUBSET (Waiting \cup Failed) :
       /\ batch # {} /\ Cardinality(batch) <= MaxParallel
       /\ \A t \in batch : Deps[t] \subseteq Done
       /\ phase' = [t \in Tasks |-> IF t \in batch THEN "running" ELSE phase[t]]
  /\ UNCHANGED <<plan, outcome>>

\* A task succeeds, and may add one to the plan whose dependencies are known, or fails.
Return(t) ==
  /\ t \in Running
  /\ \/ /\ phase' = [phase EXCEPT ![t] = "done"]
        /\ \/ UNCHANGED plan
           \/ /\ t \in Generators /\ Deps[Generated[t]] \subseteq plan
              /\ plan' = plan \cup {Generated[t]}
     \/ phase' = [phase EXCEPT ![t] = "failed"] /\ UNCHANGED plan
  /\ UNCHANGED outcome

\* Tasks whose condition does not hold count as done without having run.
Skip ==
  /\ outcome = "none" /\ Running = {}
  /\ \E S \in SUBSET (Waiting \cap Optional) :
       phase' = [t \in Tasks |-> IF t \in S THEN "done" ELSE phase[t]]
  /\ UNCHANGED <<plan, outcome>>

\* A cancellation gives up on every task that has not started.
Abandon ==
  /\ outcome = "none"
  /\ phase' = [t \in Tasks |-> IF t \in Waiting THEN "failed" ELSE phase[t]]
  /\ UNCHANGED <<plan, outcome>>

\* The run ends once nothing runs, and is a success only if the whole plan is done.
Conclude ==
  /\ outcome = "none" /\ Running = {}
  /\ outcome' \in {"workflow.completed", "workflow.failed", "workflow.escalated"}
  /\ outcome' = "workflow.completed" => plan \subseteq Done
  /\ UNCHANGED <<plan, phase>>

Next == Start \/ (\E t \in Tasks : Return(t)) \/ Skip \/ Abandon \/ Conclude

Spec == Init /\ [][Next]_vars
=============================================================================
