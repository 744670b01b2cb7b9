# Formal verification of the Salesforce Apex Forge backend

This directory holds TLA+ specifications of `src/src/salesforce_ai_engineer`, the TLC
configurations that model-check them on small instances, and theorems about them whose
proofs TLAPS checks. Paths below are relative to that package unless they start with `src/`.

## 1. The system

A natural-language request is planned into an `ExecutionPlan`, a directed acyclic graph of
tasks, and the workflow engine executes the plan: it schedules the tasks, calls the agents
that do them (planner, Salesforce engineer, verifier, deployment), retries failed ones on the
advice of the recovery agent, checkpoints every change so that a crashed workflow can be
resumed, and rolls completed tasks back when the workflow fails. An HTTP API starts, pauses,
resumes and cancels workflows. Everything runs in one process, on one asyncio event loop; the
memory store runs its SQL statements in a thread pool.

| Component | State it keeps | Operations | Talks to |
| --- | --- | --- | --- |
| Workflow engine (`workflow/engine.py`) | live snapshots, DAGs, pause and cancel requests, resume events | execute_plan, resume, restart, pause, resume_paused, cancel, archive | agents, recovery, persistence, state manager, event bus |
| Task DAG (`workflow/dag.py`) | edges, completed ids | add_task, add_generated_task, mark_completed, ready_tasks | engine |
| Workflow persistence (`workflow/persistence.py`) | one record per workflow | save_snapshot, load_snapshot, save_task_history, archive_snapshot | memory store |
| Memory store and manager (`memory/`) | SQLite connection, lock, records, versions, tags | create, read, update, delete, restore_version, clear_expired, transactions | all agents |
| State manager (`core/state.py`) | a dict and its JSON file | get, set, update, delete | engine, orchestrator |
| Event bus (`core/events.py`) | handlers, bounded history | subscribe, unsubscribe, publish | everything |
| Recovery agent (`recovery/`) | failure counters, known signatures | handle_failure, execute_plan | engine (through `agent/adapters.py`), memory |
| Orchestrator and planner (`agent/`) | graph state of one run | run, resume | planner, engine, memory, reward learning |
| Deployment agent (`deployment/`) | deployments, rollback history | deploy, quick_deploy, monitor_progress, rollback | tools |
| Tool layer (`tools/`) | registry | execute with attempts and a timeout | agents, event bus |
| Error handling (`core/error_handling.py`) | breaker state, call times, active tasks | CircuitBreaker.call, RateLimiter.acquire, GracefulShutdown | nothing calls it yet |
| Salesforce engineer, verifier (`salesforce_engineer/`, `verifier/`, through `agent/adapters.py`) | files under force-app | generate artifacts, verify a plan's artifacts | memory, tools, event bus |
| Reward learning (`reward_learning/`) | metric records | evaluate a report, persist the evaluation | memory |
| HTTP API (`api/`) | background tasks | submit, status, pause, resume, cancel | orchestrator, engine |

### What is hard

* **Interleaving.** The main loop and the tasks of a batch share one mutable snapshot and are
  interrupted at every await; a pause, a resume or a cancellation may arrive at any of them.
  Both kinds of coroutine run the same `_handle_controls`.
* **Failure.** The store and every event handler may raise at any checkpoint. In the try block
  of `_execute_task` that is a failed attempt, elsewhere it leaves the coroutine half-way.
* **Crash and resume.** A new process continues from the last stored snapshot, whatever was in
  flight when it was stored.
* **Ordering.** Conditions and generated tasks change the plan while it is executed; rollback
  must run backwards over completions that happened in any order.
* **Shared connection.** The memory store writes through one connection and one transaction
  for all coroutines.
* **Two copies.** A snapshot is stored in the memory store and in a JSON file, by several
  coroutines and from deep copies; every reader takes the first it finds.
* **Nested retries.** An action of a recovery plan, the recovery agent, a tool and the engine
  each retry on their own, with a bound of their own.
* **Answers made up.** Where the Salesforce CLI is missing, authentication, deployment and its
  status are simulated, and several awaits later nobody may know which is which.
* **Shared files.** All workflows write into one force-app, before anything is verified.

### What makes each component correct

* Engine: dependencies before dependents; branches as their condition says; no more than
  `max_parallel_tasks` at once; success only of a finished plan; a completed task is not run
  again; the result of a run is what is stored; rollback complete and in reverse; a cancelled run
  starts nothing and ends; every run ends.
* Persistence and store: no update lost, one record per workflow, versions numbered without
  gaps, nothing half-written becomes durable.
* Event bus: every handler subscribed before an event sees it once, in order.
* Orchestration: an accepted workflow is always found, has one record, and comes to rest.
* Recovery: the loop threshold bounds what is done for a kind of failure; recursion ends; a
  retry is only advised after a plan that has succeeded.
* Delivery: what a deployment behind a verifier is handed has been approved in the same run; what
  is verified is what was generated.
* Deployment: production only over a real session; a rollback only of a failure; every call
  returns.
* Tool layer: at most `retries + 1` attempts; one response per request, its events in order.

The hazards of the code, each at its line, are listed in `PROJECT.json`.

## 2. Modules

| Module | Models |
| --- | --- |
| `TaskGraph` | the abstract specification of a run: tasks in bounded batches, each after its dependencies |
| `WorkflowEngine` | one workflow under `WorkflowExecutionEngine`, its DAG, its persisted snapshot and the calls from outside |
| `TaskGraphRefinement` | the refinement mapping from `WorkflowEngine` to `TaskGraph` |
| `WorkflowEngineProofs` | types, the inductive invariant, and what the engine remembers through every history: its record, what the store holds, rollback |
| `WorkflowRunProofs` | a run without crash, fault or rerun: statuses, cancellation, conditions, what it concludes, and that it implements `TaskGraph` |
| `Orchestration` | submitted workflows, the calls of clients, the stored copies of a snapshot, learning and history |
| `MemoryStore`, `MemoryStoreProofs` | coroutines that create, update and soft-delete records through one `SQLiteMemoryStore`, and what no commit can make durable |
| `Recovery` | failures of tasks handled by one `RecoveryAgent` |
| `Verifier` | type inference, strategies, analyzers, scores and verdict as operators |
| `SalesforceEngineer` | what the generators make, and the files it becomes; extends `Verifier` |
| `Delivery` | engineer, verifier and deployment tasks of workflows that share force-app; extends `SalesforceEngineer` |
| `Deployment` | calls of `DeploymentAgent` over a shared CLI helper |
| `EventBus` | handlers, history and deliveries of `core/events.py` |
| `ToolLayer` | tool requests from executor to response; instantiates `EventBus` |
| `RecoveryProofs`, `DeliveryProofs`, `DeploymentProofs`, `ToolLayerProofs`, `OrchestrationProofs` | the invariants of these modules and the theorems that follow |
| `MC...` | the small instances the configurations choose from |

How they fit together: to `WorkflowEngine` an agent is a task that answers or fails, recovery a
yes or no, a checkpoint a store operation that ends or raises. `Delivery`, `Recovery`,
`MemoryStore` and `Orchestration` are what happens behind those answers, `Deployment` is behind
the last task of a delivery, `ToolLayer` behind every file written and every call of the CLI.
`Orchestration` in turn reduces a run of the engine to batches and an outcome, and looks at what
the engine model excludes: several executions and copies of one workflow.

### WorkflowEngine and the code

An asyncio coroutine is not interrupted between two awaits, so an action is the code from one
await to the next, and `pc[c]` names the await at which coroutine `c` is parked. `Main` is
`execute_plan` with `_run_until_terminal` and `_rollback`; every task id is one `_execute_task`.

| Variable | Code |
| --- | --- |
| `snap` | the live `WorkflowSnapshot` with the status, attempts and output of its tasks |
| `disk` | the snapshot as persistence has it |
| `opening`, `writes` | the coroutines that wait for the store inside `save_snapshot` (or `load_snapshot` of `cancel`), and the dumps that are on their way into the record, each with its writer |
| `dagDone` | `DAG._completed`; edges are the constant `Deps` |
| `pc`, `cursor` | where the coroutines are; the reversed iteration of `_rollback` |
| `requests` | `_pause_requests` and `_cancel_requests` for this workflow |
| `result` | the terminal event `execute_plan` has published |
| `used` | how often each kind of outside event has happened, against `Budget` |

| Actions | Code |
| --- | --- |
| `Boundary` (`ControlsPass` ... `ResumeCheckpointed`) | `_handle_controls` and what follows it in either loop |
| `TaskStep` (`AgentSucceeds` ... `FailureSaved`) | `_execute_task`, `_handle_task_failure`, `_apply_dynamic_tasks` |
| `MainStep` (`Started`, `PlanBatch`, `Dispatch`, `BatchGathered` ...) | `execute_plan`, `_run_until_terminal`, `_apply_conditional_branches`, `_rollback` |
| `Pause`, `ResumePaused`, `Cancel`, `Resume`, `Restart`, `Restarted` | the calls of the same names |
| `Crash` | the process dies; only `disk` survives |
| `StoreStep` (`Dumped`, `Landed`) | `save_snapshot`: the record is found and the snapshot dumped; the UPDATE of `SQLiteMemoryStore.update` is executed |
| `TaskFault`, `MainFault`, `ClientFault` | the store or an event handler raises at the await a coroutine is parked at |

A checkpoint is `Save`, then `Dumped`, then `Landed`. `Save` is the call: the snapshot has changed
and the coroutine waits. `save_snapshot` awaits the search for the record before it dumps the
snapshot, which all coroutines share, so that others may have changed it meanwhile; `update` writes the
dump in the thread pool, outside the lock of the store. The dumps of several coroutines therefore
land in any order. A coroutine goes on when its own has (`Free`). `cancel` works on a copy: of the
live snapshot, taken when it is called, or of the stored one, taken when the store answers; the
copy is stored later, whatever has been stored since.

What the data is abstracted to: an output is the set of conditions that hold of it; a plan is a
set of ids with constant dependencies and positions; ids, titles, inputs, traces, metrics, times
and the version counter are left out.

Simplifications, all of them deliberate:

* One execution of a workflow at a time: `Resume` and `Restart` wait until no `execute_plan`
  is under way (`Quiescent`). The API does not enforce this; `Orchestration` has several.
* The engine has a memory manager, as `core/bootstrap.py:190` gives it (without one, as in tests,
  `save_snapshot` does not suspend and stores at once). The record exists: the first checkpoint has
  been stored, and its creation is in `Orchestration`. The versions an update writes besides are left
  to `MemoryStore`. A checkpoint that raises is a fault, before or after its UPDATE; one
  that has not landed then is dropped.
* The copy of a snapshot in the state file, written after the one in the store, is left to
  `Orchestration`, as is the version counter, which no reader compares.
* A task that succeeds stores its history and then its checkpoint; both are one stay at `saving`.
* The publication of an event is a possible exception of the publisher here; the bus is
  `EventBus`.
* A task generates at most one task, and a rollback task generates none.
* The publication of progress between `Dispatch` and the tasks does not raise.
* Plans have no cycles and no duplicate ids, which `ExecutionPlan` validates.
* `restart` runs with the default policy; here there is one policy.
* `cancelled_task_ids` is a set: the duplicate the code can append is not seen.
* `archive` is left out.

### MemoryStore and the code

`SQLiteMemoryStore` runs each SQL statement in a thread pool, on one connection. sqlite3 opens a
transaction at the first write and `commit` closes it for everybody: what one coroutine has
written the others see at once, and whichever commits makes all of it durable. An action is one
statement and the code up to the next; `pc[c]` names the statement coroutine `c` executes next.

| Variable | Code |
| --- | --- |
| `live`, `durable` | the tables as the connection sees them and as last committed: record rows, their tags, their content, their versions |
| `lock` | `AsyncRLock._owner` and `_count` |
| `pc`, `op` | where the operation is; its record, the row it has read, the version number it has chosen |
| `outcome` | returned, raised, or lost in a crash |

| Actions | Code |
| --- | --- |
| `CreateEntered`, `ExistenceChecked`, `RowInserted`, `TagInserted` | `create`, all under the lock, its SELECT and tag INSERT taking it again |
| `RecordRead`, `RowUpdated`, `HistoryRead`, `VersionInserted` | `update` with `read` and `get_history`; the UPDATE is the one statement without the lock |
| `RecordFound`, `StatusSet` | `delete(soft=True)` |
| `Crash` | the process dies, SQLite rolls the open transaction back, the next process goes on |

Each coroutine performs one operation. The content of a record is the set of updates it
contains: every coroutine changes a field of its own, while `update` writes every column from
the row it has read. A created record has one tag. Statements do not fail, but for the
UNIQUE constraint on version numbers; a coroutine is not cancelled inside an operation. Hard
delete and the transactions of a caller have no caller and are left out, as are
`restore_version`, the later tags and the searches.

### TaskGraph and its refinement

`TaskGraph` knows tasks that wait, run, are done or failed, a plan that may grow, and an outcome.
The mapping takes a task for running while its coroutine is inside `_execute_task`, whatever its
recorded status says (a cancellation may mark it FAILED meanwhile), and otherwise for what its
status says. Skipped tasks count as done, retries are not visible, a pause is a stutter. That a
task starts only with its dependencies done, that batches do not overlap, that a failure stops
new ones and that success is claimed of a whole plan all follow from `TaskGraph`, for every
control request the instance allows. Crashes and a resume are not part of it: they start anew.

### Orchestration and the code

A process is a coroutine: a workflow is its POST and then the background task that runs it, a
caller makes control calls one after the other. `pc` names what it awaits, `save` the await inside
`_checkpoint`: the search for the record, the write to the store, the write of the file.

| Variable | Code |
| --- | --- |
| `records` | the active EXECUTION_METRIC records of the memory store, last updated first, snapshots among the metrics of learning |
| `state` | the JSON file of `StateManager` |
| `active`, `copy`, `on` | `_active_snapshots`, and the status of the snapshot object each coroutine holds: `resume` and `cancel` hold deep copies |
| `cancels`, `pauses` | `_cancel_requests`, `_pause_requests` |
| `accepted`, `lost` | workflows answered 202, and those of them a later call did not find |
| `history`, `step` | the stored workflow history; batches or metrics still to do |

`Submit`, `Accept` are `_seed_pending_workflow` and `submit_workflow`; `Planned`, `PlanningFails`
the planner; `Boundary` to `End` the engine; `Learn`, `Learned`, `Remember` the report;
`Call`, `Requested`, `Loaded`, `Read` the routes; `Crash` and `StoreRaises` the faults: a crash in
`Flush` leaves a file that does not load. Metrics are stored with the category of the snapshots
and so use up the window (`Limit`, 10,000 in the code) in which snapshots are looked for.

### Recovery and the code

A task that failed calls `WorkflowRecoveryAdapter.recover`. `Assess` is `handle_failure` up to the
plan (`_check_failure_loop`, `assess_recoverability`, strategy), `StartPlan` to `AttemptStatus`
`execute_plan` of `recovery/executor.py` with the retries of an action, `Recurses` the call the
agent makes of itself after a partial success, `Learn`, `Return`, `Escalate`, `Raise`, `Answer` what
follows. `built` counts the plans per key (category and artifact), as `failure_counts` counts the
calls; every call of the process shares it and nothing resets it. The category of an error is a
choice; the built-in plans are those of the strategies, action by action, reduced to what running
an action can come to (`Outcomes`).

### Verifier, SalesforceEngineer, Delivery and the code

An artifact is what the verifier can tell apart: its form (text or dict), the words of the type
rules in its key and content, the bag of features the analyzers search for, the number of control
flow keywords and lines. On these `Verifier` computes exactly what the code does: the first rule
that matches gives the type, the type the strategy, the strategy the issues, the issues the
integer scores of a component, and sums over components the verdict. The regular expressions that
find a feature in a text are left out: a feature is there or not.

`SalesforceEngineer` gives every generator's artifact in these terms, under keys that are fresh
per generation (`uuid4`), and the paths its files get. `Delivery` passes them on, for the plans a
planner may write: any tasks of the three agents with any texts in their inputs, and any
dependencies without a cycle, which is all `ExecutionPlan` validates. `StartBatch` takes up to
`MaxParallel` ready tasks; `Starts` injects into the input of each what all completed tasks have
generated, where artifacts already there win. A task of a batch that never suspends may be done
before the next starts; one that writes files is not (`WriteFile`).
`Generates`, `WriteFile`, `Written` are the engineer and its adapter; `Approves` and
`VerificationFails` the verifier; `Deploys` the request to the deployment agent, whose own steps
are in `Deployment`, and which asks for no approval; `Restart` keeps inputs and drops outputs. Conditions, pauses and crashes are
left to `WorkflowEngine`; recovery is the choice whether a failed attempt is repeated.

### Deployment and the code

A call of `deploy`, `quick_deploy` or `rollback_deployment` is a process parked at an await (`pc`).
The helper asks the CLI once and keeps the answer (`available`, `asking`). `Deploy`, `Verify`,
`Connect`, `Authenticate` are the agent's prologue with its two authentications and the guard;
`Validate...`, `Deploy...`, `CliDeploy...` the executor with and without the CLI; `Poll...` the
monitor; `RecoveryAnnounced` to `Raised` the end; `Quick...` and `Rollback...` the other calls. The
CLI and the org are external: the CLI answers or fails as it likes, and a deployment reported as
failed may have reached the org. The session cache of `ConnectionManager`, partial and
selective rollback and the simulated logs and coverage are left out.

### ToolLayer, EventBus and the code

`Request` to `Dispatch` are `ToolExecutor.execute` with the registry (name, alias, unknown),
`RunStarts` to `Retry` `BaseTool.execute` with validation, time-out and back-off, `Answer` the
response and its event. Each tool is the set of errors its run can raise and whether it awaits:
a run that blocks the loop (`RunsAtOnce`) cannot time out, one that starts a process leaves it
behind when its time is up (`OrphanEnds`). `Announcing` and `Announced` are the publication of an
event on the bus: `Publish` takes a copy of the handler lists under the lock, `Deliver` calls one
handler after the other without it, `DeliveryRaises` is a handler that raises. `Subscribe` and
`Unsubscribe` interleave with all of it.

## 3. What is checked

Every run is exhaustive. The bounds are the plan and `Budget`, which says how often each kind
of outside event may happen; both are as small as lets the property's interesting case happen.

| Run | Instance | Shows |
| --- | --- | --- |
| `engine_controls` | a plan of four with a condition, a generated task and rollback tasks, three ready at once with `max_parallel_tasks` 2, a flaky agent; a pause and a cancellation at any await; fair | a condition decides its branch before the DAG does (`ConditionRespected`), generated tasks run (`GeneratedTasksRun`), the engine only escalates for a failure (`EscalationHasCause`), `ParallelismBounded`, `DependenciesSucceeded`, `NothingLeftRunning`, `RollbackReversed`, `CancelledIsFinal`, a cancelled run ends (`CancelHonoured`), a run ends or waits for a resume (`Termination`), and it implements `TaskGraph` (`ImplementsTaskGraph`) |
| `engine_crash` | a plan of three, a generated task with an unknown dependency, an unregistered agent, a failing rollback task; one crash, one fault, one cancel, one resume or restart | `TypeOK`, `CompletionIsHonest`, `RollbackComplete`, `CompletedNotRerun`; when the run returns, the store holds what it returned with, or what `cancel` wrote after it (`ResultStored`) |
| `orchestration` | one workflow, two clients, two control calls, a crash or a write that raises; fair | types and statuses (`OrchestrationTypeOK`), one record per workflow although checkpoints look and create in two transactions (`OneRecord`), an accepted workflow is found by every call (`AcceptedFindable`), all coroutines come to rest (`Settles`) |
| `memory_store` | three coroutines, one stored record and one that is not, a history limit of 1, crashes at any statement; fair | `CreateAtomic`, `AcknowledgedDurable`, `VersionsNumbered`, `OperationsEnd` |
| `recovery` | two tasks that fail on one artifact, in a built-in and a registered category, two attempts each; fair | types and the retry counters (`RecoveryTypeOK`), the threshold bounds the plans per key through recursion and interleaving (`LoopBroken`), a task is retried only after a plan all of whose actions succeeded (`RetryEarned`), `FailuresAnswered` |
| `delivery` | two workflows with thirteen and two plans, batches of two, one fault, one restart each, two attempts; fair | attempts, files and phases agree (`DeliveryTypeOK`); what a deployment behind a verifier requests was approved in the same run (`DeployedWasApproved`); a verifier has all that was generated before it (`GeneratedIsVerified`); `DeliveriesEnd` |
| `deployment` | two calls over four requests, two polls, one rollback per report; fair | `DeploymentTypeOK`, `RollbackPlanned`, `ProductionIsReal`, `CallsAnswered` |
| `tools` | two requests for four pairs of tools, one retry, a handler that stays and one that comes and goes, a history of two; fair | attempts, processes and responses agree (`ToolsTypeOK`), `AnnouncedInOrder`, `CalledOncePerName`, `RequestsAnswered` |

Why the bounds are enough to be interesting: two tasks in flight are what it takes to interleave
boundaries, failures and checkpoints of a batch; two attempts are one retry; one pause meets
every coroutine of a batch, each at its own boundary; one crash with one rerun reaches every stored
snapshot; a generated task and a guarded task in different branches meet in `g`, which depends
on both. Three tasks are ready at once in `engine_controls` because only then a batch of two is a choice.
A race in the store takes two coroutines, and a third whose commit makes the writes of either
durable; a limit of 1 is reached by the second update. Two clients and the run itself are three
writers of one snapshot; one workflow is enough because workflows share only the file and the
window, and `Limit` is above what is ever stored (below it `OneRecord` and `AcceptedFindable` fail,
see below). Two failing tasks share a counter, and a threshold of 4 is reached inside one recursion
of depth 3. The plans
of `delivery` pass every strategy and both branches of every verdict; `Careless` has a verifier that
waits for nothing and `Staged` two verifiers and two deployments, one of them behind a verifier of
everything; one restart meets the inputs of the run before. Two polls are what turns a made-up status.

`CHECK_DEADLOCK FALSE` where the system really stops: workflows that have returned, calls and
requests that are answered, coroutines that are done.

Each property has a mutant in the module, the form the code would have after a plausible
mistake (dependencies not looked at, the reversal forgotten, the batch left when the first task
returns, failures not looked at ...), under which TLC finds the property violated.

**Fairness** (`FairSpec`). Every coroutine and the main loop are weakly fair: the event loop runs
what can run, agents and recovery answer, and the store's operations end. Each of these is one
condition on one process, never on a choice it makes: an agent may fail for ever. No request,
release, fault, crash or rerun is fair. The two liveness properties are therefore about runs
of which no coroutine waits for a resume for ever (`Termination`) and runs that are cancelled
(`CancelHonoured`); the latter excludes a coroutine between a pause and its wait, whose wake-up
the code can lose.

In `MemoryStore` every coroutine is weakly fair: the thread pool runs each statement and
`asyncio.Lock` serves its waiters in order. Nothing makes a coroutine begin or the process crash.
In the other modules fairness is of the same kind, one weak condition per process on what the
event loop does for it: in `Orchestration` and `Deployment` per coroutine or call, without new
calls, crashes and writes that raise; in `Recovery` per task; in `Delivery` per workflow, without
restarts; in `ToolLayer` per request, without the ends of runs and orphans: a tool may hang.

### Where the code and its documentation part

| Run | Documented | What the run shows |
| --- | --- | --- |
| `resume_stuck` | "If the system crashes, workflows can be reliably resumed from the last checkpoint." (`src/WORKFLOW_ENGINE_README.md:27`) | A checkpoint taken in a batch carries `current_task_ids`; nothing clears them on resume and `ready_tasks` leaves them out. The run finds "no runnable tasks remain" and escalates with no failed task. |
| `lost_update` | "**Concurrent-Safe** - Thread-safe operations" (`src/MEMORY_AGENT_README.md:245`) | Two updates of different fields read the same row; the later one writes the earlier one's field back to its old value. Both return normally. |
| `production_pretended` | "If CLI is not available, we shouldn't just pretend success in a production test" (`deployment/executor.py:252`) | The executor marks the deployment FAILED, the monitor makes up "In Progress", completes its own answer at the second poll (`monitor.py:254`) and writes SUCCEEDED over FAILED. |
| `careless_plan` | "Pass generated artifacts from dependencies into the current task input." (`workflow/engine.py:407`) | `_collect_workflow_artifacts` merges what every completed task has generated: a deployment that waits for a verifier only is handed the page an engineer beside them has generated, which nobody has looked at. |

Met while modelling, present in the models and visible when the property is stated, but with no
run of their own:

* *A resume is lost.* `_handle_controls` stores and announces the pause before `event.clear()`; a
  `resume_paused` in between sets the event first, the clear erases it, and the coroutine waits
  with no pause requested (`workflow/engine.py:598`).
* *Without fail_fast* a failed task stays ready while another is pending on it, and is dispatched
  for ever (`workflow/engine.py:310`).
* *Unverified deployments.* Only the dependencies of a plan put a verifier before a deployment, and
  nothing checks that they do: `DeploymentTaskAdapter` deploys what is in its input
  (`agent/adapters.py:234`). `DeployedWasApproved` therefore speaks of deployments behind a verifier
  that waits for every engineer and is given every text the deployment is given (`Gated`). Waiting
  for the engineers the deployment itself waits for is not enough (`careless_plan`).
* *Nothing generated is approved.* The artifacts of the engineer are dicts
  (`salesforce_engineer/agent.py:242`), and the Apex strategy calls `count` on them as on a text
  (`verifier/strategies.py:33`): the verifier raises at every attempt. Flows and metadata are rejected
  as critical, the four files of an LWC for eight high issues. Methods given as texts make the
  generator itself raise (`salesforce_engineer/generators.py:84`).
* *A second rollback* after a crash in the first looks up a rollback task in the plan: `KeyError`
  leaves `execute_plan` (`workflow/engine.py:508`).
* *A version is missing.* Two updates of a record choose the same number; the second raises on the
  UNIQUE constraint after the commit of the first has made its row durable
  (`memory/sqlite_store.py:519`). The checkpoints of a batch are such updates. Past the limit of
  `get_history` (100) every update of a record raises.
* *A snapshot is lost.* Only the newest 10,000 metric records are searched, and learning adds some
  twenty per workflow: with the file torn by a crash an old workflow is not found, and its next
  checkpoint makes a second record (`workflow/persistence.py:160`).
* *Checkpoints may cross.* `save_snapshot` dumps the shared snapshot when its record is found, and
  `update` hands the write to the thread pool without the lock (`memory/sqlite_store.py:497`), which
  promises no order between two coroutines. Should the older dump land last, the record lacks a task
  whose checkpoint was acknowledged, until another checkpoint lands. No property says that this does
  not happen in a batch; `ResultStored` says that nothing of it is left when a run
  returns, unless `cancel` writes last.
* *A finished workflow is reported as cancel_requested*: `cancel` stores its copy after the last
  checkpoint, or changes the record of a run that has ended (`workflow/engine.py:186`). `resume` turns
  away only the terminal statuses, so it would run such a workflow once more. `ResultStored` says
  that this is the only way a result is overwritten.
* *Two processes of one request*: a time-out is "safe to retry", but nothing ends the process of the
  attempt that timed out (`tools/base.py:120`, `tools/process.py:33`).
* *Dilution*: verification averages over artifacts, so a class rejected alone is approved
  together with a long one in order (`VerdictsAsExpected` in `MCDelivery`); and as only critical
  issues take a security score below 60, the security threshold never decides anything.
* *The whole directory*: a deployment by the CLI names no source directory and takes all of
  force-app, with the files of other workflows and of rejected runs.
* *No way in*: `core/bootstrap.py:179` gives the planner arguments its constructor does not have,
  so the orchestrator cannot be resolved; `Orchestration` models it with its planner in place.

Smaller divergences met while modelling, with no run of their own: a workflow cancelled while
paused returns with status PAUSED and publishes WORKFLOW_ESCALATED; `restart` stores a snapshot
whose status is still the old one, so a crash right after it leaves a SUCCESS nobody will resume;
a task that recovery escalated is attempted again while attempts are left, because the loop of
`_execute_task` only looks at the number; a task reported as cancelled may still complete; a
generated task is lost by a crash between the checkpoint of its source and
`_apply_dynamic_tasks`; pause and cancel requests survive into a restart; the events of the
memory manager are built with fields `Event` does not have and never published.

## 4. What is proved

Every safety invariant and action property of the passing runs is also a theorem, for every value
of the constants that satisfies the named assumptions of its module: any number of tasks,
coroutines, records, handlers and calls, any plan, any bound. Where a theorem needs more, that is
a hypothesis in its statement and is given below.

### WorkflowEngine, every history

`WorkflowEngineProofs`, under `GraphAssumption` (the plan's maps have their types, the task set is
finite, rollback ids are no task ids) and `PolicyAssumption` (attempts and `max_parallel_tasks` are
positive, as pydantic enforces). Crashes, faults and reruns are all included.

| Theorem | States |
| --- | --- |
| `TypeCorrect` | `Spec => []TypeOK` |
| `Invariance` | `Spec => []IInv`, the inductive invariant |
| `Parallelism` | `Spec => []ParallelismBounded` |
| `HonestCompletion` | `Spec => []CompletionIsHonest` |
| `Record` | `Spec => []Recorded`: what DAG, live and stored snapshot say of completed tasks |
| `DependenciesAreDone` | `Spec => []DependenciesDone`: an agent runs only when all its task depends on is listed completed or skipped |
| `ResultIsStored` | `Spec => []ResultStored` |
| `NotRerun` | `Spec => CompletedNotRerun` |
| `RollbackIsComplete` | `Spec => []RollbackComplete` |
| `RollbackInReverse` | `Spec => RollbackReversed`, if no two tasks share a rollback task (the default id is `rollback-<task id>`; with a shared one the order of two completions is not visible) |

`ParallelismBounded` and `CompletionIsHonest` are not inductive. `IInv` adds what the code
relies on without saying so:

* `Flight`: outside `gather` and the await of a rollback task every `_execute_task` is idle; in
  `gather` only tasks of `current_task_ids` are not, in a rollback only one rollback task. This
  is what makes `current_task_ids` a bound for what runs, and what makes the main loop's own
  reads and writes of the snapshot atomic.
* `Narrow`: `current_task_ids` is never wider than the policy, in the live snapshot and in the
  stored one, which a resume makes live.
* `Accounted`: a FAILED task is in `failed_task_ids` or `cancelled_task_ids`, live and stored.
  Beside `IInv`, `Copied` says the same and `Narrow` of every dump on its way to the store, which
  may land at any time.
* `Caused`: during a rollback `failed_task_ids` is not empty, so its final status is not SUCCESS.
* `Honest`: where the main loop is about to return with SUCCESS, and after it has published it,
  all tasks of the plan are SUCCESS.

One lemma per group of actions shows each part preserved; `TaskMove` and `MainMove` carry the
argument common to all steps of a task and of the main loop: while a task moves, the main loop is
parked, and while the main loop moves outside a batch, every task is idle. `Accounted` with an
all-terminal plan and two empty lists then gives `AllSucceeded`.

On top of `IInv` stand three further invariants. `Recorded`: the live and the stored snapshot, and
every dump on its way, list planned tasks only, each once (`Planned`, `CopiesPlanned`); what the DAG holds
for done is what the lists say (`InDag`); a batch is made of tasks that were ready, none of them
a dependency of another (`BatchReady`); a completed task of the batch is past its agent unless a
fault or a rejected generation sent it back (`Once`). `Stored`, behind `ResultStored`:
whoever waits for the store is parked at a checkpoint (`Parked`), so that when the batch has been
gathered no dump of a task is left and the main loop is the only coroutine that writes; while its
own dump is on its way nobody changes the snapshot, and the dumps of `cancel` carry its status
(`Signed`); hence, where the main loop goes on from a checkpoint, the store has what it has, or a
request (`Resting`). It is about the end of a run only, because while a batch runs the writes do
cross (see §3). `Rollback`: a rollback has
handled the completions behind its cursor (`Unwound`), a rollback task leaves `_execute_task` with an outcome (`UndoPoints`), and ROLLED_BACK
is never stored nor on its way: `execute_plan` replaces it before the next checkpoint (`RolledBackBriefly`, `CopiesBrief`).

### WorkflowEngine, one run

`WorkflowRunProofs` is about a run without a crash, a fault or a rerun (`OneRun`), under any
pauses, resumes, cancellations and failures of agents. The restriction is the one the code has: a
crash in a batch and a resume leave tasks RUNNING for ever (`resume_stuck`), and an exception at
the checkpoint of a cancellation lets the run end as something else. `engine_controls`, which checks
these properties, has no crash, fault or rerun in its `Budget` either.

| Theorem | States |
| --- | --- |
| `Runs` | `Spec => [](OneRun => RunInv)` |
| `NothingIsLeftRunning` | `Spec => [](OneRun => NothingLeftRunning)` |
| `GeneratedTasksAreRun` | `Spec => [](OneRun => GeneratedTasksRun)` |
| `DependenciesHaveSucceeded` | `Spec => [](OneRun => DependenciesSucceeded)`, if `Firm` |
| `CancellationIsFinal` | `Spec /\ []OneRun => CancelledIsFinal` |
| `EscalationIsCaused` | `Spec => [](OneRun => EscalationHasCause)`, if the plan is `Grounded`: no missing dependency, no cycle, as `ExecutionPlan.validate_dependencies` enforces (`models/domain/shared.py:246`) |
| `ConditionsAreRespected` | `Spec => [](OneRun => ConditionRespected)`, if `fail_fast` (the default) and a plan that lists a task before those whose condition is about it |
| `RunImplementsTaskGraph` | `Spec /\ []OneRun => ImplementsTaskGraph`, if `Firm` |

`Firm` says `fail_fast`, or no generator whose generated task can be rejected: without it a
completed task that is sent back to FAILED is overtaken by its dependents, which the code allows.

`RunInv` ties the position of a coroutine to the status of its task (`Points`), the lists to the
statuses (`Kept`, `Marked`, `Settled`), the plan to what generators have done (`Extended`,
`Unplanned`), and the position of the main loop to what it may conclude there (`UnderWay`,
`CancelAsked`, `AtAwait`). The refinement is a step simulation: `Dispatch` is the abstract `Start`,
the end of a `_execute_task` is `Return`, the skips of `PlanBatch` are `Skip`, a cancellation that
empties the batch is `Abandon`, leaving the loop is `Conclude`; every other step, a rollback
included, is a stutter. `EscalationHasCause` needs that a plan without cycles always has a ready task while
some are pending and none has failed, by well-foundedness of the dependencies.

### The other modules

| Module | Theorems | Inductive invariant, and why it is needed |
| --- | --- | --- |
| `MemoryStoreProofs` | `StoreInvariance`, `CreationAtomic`; `Histories`, `AcknowledgedSurvives` (`AcknowledgedDurable`), `VersionsAreNumbered` (`VersionsNumbered`) | Any coroutine's commit makes the writes of all durable. `IInv`: between two actions the lock is free and nobody is inside `create`, or one is and holds it once (`LockHeld`), and a row without tags belongs to that one (`UntaggedPending`). `History`: no committed row is gone from the live tables, and no version is seen that is not committed (`Behind`), the number an update has chosen is out of date at worst, never ahead (`Chosen`), live versions are numbered without gaps (`AllNumbered`), an operation works on a record that is there (`Course`) |
| `RecoveryProofs` | `Invariance`, `RecoveryTypes`, `LoopsBroken`, `RetriesEarned` | `PlansCounted`: a plan is only built after its failure was counted, so the shared counter bounds them; `Coherent(t)`: where a call is in its plan and its recursion (`AtAction`, `Frames`), that a successful attempt stands for actions that all succeeded (`Earning`, `Judged`), and that its answer follows from it (`Answered`). `RetriesEarned` assumes `MaxRecoveryAttempts >= 3`, the code's value: with less the recursion is cut before the analyzer gives up, and a partial success is answered with a retry |
| `DeploymentProofs` | `Invariance`, `DeploymentTypes`, `RollbacksPlanned`, `ProductionOnlyReal` | `Guarded(c)`: what the agent has checked about session and production still holds where the executor works, two authentications and a cached helper later; `PlannedFor(c)`: a rollback plan with a target belongs to a report that is failed or rolled back |
| `OrchestrationProofs` | `Invariance`, `OrchestrationTypes`, `RecordsAreUnique` (`OneRecord`), `AcceptedIsFound` (`AcceptedFindable`) | `Fits(p)`: until a workflow is accepted only its POST works for it, so nobody else can be between the search for its record and the creation; from then on its record exists (`AcceptedRecorded`), under an id of its own (`Identified`), and every search finds it. All of the form `Spec /\ []Small => ...` with `Small == Len(records) <= Limit`, because a lookup reads only the newest 10,000 records; beyond that the properties fail (see §3) |
| `DeliveryProofs` | `Invariance`, `DeliveryTypes`, `DeployedIsApproved`, `GenerationIsVerified` | `Global`: an artifact is what its key says, whoever generated it; `Sound(w)`: the plan's shape (`Shaped`), each task's phase, input and output (`TaskOK`), and `Chain`: a task is only looked at when its dependencies are done (`Ordered`, from which all the tasks before it are: `BeforeDone`), a verifier that has started has what the engineers before it have generated (`Complete`), a deployment nothing that a verifier it is behind has not (`Narrower`), and what was verified with success is on record as approved (`Answered`). No shape of plan is assumed. Artifacts already in an input win over injected ones, which is harmless only because keys are fresh |
| `ToolLayerProofs` | `Invariance`, `ToolTypes`, `AnnouncedFirst` (`AnnouncedInOrder`), `CalledOnce` (`CalledOncePerName`) | `ListsKept`: no handler is on a list twice, and those that never unsubscribe stay on `"*"`; `Attempted(r)`: attempts and processes against the state of the request; `Heard(r)`: who must have seen its events by now, or still has them in the copy `Publish` took; `Called(r)`: the calls `publish` has still to make for an event are all different, are for its name or for `"*"`, and none of them has been made; so no call is made twice, list by list. `ToolAssumption` says the initial lists were made by `subscribe`: typed, without repetition |

`ProductionIsReal`, `CompletedNotRerun`, `RollbackReversed` and
`CancelledIsFinal` are action properties: proved of a single step from the invariant of its
module, then lifted.

The proofs have made explicit what the models had left tacit: that the first lists of the bus are
made by `subscribe`, and that `unsubscribe` removes the first occurrence only.

### Only model-checked

* Everything about fairness (`Termination`, `CancelHonoured`, `OperationsEnd`, `Settles`,
  `FailuresAnswered`, `DeliveriesEnd`, `CallsAnswered`, `RequestsAnswered`): liveness and ENABLED
  are out of the prover's reach.
* The disagreements of §3: they are counterexamples of particular instances.
* What would need induction over data: the sums and averages of `Verifier` enter the proofs as
  operators whose value is not looked into. No module uses a recursive operator.

## 5. What is not modelled

The components marked not_modelled in `PROJECT.json`, with the reasons there: code nothing calls
(executor and scheduler of the workflow package, the error handling helpers, the agents that are
not wired), wiring, configuration and wrappers of libraries. Of the modelled components the parts
named in their notes: texts and the regular expressions over them, floating point statistics, the
inside of calls of external programs, operations without a caller.

## 6. Plan

Done: the engine, its abstract specification and refinement, the memory store, orchestration and
persistence, recovery, deployment, the tool layer with the event bus, verification and delivery.

Every safety property of a run is proved. To be proved next:

1. `Small` of `Orchestration` from the constants: the category holds one snapshot per workflow
   and the metrics of each learned report, so a `Limit` above their number implies it.
2. The theorems under `OneRun` for the runs after a crash, with the hypothesis of what the crash
   left behind (an empty `current_task_ids`) in its place.
3. The bounds of the scores of `Verifier`, and that the history of the bus keeps the order of
   publication.

To be modelled next, if a caller appears: `restore_version`, retention and hard deletes of the store,
cancellation inside a store operation, the circuit breaker and its kin.
