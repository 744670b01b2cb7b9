--------------------------- MODULE WorkflowEngine ---------------------------
(***************************************************************************)
(* workflow/engine.py: WorkflowExecutionEngine executing one workflow.     *)
(*                                                                         *)
(* The coroutines are the main loop (execute_plan / _run_until_terminal)   *)
(* and one _execute_task per dispatched task.  An asyncio coroutine runs   *)
(* without interruption between two awaits, so an action is the code from  *)
(* one await to the next and pc[c] names the await at which c is parked.   *)
(* The other calls of the engine (pause, resume_paused, cancel, resume,    *)
(* restart) are actions of the environment; Crash kills the process.       *)
(*                                                                         *)
(* A checkpoint takes three steps.  The coroutine that calls _checkpoint   *)
(* waits (opening) while the store is opened and asked for the record of   *)
(* the workflow; then the snapshot as it is by now is dumped (writes), and *)
(* the dump is written later, outside the lock of the store, so that       *)
(* checkpoints of several coroutines land in any order.  A coroutine goes  *)
(* on once its own checkpoint has landed.                                  *)
(***************************************************************************)
EXTENDS Integers, Sequences, FiniteSets, Functions

CONSTANTS
  Tasks,            \* ids of all tasks, planned or generated at run time
  InitialPlan,      \* the tasks of the submitted ExecutionPlan
  Deps,             \* [Tasks -> SUBSET Tasks]  ExecutionTask.dependencies
  Position,         \* [Tasks -> Nat]  index of the task in plan.tasks
  Guarded,          \* tasks whose metadata carries a "condition"
  GuardOn,          \* [Guarded -> Tasks]  the task that condition looks at
  HoldWhenSkipped,  \* tasks whose condition holds of the output of a skipped task
  Generators,       \* tasks whose output lists a generated task
  Generated,        \* [Generators -> Tasks]
  Undoable,         \* tasks whose metadata carries a "rollback_task"
  UndoIds,          \* ids of the rollback tasks, in no plan
  UndoOf,           \* [Undoable -> UndoIds]
  MaxAttempts,      \* [Tasks \cup UndoIds -> Nat]  ExecutionTask.max_attempts
  PolicyAttempts,   \* WorkflowRetryPolicy.max_attempts
  MaxParallel,      \* WorkflowExecutionPolicy.max_parallel_tasks
  FailFast,         \* WorkflowExecutionPolicy.fail_fast
  RollbackOnFailure,\* WorkflowExecutionPolicy.rollback_on_failure
  Flaky,            \* ids whose agent may fail
  Unregistered,     \* ids whose agent the registry does not know
  Main,             \* the coroutine of the main loop
  Clients,          \* the coroutines that call cancel, one call at a time each
  Budget            \* how often each kind of outside event happens: bounds a behaviour

Ids == Tasks \cup UndoIds
Coroutines == Ids \cup {Main}
Writers == Coroutines \cup Clients
Events == {"pause", "cancel", "crash", "fault", "rerun"}

ASSUME GraphAssumption ==
  /\ IsFiniteSet(Tasks) /\ InitialPlan \subseteq Tasks
  /\ Deps \in [Tasks -> SUBSET Tasks]
  /\ Position \in [Tasks -> Nat]
  /\ Guarded \subseteq Tasks /\ GuardOn \in [Guarded -> Tasks]
  /\ HoldWhenSkipped \subseteq Guarded
  /\ Generators \subseteq Tasks /\ Generated \in [Generators -> Tasks]
  /\ Undoable \subseteq Tasks /\ UndoOf \in [Undoable -> UndoIds]
  /\ UndoIds \cap Tasks = {} /\ Main \notin Ids
  /\ Clients \cap Coroutines = {}

ASSUME PolicyAssumption ==
  /\ MaxAttempts \in [Ids -> Nat \ {0}] /\ PolicyAttempts \in Nat \ {0}
  /\ MaxParallel \in Nat \ {0}
  /\ FailFast \in BOOLEAN /\ RollbackOnFailure \in BOOLEAN
  /\ Flaky \subseteq Ids /\ Unregistered \subseteq Ids
  /\ Budget \in [Events -> Nat]

VARIABLES
  snap,      \* the live WorkflowSnapshot, with the task fields of its plan
  disk,      \* the persisted snapshot
  opening,   \* who waits for the store before its snapshot is dumped
  writes,    \* the dumps on their way to the store, with who wrote them
  dagDone,   \* DAG._completed of the workflow's DAG
  pc,        \* the await each coroutine is parked at
  cursor,    \* how many of the completed tasks _rollback has still to visit
  requests,  \* "pause" in _pause_requests, "cancel" in _cancel_requests
  result,    \* terminal event published by execute_plan
  used       \* how often each kind of outside event has happened

vars == <<snap, disk, opening, writes, dagDone, pc, cursor, requests, result, used>>

-----------------------------------------------------------------------------
(* Types                                                                   *)

WorkflowRunStatus == {"initialized", "scheduled", "running", "paused",
                      "cancel_requested", "cancelled", "rolling_back",
                      "rolled_back", "success", "failed", "escalated"}
TaskStatus == {"pending", "running", "success", "failed", "retrying"}
TerminalEvents == {"none", "workflow.completed", "workflow.failed", "workflow.escalated"}

\* Awaits inside _handle_controls, which both kinds of coroutine call.
ControlPoints == {"top", "cancelling", "pausing", "waiting", "woken", "resuming"}
TaskPoints == ControlPoints \cup
  {"idle", "agent", "saving", "failing", "retrying", "closing", "done"}
MainPoints == ControlPoints \cup
  {"down", "restarting", "starting", "leaked", "planning", "scheduling", "batch",
   "settling", "rollback", "undoNext", "undoing", "rolledBack", "ending",
   "returned", "raised"}

\* An output is abstracted to the set of guarded tasks whose condition holds of it.
WorkflowSnapshot ==
  [status: WorkflowRunStatus, plan: SUBSET Tasks,
   tstatus: [Ids -> TaskStatus], attempts: [Ids -> Nat], output: [Ids -> SUBSET Guarded],
   current: SUBSET Tasks, completed: Seq(Ids), failed: SUBSET Ids,
   skipped: SUBSET Tasks, cancelled: SUBSET Ids]

TypeOK ==
  /\ snap \in WorkflowSnapshot
  /\ disk \in WorkflowSnapshot
  /\ opening \in SUBSET Writers
  /\ writes \in SUBSET [by: Writers, what: WorkflowSnapshot]
  /\ dagDone \in SUBSET Ids
  /\ pc \in [Coroutines -> TaskPoints \cup MainPoints]
  /\ pc[Main] \in MainPoints /\ \A t \in Ids : pc[t] \in TaskPoints
  /\ cursor \in 0..Len(snap.completed)
  /\ requests \in SUBSET {"pause", "cancel"}
  /\ result \in TerminalEvents
  /\ used \in [Events -> Nat]

-----------------------------------------------------------------------------
(* Helpers                                                                 *)

\* _mark, for the one list whose order matters.
Mark(s, t) == IF t \in Range(s) THEN s ELSE Append(s, t)

\* c is not waiting for the store.
Free(c) == c \notin opening /\ \A w \in writes : w.by # c

\* The step of c leaves the snapshot as s and calls _checkpoint on it.
Save(c, s) ==
  /\ snap' = s
  /\ opening' = opening \cup {c}
  /\ UNCHANGED <<disk, writes>>

\* The step leaves the snapshot as s and stores nothing.
Keep(s) == snap' = s /\ UNCHANGED <<disk, opening, writes>>

Goto(c, point) == pc' = [pc EXCEPT ![c] = point]

Spend(event) == used[event] < Budget[event] /\ used' = [used EXCEPT ![event] = @ + 1]

EffectiveAttempts(t) ==
  IF MaxAttempts[t] > PolicyAttempts THEN MaxAttempts[t] ELSE PolicyAttempts

\* Condition of the while loop of _execute_task.
MayAttempt(t) == snap.attempts[t] < EffectiveAttempts(t) /\ snap.tstatus[t] # "success"

\* Mutant of FinalRunStatus: failures are not looked at.
FinalStatusIgnoresFailures == IF snap.cancelled # {} THEN "cancelled" ELSE "success"

FinalRunStatus ==
  IF snap.cancelled # {} THEN "cancelled"
  ELSE IF snap.failed # {} THEN "escalated" ELSE "success"

\* _domain_status followed by _terminal_event.
TerminalEvent(s) ==
  IF s = "success" THEN "workflow.completed"
  ELSE IF s \in {"cancelled", "failed"} THEN "workflow.failed"
  ELSE "workflow.escalated"

\* The snapshot is registered in _active_snapshots ("leaked": execute_plan raised
\* before the try whose finally removes it).
Active == pc[Main] \notin {"down", "restarting", "returned", "raised"}
\* No execute_plan of this workflow is under way.
Quiescent == pc[Main] \in {"down", "leaked", "returned", "raised"}

\* load_snapshot: the live snapshot if there is one, else the persisted one.
Loaded == IF Active THEN snap ELSE disk

-----------------------------------------------------------------------------
(* The boundary at the top of both loops: _handle_controls                 *)

AtBoundary(c) == pc[c] = "top" /\ (c \in Ids => MayAttempt(c))

\* What follows _handle_controls.  A task whose workflow is cancelled records
\* itself and returns; otherwise its next attempt starts and the agent is called.
AttemptRefused(t) ==
  /\ snap.status = "cancelled"
  /\ snap' = [snap EXCEPT !.tstatus[t] = "failed", !.cancelled = @ \cup {t}]
  /\ Goto(t, "done")
  /\ UNCHANGED result

\* Mutant of AttemptStarted: the status is not looked at after the controls.
AttemptAlwaysStarted(t) ==
  /\ snap' = [snap EXCEPT !.tstatus[t] = "running", !.attempts[t] = @ + 1]
  /\ Goto(t, "agent")
  /\ UNCHANGED result

AttemptStarted(t) ==
  /\ snap.status # "cancelled"
  /\ snap' = [snap EXCEPT !.tstatus[t] = "running", !.attempts[t] = @ + 1]
  /\ Goto(t, "agent")
  /\ UNCHANGED result

\* The main loop returns when cancelled or paused, and else plans a batch.
LoopLeft ==
  /\ snap.status \in {"cancelled", "paused"}
  /\ Goto(Main, "returned")
  /\ result' = TerminalEvent(snap.status)
  /\ UNCHANGED snap

LoopContinued ==
  /\ snap.status \notin {"cancelled", "paused"}
  /\ Goto(Main, "planning")
  /\ UNCHANGED <<snap, result>>

Continue(c) ==
  /\ \/ c \in Ids /\ (AttemptRefused(c) \/ AttemptStarted(c))
     \/ c = Main /\ (LoopLeft \/ LoopContinued)
  /\ UNCHANGED <<disk, opening, writes, dagDone, cursor, requests, used>>

ControlsPass(c) == AtBoundary(c) /\ requests = {} /\ Continue(c)

Unfinished == {t \in snap.plan : snap.tstatus[t] \in {"pending", "retrying", "running"}}

\* Every unfinished task of the plan, in flight or not, becomes FAILED and cancelled.
ControlsCancel(c) ==
  /\ AtBoundary(c) /\ "cancel" \in requests
  /\ Save(c, [snap EXCEPT
       !.status = "cancelled",
       !.tstatus = [t \in Ids |-> IF t \in Unfinished THEN "failed" ELSE @[t]],
       !.cancelled = @ \cup Unfinished])
  /\ Goto(c, "cancelling")
  /\ UNCHANGED <<dagDone, cursor, requests, result, used>>

CancelCheckpointed(c) == pc[c] = "cancelling" /\ Continue(c)

\* Mutant of ControlsPause: a pause is served before a cancellation.
ControlsPauseFirst(c) ==
  /\ AtBoundary(c) /\ "pause" \in requests
  /\ Save(c, [snap EXCEPT !.status = "paused"])
  /\ Goto(c, "pausing")
  /\ UNCHANGED <<dagDone, cursor, requests, result, used>>

ControlsPause(c) ==
  /\ AtBoundary(c) /\ requests = {"pause"}
  /\ Save(c, [snap EXCEPT !.status = "paused"])
  /\ Goto(c, "pausing")
  /\ UNCHANGED <<dagDone, cursor, requests, result, used>>

\* event.clear() and event.wait() run back to back, so the waiter always blocks: all
\* that is left of the asyncio.Event is the set of coroutines waiting on it.
PauseWait(c) ==
  /\ pc[c] = "pausing"
  /\ Goto(c, "waiting")
  /\ UNCHANGED <<snap, disk, opening, writes, dagDone, cursor, requests, result, used>>

PauseLeft(c) ==
  /\ pc[c] = "woken" /\ "cancel" \notin requests
  /\ Save(c, [snap EXCEPT !.status = "running"])
  /\ Goto(c, "resuming")
  /\ UNCHANGED <<dagDone, cursor, requests, result, used>>

\* Woken by a cancellation: no checkpoint, and the status stays PAUSED.
PauseCancelled(c) == pc[c] = "woken" /\ "cancel" \in requests /\ Continue(c)

ResumeCheckpointed(c) == pc[c] = "resuming" /\ Continue(c)

Boundary(c) ==
  \/ ControlsPass(c) \/ ControlsCancel(c) \/ CancelCheckpointed(c)
  \/ ControlsPause(c) \/ PauseWait(c) \/ PauseLeft(c) \/ PauseCancelled(c)
  \/ ResumeCheckpointed(c)

-----------------------------------------------------------------------------
(* _execute_task                                                           *)

\* The task history is stored and then the checkpoint, in one stay at "saving".
AgentSucceeds(t) ==
  /\ pc[t] = "agent" /\ t \notin Unregistered
  /\ \E held \in SUBSET {g \in Guarded : GuardOn[g] = t} :
       Save(t, [snap EXCEPT !.tstatus[t] = "success", !.output[t] = held,
                            !.completed = Mark(@, t)])
  /\ dagDone' = dagDone \cup {t}
  /\ Goto(t, "saving")
  /\ UNCHANGED <<cursor, requests, result, used>>

\* The agent raises, times out, answers for another task or answers success=False.
AgentFails(t) ==
  /\ pc[t] = "agent" /\ t \in Flaky \cup Unregistered
  /\ Goto(t, "failing")
  /\ UNCHANGED <<snap, disk, opening, writes, dagDone, cursor, requests, result, used>>

\* Mutant of DynamicTasks: the generated task is dropped.
DynamicTasksDropped(t) == UNCHANGED snap /\ Goto(t, "done")

\* _apply_dynamic_tasks adds the generated task, or raises into the except clause of
\* _execute_task when one of its dependencies is unknown.
DynamicTasks(t) ==
  IF t \in Generators /\ Generated[t] \notin snap.plan
  THEN IF Deps[Generated[t]] \subseteq snap.plan
       THEN snap' = [snap EXCEPT !.plan = @ \cup {Generated[t]}] /\ Goto(t, "done")
       ELSE UNCHANGED snap /\ Goto(t, "failing")
  ELSE UNCHANGED snap /\ Goto(t, "done")

\* Only when both have landed is the plan extended, which no checkpoint of t follows.
SuccessSaved(t) ==
  /\ pc[t] = "saving"
  /\ DynamicTasks(t)
  /\ UNCHANGED <<disk, opening, writes, dagDone, cursor, requests, result, used>>

\* _handle_task_failure without a retry: the agent is unknown, recovery escalates,
\* recovery itself raises, or no attempt is left.  The task is marked failed and
\* control goes back to the loop of _execute_task.
FailureRecorded(t) ==
  /\ pc[t] = "failing"
  /\ snap' = [snap EXCEPT !.tstatus[t] = "failed", !.failed = @ \cup {t}]
  /\ Goto(t, "top")
  /\ UNCHANGED <<disk, opening, writes, dagDone, cursor, requests, result, used>>

RetryScheduled(t) ==
  /\ pc[t] = "failing" /\ t \notin Unregistered
  /\ snap.attempts[t] < EffectiveAttempts(t)
  /\ Save(t, [snap EXCEPT !.tstatus[t] = "retrying"])
  /\ Goto(t, "retrying")
  /\ UNCHANGED <<dagDone, cursor, requests, result, used>>

\* The RETRYING checkpoint has landed and the backoff has been slept.
RetryReleased(t) ==
  /\ pc[t] = "retrying"
  /\ Goto(t, "top")
  /\ UNCHANGED <<snap, disk, opening, writes, dagDone, cursor, requests, result, used>>

LoopExhausted(t) ==
  /\ pc[t] = "top" /\ ~MayAttempt(t)
  /\ IF snap.tstatus[t] = "success"
     THEN Keep(snap) /\ Goto(t, "done")
     ELSE /\ Save(t, [snap EXCEPT !.tstatus[t] = "failed", !.failed = @ \cup {t}])
          /\ Goto(t, "closing")
  /\ UNCHANGED <<dagDone, cursor, requests, result, used>>

FailureSaved(t) ==
  /\ pc[t] = "closing"
  /\ Goto(t, "done")
  /\ UNCHANGED <<snap, disk, opening, writes, dagDone, cursor, requests, result, used>>

TaskStep(t) ==
  \/ AgentSucceeds(t) \/ AgentFails(t) \/ SuccessSaved(t) \/ FailureRecorded(t)
  \/ RetryScheduled(t) \/ RetryReleased(t) \/ LoopExhausted(t) \/ FailureSaved(t)

-----------------------------------------------------------------------------
(* execute_plan and _run_until_terminal                                    *)

\* What execute_plan marks as completed in the DAG it rebuilds from the plan.
MarkedInDag(s) == Range(s.completed) \cup s.skipped

\* Mutant of Launch: the plan is taken up again as it was submitted.
LaunchAsSubmitted(s) ==
  /\ Save(Main, [s EXCEPT !.status = "running", !.tstatus = [t \in Ids |-> "pending"]])
  /\ dagDone' = s.skipped /\ cursor' = 0
  /\ Goto(Main, "starting")
  /\ result' = "none"

\* execute_plan once it has a snapshot: the first checkpoint is under way.
Launch(s) ==
  /\ Save(Main, [s EXCEPT !.status = "running"])
  /\ dagDone' = MarkedInDag(s) /\ cursor' = 0
  /\ Goto(Main, "starting")
  /\ result' = "none"

Started ==
  /\ pc[Main] = "starting"
  /\ Goto(Main, "top")
  /\ UNCHANGED <<snap, disk, opening, writes, dagDone, cursor, requests, result, used>>

\* Mutant of Refused: the condition is read the wrong way round.
RefusedInverted(S) ==
  {t \in snap.plan \cap Guarded :
     /\ snap.tstatus[t] = "pending" /\ GuardOn[t] \in snap.plan
     /\ snap.tstatus[GuardOn[t]] = "success" /\ t \in snap.output[GuardOn[t]]}

\* _apply_conditional_branches walks the plan in order: a task is skipped when the
\* task its condition looks at has succeeded, or was skipped earlier in the same walk,
\* and the condition does not hold of that task's output.
Refused(S) ==
  {t \in snap.plan \cap Guarded :
     /\ snap.tstatus[t] = "pending" /\ GuardOn[t] \in snap.plan
     /\ \/ snap.tstatus[GuardOn[t]] = "success" /\ t \notin snap.output[GuardOn[t]]
        \/ /\ GuardOn[t] \in S /\ Position[GuardOn[t]] < Position[t]
           /\ t \notin HoldWhenSkipped}

\* The snapshot once the tasks of S are skipped.
WithSkipped(S) ==
  [snap EXCEPT !.tstatus = [t \in Ids |-> IF t \in S THEN "success" ELSE @[t]],
               !.output = [t \in Ids |-> IF t \in S THEN HoldWhenSkipped ELSE @[t]],
               !.skipped = @ \cup S]

\* Mutants of ReadyTasks: the dependencies are not looked at; skipped tasks do not count.
ReadyAtOnce(done) == {t \in snap.plan : t \notin done \cup snap.current}
ReadyUnlessSkipped(done) ==
  {t \in snap.plan : t \notin done \cup snap.current
                       /\ Deps[t] \subseteq Range(snap.completed)}

\* DAG.ready_tasks, as filtered by the engine.
ReadyTasks(done) ==
  {t \in snap.plan : t \notin done \cup snap.current /\ Deps[t] \subseteq done}

PlanBatch ==
  /\ pc[Main] = "planning"
  /\ \E S \in SUBSET snap.plan :
       /\ S = Refused(S)
       /\ dagDone' = dagDone \cup ((snap.skipped \cup S) \cap snap.plan)
       /\ LET after == WithSkipped(S)
              allTerminal == \A t \in snap.plan : after.tstatus[t] \in {"success", "failed"}
          IN  \/ /\ allTerminal
                 /\ Save(Main, [after EXCEPT !.status = FinalRunStatus])
                 /\ Goto(Main, "ending")
              \/ /\ ~allTerminal /\ ReadyTasks(dagDone') = {}
                 /\ Save(Main, [after EXCEPT !.status = "escalated"])
                 /\ Goto(Main, "ending")
              \/ /\ ~allTerminal /\ ReadyTasks(dagDone') # {}
                 /\ Save(Main, [after EXCEPT !.status = "scheduled"])
                 /\ Goto(Main, "scheduling")
  /\ UNCHANGED <<cursor, requests, result, used>>

\* Mutant of Batches: one task too many.
BatchesOversized(ready) ==
  {b \in SUBSET ready : b = ready \/ Cardinality(b) = MaxParallel + 1}

\* The DAG iterates over a set: any max_parallel_tasks of the ready tasks are taken.
Batches(ready) ==
  {b \in SUBSET ready : /\ Cardinality(b) <= MaxParallel
                        /\ b = ready \/ Cardinality(b) = MaxParallel}

Dispatch ==
  /\ pc[Main] = "scheduling"
  /\ \E batch \in Batches(ReadyTasks(dagDone)) :
       /\ snap' = [snap EXCEPT !.status = "running", !.current = batch]
       /\ pc' = [c \in Coroutines |-> IF c \in batch THEN "top"
                                      ELSE IF c = Main THEN "batch" ELSE pc[c]]
  /\ UNCHANGED <<disk, opening, writes, dagDone, cursor, requests, result, used>>

\* Mutant of BatchGathered: the first task to return ends the batch.
BatchGatheredEarly ==
  /\ pc[Main] = "batch" /\ \E t \in snap.current : pc[t] = "done"
  /\ Save(Main, [snap EXCEPT !.current = {}])
  /\ pc' = [c \in Coroutines |-> IF c \in snap.current /\ pc[c] = "done" THEN "idle"
                                 ELSE IF c = Main THEN "settling" ELSE pc[c]]
  /\ UNCHANGED <<dagDone, cursor, requests, result, used>>

\* asyncio.gather returns once every task of the batch has.
BatchGathered ==
  /\ pc[Main] = "batch" /\ \A t \in snap.current : pc[t] = "done"
  /\ Save(Main, [snap EXCEPT !.current = {}])
  /\ pc' = [c \in Coroutines |-> IF c \in snap.current THEN "idle"
                                 ELSE IF c = Main THEN "settling" ELSE pc[c]]
  /\ UNCHANGED <<dagDone, cursor, requests, result, used>>

\* Mutant of BatchSettled: a failure does not stop the loop.
BatchAlwaysSettled ==
  /\ pc[Main] = "settling"
  /\ Goto(Main, "top")
  /\ UNCHANGED <<snap, disk, opening, writes, dagDone, cursor, requests, result, used>>

BatchSettled ==
  /\ pc[Main] = "settling" /\ (snap.failed = {} \/ ~FailFast)
  /\ Goto(Main, "top")
  /\ UNCHANGED <<snap, disk, opening, writes, dagDone, cursor, requests, result, used>>

BatchFailed ==
  /\ pc[Main] = "settling" /\ snap.failed # {} /\ FailFast
  /\ \/ /\ RollbackOnFailure
        /\ Save(Main, [snap EXCEPT !.status = "rolling_back"])
        /\ Goto(Main, "rollback")
     \/ /\ ~RollbackOnFailure
        /\ Save(Main, [snap EXCEPT !.status = FinalRunStatus])
        /\ Goto(Main, "ending")
  /\ UNCHANGED <<dagDone, cursor, requests, result, used>>

\* Mutants of RollbackStarted: the loop starts behind the end of the list; the latest
\* completed task is left out.
RollbackStartedPast ==
  /\ pc[Main] = "rollback"
  /\ cursor' = Len(snap.completed) + 1
  /\ Goto(Main, "undoNext")
  /\ UNCHANGED <<snap, disk, opening, writes, dagDone, requests, result, used>>

RollbackStartedShort ==
  /\ pc[Main] = "rollback"
  /\ cursor' = Len(snap.completed) - 1
  /\ Goto(Main, "undoNext")
  /\ UNCHANGED <<snap, disk, opening, writes, dagDone, requests, result, used>>

RollbackStarted ==
  /\ pc[Main] = "rollback"
  /\ cursor' = Len(snap.completed)
  /\ Goto(Main, "undoNext")
  /\ UNCHANGED <<snap, disk, opening, writes, dagDone, requests, result, used>>

\* Mutant of Visited: the loop runs forwards.
VisitedForwards == snap.completed[Len(snap.completed) + 1 - cursor]

\* The task at which "for task_id in reversed(completed_task_ids)" has arrived.
Visited == snap.completed[cursor]

\* One turn of the loop of _rollback: task_by_id[task_id] raises KeyError for an id that
\* is not in the plan, a task without a rollback_task is passed over, and for any other
\* a fresh rollback task is executed.
UndoNext ==
  /\ pc[Main] = "undoNext" /\ cursor > 0
  /\ cursor' = cursor - 1
  /\ \/ Visited \notin snap.plan /\ Goto(Main, "raised") /\ UNCHANGED snap
     \/ Visited \in snap.plan \ Undoable /\ UNCHANGED <<snap, pc>>
     \/ /\ Visited \in snap.plan \cap Undoable
        /\ LET undo == UndoOf[Visited]
           IN  /\ snap' = [snap EXCEPT !.tstatus[undo] = "pending", !.attempts[undo] = 0]
               /\ pc' = [pc EXCEPT ![undo] = "top", ![Main] = "undoing"]
  /\ UNCHANGED <<disk, opening, writes, dagDone, requests, result, used>>

UndoDone ==
  /\ pc[Main] = "undoing"
  /\ \E u \in UndoIds :
       /\ pc[u] = "done"
       /\ pc' = [pc EXCEPT ![u] = "idle", ![Main] = "undoNext"]
  /\ UNCHANGED <<snap, disk, opening, writes, dagDone, cursor, requests, result, used>>

RolledBack ==
  /\ pc[Main] = "undoNext" /\ cursor = 0
  /\ snap' = [snap EXCEPT !.status = "rolled_back"]
  /\ Goto(Main, "rolledBack")
  /\ UNCHANGED <<disk, opening, writes, dagDone, cursor, requests, result, used>>

FailurePropagated ==
  /\ pc[Main] = "rolledBack"
  /\ Save(Main, [snap EXCEPT !.status = FinalRunStatus])
  /\ Goto(Main, "ending")
  /\ UNCHANGED <<dagDone, cursor, requests, result, used>>

Ended ==
  /\ pc[Main] = "ending"
  /\ Goto(Main, "returned")
  /\ result' = TerminalEvent(snap.status)
  /\ UNCHANGED <<snap, disk, opening, writes, dagDone, cursor, requests, used>>

MainStep ==
  \/ Started \/ PlanBatch \/ Dispatch \/ BatchGathered \/ BatchSettled \/ BatchFailed
  \/ RollbackStarted \/ UndoNext \/ UndoDone \/ RolledBack \/ FailurePropagated \/ Ended

-----------------------------------------------------------------------------
(* The store: _checkpoint inside WorkflowPersistence.save_snapshot         *)

\* What cancel makes of the snapshot it has loaded, which is a copy.
Requested(s) == [s EXCEPT !.status = "cancel_requested"]

\* Mutant of Dumped: the workflow goes on without its checkpoint.
DumpedUnawaited(c) ==
  /\ c \in opening
  /\ opening' = opening \ {c}
  /\ \E k \in Clients :
       writes' = writes \cup
         {[by |-> k, what |-> IF c \in Clients THEN Requested(disk) ELSE snap]}
  /\ UNCHANGED <<snap, disk, dagDone, pc, cursor, requests, result, used>>

\* The store has answered c: the live snapshot is dumped, or what cancel has loaded.
Dumped(c) ==
  /\ c \in opening
  /\ opening' = opening \ {c}
  /\ writes' = writes \cup
       {[by |-> c, what |-> IF c \in Clients THEN Requested(disk) ELSE snap]}
  /\ UNCHANGED <<snap, disk, dagDone, pc, cursor, requests, result, used>>

\* Mutant of Landed: nobody tells the writer.
LandedUnheard(c) ==
  /\ \E w \in writes : w.by = c /\ disk' = w.what
  /\ UNCHANGED <<snap, opening, writes, dagDone, pc, cursor, requests, result, used>>

\* The dump of c has been written over whatever the record held.
Landed(c) ==
  /\ \E w \in writes :
       w.by = c /\ disk' = w.what /\ writes' = writes \ {w}
  /\ UNCHANGED <<snap, opening, dagDone, pc, cursor, requests, result, used>>

StoreStep(c) == Dumped(c) \/ Landed(c)

-----------------------------------------------------------------------------
(* Calls from outside                                                      *)

Wake == [c \in Coroutines |-> IF pc[c] = "waiting" THEN "woken" ELSE pc[c]]

\* pause: the request is recorded even for a workflow that is not running.
Pause ==
  /\ Spend("pause")
  /\ requests' = requests \cup {"pause"}
  /\ UNCHANGED <<snap, disk, opening, writes, dagDone, pc, cursor, result>>

ResumePaused ==
  /\ "pause" \in requests \/ Wake # pc
  /\ requests' = requests \ {"pause"}
  /\ pc' = Wake
  /\ UNCHANGED <<snap, disk, opening, writes, dagDone, cursor, result, used>>

\* cancel, called by k: a live snapshot is copied at once and the copy stored later; any
\* other has to be loaded from the store first.
Cancel(k) ==
  /\ Free(k) /\ Spend("cancel")
  /\ requests' = requests \cup {"cancel"}
  /\ pc' = Wake
  /\ \/ /\ Active
        /\ writes' = writes \cup {[by |-> k, what |-> Requested(snap)]}
        /\ UNCHANGED opening
     \/ /\ ~Active
        /\ opening' = opening \cup {k}
        /\ UNCHANGED writes
  /\ UNCHANGED <<snap, disk, dagDone, cursor, result>>

\* resume of a workflow no execute_plan is running: one that ended is only reported.
Resume ==
  /\ Quiescent /\ Spend("rerun")
  /\ Loaded.status \notin {"success", "failed", "escalated", "cancelled"}
  /\ Launch(Loaded)
  /\ requests' = {}

\* What restart makes of the snapshot: all is reset but the plan and the status.
Reset(s) ==
  [s EXCEPT !.tstatus = [t \in Ids |-> "pending"], !.attempts = [t \in Ids |-> 0],
            !.output = [t \in Ids |-> {}], !.current = {}, !.completed = <<>>,
            !.failed = {}, !.skipped = {}, !.cancelled = {}]

\* restart, up to the await of its own checkpoint.
Restart ==
  /\ Quiescent /\ Spend("rerun")
  /\ Save(Main, Reset(Loaded))
  /\ Goto(Main, "restarting")
  /\ cursor' = 0
  /\ result' = "none"
  /\ UNCHANGED <<dagDone, requests>>

Restarted ==
  /\ pc[Main] = "restarting"
  /\ Launch(snap)
  /\ UNCHANGED <<requests, used>>

\* What a new process finds.
Recovered == disk

\* The process dies, with every write that has not landed; the snapshot is now what
\* status would load from the store.
Crash ==
  /\ Spend("crash")
  /\ snap' = Recovered /\ UNCHANGED disk
  /\ opening' = {} /\ writes' = {}
  /\ dagDone' = {} /\ cursor' = 0
  /\ pc' = [c \in Coroutines |-> IF c = Main THEN "down" ELSE "idle"]
  /\ requests' = {}
  /\ result' = "none"

\* The checkpoint of c is not going to land.
Dropped(c) ==
  /\ opening' = opening \ {c}
  /\ writes' = {w \in writes : w.by # c}
  /\ UNCHANGED disk

\* The memory store or an event handler raises at the await c is parked at.  In the
\* try block of _execute_task that is a failed attempt; anywhere else it leaves the
\* task, where gather swallows it or, for a rollback task, execute_plan raises it.
TaskFault(t) ==
  /\ Spend("fault")
  /\ pc[t] \in {"cancelling", "pausing", "resuming", "agent", "saving", "failing",
               "retrying", "closing"}
  /\ \/ pc[t] = "saving" /\ Goto(t, "failing")
     \/ pc[t] # "saving" /\ t \in Tasks /\ Goto(t, "done")
     \/ /\ pc[t] # "saving" /\ t \in UndoIds
        /\ pc' = [pc EXCEPT ![t] = "idle", ![Main] = "raised"]
  /\ Dropped(t)
  /\ UNCHANGED <<snap, dagDone, cursor, requests, result>>

MainFault ==
  /\ Spend("fault")
  /\ \/ pc[Main] = "starting" /\ Goto(Main, "leaked")
     \/ /\ pc[Main] \in {"restarting", "cancelling", "pausing", "resuming", "scheduling",
                        "settling", "rollback", "rolledBack", "ending"}
        /\ Goto(Main, "raised")
  /\ Dropped(Main)
  /\ UNCHANGED <<snap, dagDone, cursor, requests, result>>

\* The store raises into cancel: the request stays, the copy is lost.
ClientFault(k) ==
  /\ ~Free(k) /\ Spend("fault")
  /\ Dropped(k)
  /\ UNCHANGED <<snap, dagDone, pc, cursor, requests, result>>

-----------------------------------------------------------------------------
(* Specification                                                           *)

InitialSnapshot ==
  [status |-> "running", plan |-> InitialPlan,
   tstatus |-> [t \in Ids |-> "pending"], attempts |-> [t \in Ids |-> 0],
   output |-> [t \in Ids |-> {}], current |-> {}, completed |-> <<>>,
   failed |-> {}, skipped |-> {}, cancelled |-> {}]

\* The first checkpoint of the workflow has just been stored.
Init ==
  /\ snap = InitialSnapshot /\ disk = InitialSnapshot
  /\ opening = {} /\ writes = {}
  /\ dagDone = {} /\ cursor = 0
  /\ pc = [c \in Coroutines |-> IF c = Main THEN "starting" ELSE "idle"]
  /\ requests = {} /\ result = "none"
  /\ used = [e \in Events |-> 0]

Engine ==
  \/ \E c \in Coroutines : Free(c) /\ Boundary(c)
  \/ \E t \in Ids : Free(t) /\ TaskStep(t)
  \/ Free(Main) /\ (MainStep \/ Restarted)
  \/ \E c \in Writers : StoreStep(c)

Environment ==
  \/ Pause \/ ResumePaused \/ (\E k \in Clients : Cancel(k))
  \/ Resume \/ Restart \/ Crash
  \/ (\E t \in Ids : TaskFault(t)) \/ MainFault \/ (\E k \in Clients : ClientFault(k))

Next == Engine \/ Environment

Spec == Init /\ [][Next]_vars

\* The event loop runs every coroutine that can run, agents and recovery answer, and a
\* store operation ends: each coroutine is weakly fair.  No request, fault, crash or
\* restart has to happen.
Fairness ==
  /\ \A c \in Coroutines : WF_vars(Free(c) /\ Boundary(c))
  /\ \A t \in Ids : WF_vars(Free(t) /\ TaskStep(t))
  /\ WF_vars(Free(Main) /\ MainStep) /\ WF_vars(Free(Main) /\ Restarted)
  /\ \A c \in Writers : WF_vars(StoreStep(c))

FairSpec == Spec /\ Fairness

-----------------------------------------------------------------------------
(* What the engine keeps, whatever the interleaving                        *)

InFlight(t) == pc[t] \notin {"idle", "done"}
AgentRuns(t) == pc[t] = "agent"
Starts(t) == ~AgentRuns(t) /\ AgentRuns(t)'

\* An agent only runs once every dependency of its task has succeeded, skipped
\* dependencies included (dag.py ready_tasks, engine.py _run_until_terminal).
DependenciesSucceeded ==
  \A t \in Tasks : AgentRuns(t) => \A d \in Deps[t] : snap.tstatus[d] = "success"

\* A task with a condition only runs if the condition held of the upstream output
\* (engine.py _apply_conditional_branches against DAG.ready_tasks).
ConditionRespected ==
  \A t \in Guarded : AgentRuns(t) /\ GuardOn[t] \in Deps[t] => t \in snap.output[GuardOn[t]]

\* Never more than max_parallel_tasks coroutines are inside _execute_task, paused and
\* retrying ones included, and rollback never overlaps with a task of the plan.
ParallelismBounded ==
  /\ Cardinality({t \in Tasks : InFlight(t)}) <= MaxParallel
  /\ \A t \in Ids, u \in UndoIds : InFlight(t) /\ InFlight(u) => t = u

\* WORKFLOW_COMPLETED is only published when every task of the plan, the generated ones
\* included, has succeeded or was skipped: no FAILED task escapes both failed_task_ids
\* and cancelled_task_ids (_all_terminal against _final_run_status).
CompletionIsHonest ==
  result = "workflow.completed" => \A t \in snap.plan : snap.tstatus[t] = "success"

\* A completed workflow has run every task that its tasks generated
\* (_apply_dynamic_tasks).
GeneratedTasksRun ==
  result = "workflow.completed" =>
    \A t \in Range(snap.completed) \cap Generators : snap.tstatus[Generated[t]] = "success"

\* The engine escalates because a task failed, never because it found nothing to run
\* ("no runnable tasks remain" of _run_until_terminal).
EscalationHasCause == snap.status = "escalated" => snap.failed # {}

\* When the rollback loop is through, every completed task with a rollback task has had
\* it run to an end (engine.py _rollback).
RollbackComplete ==
  snap.status = "rolled_back" =>
    \A t \in Range(snap.completed) \cap Undoable : snap.tstatus[UndoOf[t]] \in {"success", "failed"}

\* When execute_plan returns, no coroutine of the run is left behind and no task still
\* says it is running or about to be retried (asyncio.gather, _handle_controls).
NothingLeftRunning ==
  pc[Main] = "returned" =>
    \A t \in Ids : pc[t] = "idle" /\ snap.tstatus[t] \notin {"running", "retrying"}

\* Rollback tasks start in the reverse of the completion order: the one being started
\* undoes the latest completed task that is not undone yet (_rollback).
RollbackReversed ==
  [][\A i \in 1..Len(snap.completed) : \A j \in 1..(i - 1) :
       snap.completed[i] \in Undoable /\ snap.completed[j] \in Undoable
         /\ pc[UndoOf[snap.completed[j]]] = "idle" /\ pc'[UndoOf[snap.completed[j]]] = "top"
         => snap.tstatus[UndoOf[snap.completed[i]]] \in {"success", "failed"}]_vars

\* A completed task is never run again, before or after a crash, unless storing its
\* completion failed or the task it generates depends on one outside the submitted plan,
\* so that it may be rejected (execute_plan marks the DAG "to avoid re-running them on
\* resume"; the try block of _execute_task).
CompletedNotRerun ==
  [][\A t \in Tasks : Starts(t) /\ t \in Range(snap.completed) =>
       \/ used["fault"] > 0
       \/ t \in Generators /\ ~(Deps[Generated[t]] \subseteq InitialPlan)]_vars

\* Once a run is CANCELLED no agent starts, and nothing but the end of the run, the
\* rollback of an earlier failure or a new run changes the status again.
CancelledIsFinal ==
  [][snap.status = "cancelled" /\ Active =>
       /\ \A t \in Ids : ~Starts(t)
       /\ \/ snap'.status \in {"cancelled", "rolling_back", "rolled_back"}
          \/ pc'[Main] \in {"down", "starting", "restarting"}]_vars

\* However the checkpoints of the tasks, of the loop and of a former run are ordered, what
\* is stored when execute_plan returns is what it returned, unless cancel wrote last
\* (save_snapshot, _run_until_terminal).
ResultStored ==
  pc[Main] = "returned" => disk = snap \/ disk.status = "cancel_requested"

\* A workflow ends, unless a coroutine of it waits in a pause for ever: execute_plan
\* returns (_run_until_terminal, _handle_controls).
Termination ==
  <>(pc[Main] = "returned") \/ <>[](\E c \in Coroutines : pc[c] = "waiting")

\* A cancelled workflow ends, paused or not and whatever its tasks do, unless a coroutine
\* is between a pause and its wait (_handle_controls).
CancelHonoured ==
  ("cancel" \in requests /\ \A c \in Coroutines : pc[c] \notin {"pausing", "waiting"})
    ~> pc[Main] = "returned"

=============================================================================
