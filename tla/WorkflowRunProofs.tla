--------------------------- MODULE WorkflowRunProofs ---------------------------
(***************************************************************************)
(* One uninterrupted run of execute_plan: no crash, no fault of the store  *)
(* and no second run, but any pauses, cancellations and failures of tasks. *)
(* What the run leaves behind, what it concludes and why, and that it      *)
(* implements TaskGraph.                                                   *)
(***************************************************************************)
EXTENDS WorkflowEngineProofs, TaskGraphRefinement

OneRun == used["crash"] = 0 /\ used["fault"] = 0 /\ used["rerun"] = 0

-----------------------------------------------------------------------------
(* The invariant of one run                                                *)

\* A task says running or retrying only while a coroutine is at work on it, and that
\* coroutine is parked where the status of the task says.
Points ==
  \A t \in Ids :
    /\ pc[t] \in {"idle", "done"} => snap.tstatus[t] \notin {"running", "retrying"}
    /\ pc[t] = "saving" => snap.tstatus[t] = "success"
    /\ pc[t] = "closing" => snap.tstatus[t] = "failed"

\* A task on the lists of what is done has succeeded, unless the rejection of the task it
\* generated sent it back.
Kept ==
  \A t \in Tasks :
    t \in Range(snap.completed) \cup snap.skipped =>
      \/ snap.tstatus[t] = "success"
      \/ Rejectable(t) /\ (InFlight(t) \/ snap.tstatus[t] = "failed")

\* A generator that has succeeded has added its task, or is about to.
Extended ==
  \A t \in Generators :
    t \in Range(snap.completed) /\ snap.tstatus[t] = "success" =>
      Generated[t] \in snap.plan \/ pc[t] \in {"saving", "failing"}

\* Nothing has happened to a task outside the plan.
Unplanned == \A t \in Tasks \ snap.plan : snap.tstatus[t] = "pending"

\* The DAG knows of every success.
Marked == \A t \in snap.plan : snap.tstatus[t] = "success" => (t \in dagDone \/ ~Executing)

\* A failure stops the run, or no success is ever taken back.
Firm == FailFast \/ (\A t \in Generators : ~Rejectable(t))

\* What a task of the batch waits for stays done while the batch runs.
Settled ==
  pc[Main] = "batch" /\ Firm =>
    \A d \in (dagDone \cap Tasks) \ snap.current : snap.tstatus[d] = "success"

TaskFacts == Points /\ Kept /\ Extended /\ Unplanned /\ Marked /\ Settled

\* execute_plan is at work or has returned, and has published nothing before.
UnderWay == (Executing /\ result = "none") \/ pc[Main] \in {"returned", "raised"}

\* A cancellation is only ever recorded because cancel was called, and whoever made the
\* workflow CANCELLED is on the list or about to be.
CancelAsked ==
  /\ (snap.cancelled # {} \/ snap.status = "cancelled") => "cancel" \in requests
  /\ snap.status = "cancelled" /\ pc[Main] = "batch" =>
       snap.cancelled # {} \/ \E t \in snap.current : pc[t] = "cancelling"
  /\ snap.status = "cancelled" /\ pc[Main] = "settling" => snap.cancelled # {}

\* What the main loop knows at its awaits.
AtAwait ==
  /\ pc[Main] \in {"pausing", "waiting", "woken"} => snap.status = "paused"
  /\ pc[Main] = "cancelling" => snap.status = "cancelled"
  /\ pc[Main] \in {"planning", "scheduling"} => snap.status # "cancelled"
  /\ pc[Main] = "scheduling" => ReadyTasks(dagDone) # {}
  /\ pc[Main] = "rolledBack" => snap.status = "rolled_back"
  /\ pc[Main] \in {"resuming", "planning", "scheduling"} => snap.cancelled = {}
  /\ pc[Main] \in ControlPoints \cup {"starting", "planning", "scheduling"} =>
       (FailFast => snap.failed = {})
  /\ pc[Main] \in ControlPoints \cup {"starting", "planning", "scheduling", "settling"} =>
       snap.current = {}

MainFacts == UnderWay /\ CancelAsked /\ AtAwait

RunInv == TaskFacts /\ MainFacts

\* Under hypotheses on the plan.
Closed == \A t \in snap.plan : Deps[t] \subseteq snap.plan
Guarding(t) == GuardOn[t] \in Deps[t] => t \in snap.output[GuardOn[t]]
Conditions ==
  /\ pc[Main] = "scheduling" => \A t \in ReadyTasks(dagDone) \cap Guarded : Guarding(t)
  /\ pc[Main] = "batch" => \A t \in snap.current \cap Guarded : Guarding(t)

LEMMA InitRun == Init => RunInv
  <1> SUFFICES ASSUME Init PROVE RunInv
    OBVIOUS
  <1> DEFINE s == InitialSnapshot
  <1>1. /\ snap = s /\ s.status = "running" /\ s.current = {} /\ s.failed = {}
        /\ s.cancelled = {} /\ s.completed = <<>> /\ s.skipped = {}
        /\ \A t \in Ids : s.tstatus[t] = "pending"
    BY DEF Init, InitialSnapshot
  <1>2. pc[Main] = "starting" /\ result = "none" /\ \A t \in Ids : pc[t] = "idle"
    BY MainNotId DEF Init
  <1>3. Range(<<>>) = {} /\ Tasks \subseteq Ids
    BY DEF Range, Ids
  <1>4. TaskFacts
    <2> HIDE DEF s
    <2>1. snap.plan \subseteq Tasks
      BY GraphAssumption DEF Init, InitialSnapshot
    <2> QED
      BY <1>1, <1>2, <1>3, <2>1, GraphAssumption
         DEF TaskFacts, Points, Kept, Extended, Unplanned, Marked, Settled
  <1>5. MainFacts
    BY <1>1, <1>2 DEF MainFacts, UnderWay, Executing, CancelAsked, AtAwait
  <1> QED
    BY <1>4, <1>5 DEF RunInv

-----------------------------------------------------------------------------
(* The tasks: steps that move coroutines without an outcome                *)

Outcomes == {"idle", "done", "saving", "failing", "closing"}

\* The coroutine of t is where the facts about it are the same.
SameWork(t) ==
  \/ pc'[t] = pc[t]
  \/ {pc[t], pc'[t]} \subseteq {"idle", "done"}
  \/ {pc[t], pc'[t]} \cap Outcomes = {}

LEMMA FactsFrame ==
  ASSUME TaskFacts, \A t \in Ids : SameWork(t), snap'.tstatus = snap.tstatus,
         SameLists(snap', snap), dagDone' = dagDone, Executing' => Executing,
         pc'[Main] = "batch" => pc[Main] = "batch" /\ snap'.current = snap.current
  PROVE  TaskFacts'
  <1> Tasks \subseteq Ids /\ Generators \subseteq Ids
    BY GraphAssumption DEF Ids
  <1>1. Points'
    BY DEF TaskFacts, Points, SameWork, Outcomes
  <1>2. Kept'
    BY DEF TaskFacts, Kept, Rejectable, SameLists, SameWork, Outcomes, InFlight
  <1>3. Extended'
    BY DEF TaskFacts, Extended, SameLists, SameWork, Outcomes
  <1>4. Unplanned' /\ Marked' /\ Settled'
    BY DEF TaskFacts, Unplanned, Marked, Settled, Firm, Rejectable, SameLists
  <1> QED
    BY <1>1, <1>2, <1>3, <1>4 DEF TaskFacts

\* A task of the plan that is inside _execute_task is in the batch, and it has not
\* completed before unless the task it generated was rejected.
LEMMA Worker ==
  ASSUME IInv, Recorded, NEW t \in Tasks, pc[t] # "idle"
  PROVE  /\ pc[Main] = "batch" /\ t \in snap.current /\ t \in snap.plan /\ t \notin snap.skipped
         /\ t \in Range(snap.completed) =>
              pc[t] \in {"saving", "done"} \/ used["fault"] > 0 \/ Rejectable(t)
  BY AgentInBatch DEF Recorded, BatchReady, Once

\* A step of _execute_task that gives its task a status, and may complete it.
LEMMA TaskMoveFacts ==
  ASSUME IInv, Recorded, TaskFacts, used["fault"] = 0,
         NEW t \in Ids, NEW point, Goto(t, point), pc[t] # "idle", point # "idle",
         NEW s \in TaskStatus, snap'.tstatus = [snap.tstatus EXCEPT ![t] = s],
         snap'.skipped = snap.skipped, snap'.current = snap.current,
         snap.plan \subseteq snap'.plan, snap'.plan \subseteq Tasks,
         snap'.completed \in {snap.completed, Mark(snap.completed, t)},
         dagDone \subseteq dagDone', dagDone' \subseteq dagDone \cup {t},
         point = "done" => s \notin {"running", "retrying"},
         point = "saving" => s = "success", point = "closing" => s = "failed",
         s = "success" => snap.tstatus[t] = "success" \/ t \in dagDone',
         s = "success" /\ t \in Generators /\ t \in Range(snap'.completed) =>
           Generated[t] \in snap'.plan \/ point \in {"saving", "failing"},
         s # "success" => /\ snap'.completed = snap.completed /\ dagDone' = dagDone
                          /\ pc[t] \notin {"saving", "done"} /\ (point = "done" => s = "failed")
  PROVE  TaskFacts'
  <1> TypeOK /\ Tasks \subseteq Ids
    BY DEF IInv, Ids
  <1>1. pc'[Main] = pc[Main] /\ \A u \in Ids : pc'[u] = IF u = t THEN point ELSE pc[u]
    BY MainNotId DEF TypeOK, Goto
  <1>2. \A u \in Ids : snap'.tstatus[u] = IF u = t THEN s ELSE snap.tstatus[u]
    BY DEF TypeOK, WorkflowSnapshot
  <1>3. Range(snap'.completed) \subseteq Range(snap.completed) \cup {t}
    BY MarkRange DEF TypeOK, WorkflowSnapshot
  <1>4. Points'
    BY <1>1, <1>2 DEF TaskFacts, Points
  <1>5. Kept'
    <2> SUFFICES ASSUME NEW u \in Tasks, u \in Range(snap'.completed) \cup snap.skipped
                 PROVE  \/ snap'.tstatus[u] = "success"
                        \/ /\ Rejectable(u)
                           /\ pc'[u] \notin {"idle", "done"} \/ snap'.tstatus[u] = "failed"
      BY DEF Kept, InFlight, Rejectable
    <2>1. CASE u = t
      <3>1. CASE s = "success"
        BY <1>2, <2>1, <3>1
      <3>2. CASE s # "success"
        <4>1. Rejectable(t)
          BY <2>1, <3>2, Worker
        <4> QED
          BY <1>1, <1>2, <2>1, <3>2, <4>1
      <3> QED
        BY <3>1, <3>2
    <2>2. CASE u # t
      BY <1>1, <1>2, <1>3, <2>2 DEF TaskFacts, Kept, InFlight
    <2> QED
      BY <2>1, <2>2
  <1>6. Extended'
    <2> SUFFICES ASSUME NEW u \in Generators, u \in Range(snap'.completed),
                        snap'.tstatus[u] = "success"
                 PROVE  Generated[u] \in snap'.plan \/ pc'[u] \in {"saving", "failing"}
      BY DEF Extended
    <2>1. u \in Ids
      BY GraphAssumption
    <2>2. CASE u = t
      BY <1>1, <1>2, <2>1, <2>2
    <2>3. CASE u # t
      BY <1>1, <1>2, <1>3, <2>1, <2>3 DEF TaskFacts, Extended
    <2> QED
      BY <2>2, <2>3
  <1>7. Unplanned'
    <2>1. t \in Tasks => t \in snap.plan
      BY Worker
    <2> QED
      BY <1>2, <2>1 DEF TaskFacts, Unplanned
  <1>8. Marked'
    <2> SUFFICES ASSUME NEW u \in snap'.plan, snap'.tstatus[u] = "success", Executing
                 PROVE  u \in dagDone'
      BY <1>1 DEF Marked, Executing
    <2>1. CASE u \in snap.plan /\ u # t
      BY <1>2, <2>1 DEF TaskFacts, Marked
    <2>2. CASE u = t
      <3>1. t \in snap.plan
        BY <2>2, Worker
      <3> QED
        BY <1>2, <2>2, <3>1 DEF TaskFacts, Marked
    <2>3. CASE u \notin snap.plan /\ u # t
      BY <1>2, <2>3 DEF TaskFacts, Unplanned
    <2> QED
      BY <2>1, <2>2, <2>3
  <1>9. Settled'
    <2>1. t \in Tasks => t \in snap.current
      BY Worker
    <2> QED
      BY <1>1, <1>2, <2>1 DEF TaskFacts, Settled, Firm, Rejectable
  <1> QED
    BY <1>4, <1>5, <1>6, <1>7, <1>8, <1>9 DEF TaskFacts

\* A cancellation fails the tasks that have not ended and moves nobody out of the controls.
LEMMA CancelFacts ==
  ASSUME IInv, Recorded, TaskFacts, used["fault"] = 0,
         NEW c \in Coroutines, ControlsCancel(c)
  PROVE  TaskFacts'
  <1> TypeOK /\ Tasks \subseteq Ids
    BY DEF IInv, Ids
  <1>1. /\ SameLists(snap', snap) /\ snap'.current = snap.current /\ dagDone' = dagDone
        /\ \A u \in Ids : snap'.tstatus[u] =
             IF u \in Unfinished THEN "failed" ELSE snap.tstatus[u]
    BY DEF ControlsCancel, Save, TypeOK, WorkflowSnapshot, SameLists
  <1>2. /\ pc[c] = "top" /\ pc'[c] = "cancelling"
        /\ \A u \in Coroutines : u # c => pc'[u] = pc[u]
    BY DEF ControlsCancel, AtBoundary, Goto, TypeOK
  <1>3. /\ pc'[Main] = "batch" <=> pc[Main] = "batch"
        /\ Executing' <=> Executing
    BY <1>2, MainNotId DEF Executing
  <1>4. \A u \in Unfinished : u \in snap.plan /\ snap.tstatus[u] \notin {"success", "failed"}
    BY DEF Unfinished
  <1>5. \A u \in Ids : SameWork(u)
    BY <1>2, MainNotId DEF SameWork, Outcomes
  <1>6. Points' /\ Kept' /\ Extended'
    <2>1. Points'
      BY <1>1, <1>4, <1>5 DEF TaskFacts, Points, SameWork, Outcomes
    <2>2. Kept'
      BY <1>1, <1>4, <1>5
         DEF TaskFacts, Kept, Rejectable, SameLists, SameWork, Outcomes, InFlight
    <2>3. Extended'
      <3>1. Generators \subseteq Ids
        BY GraphAssumption
      <3> QED
        BY <1>1, <1>4, <1>5, <3>1 DEF TaskFacts, Extended, SameLists, SameWork, Outcomes
    <2> QED
      BY <2>1, <2>2, <2>3
  <1>7. Unplanned' /\ Marked'
    <2>1. snap.plan \subseteq Tasks
      BY DEF TypeOK, WorkflowSnapshot
    <2> QED
      BY <1>1, <1>3, <1>4, <2>1 DEF TaskFacts, Unplanned, Marked, SameLists
  <1>8. Settled'
    BY <1>1, <1>3, <1>4 DEF TaskFacts, Settled, Firm, Rejectable
  <1> QED
    BY <1>6, <1>7, <1>8 DEF TaskFacts

LEMMA BoundaryFacts ==
  ASSUME IInv, Recorded, TaskFacts, used["fault"] = 0, NEW c \in Coroutines, Boundary(c)
  PROVE  TaskFacts'
  <1> TypeOK /\ snap.plan \in SUBSET Tasks
    BY DEF IInv, TypeOK, WorkflowSnapshot
  <1>1. ASSUME pc[c] \in ControlPoints, c \in Ids, AttemptRefused(c) \/ AttemptStarted(c),
               dagDone' = dagDone
        PROVE  TaskFacts'
    <2>1. /\ snap'.completed = snap.completed /\ snap'.skipped = snap.skipped
          /\ snap'.current = snap.current /\ snap'.plan = snap.plan
      BY <1>1 DEF AttemptRefused, AttemptStarted, TypeOK, WorkflowSnapshot
    <2>2. \/ Goto(c, "done") /\ snap'.tstatus = [snap.tstatus EXCEPT ![c] = "failed"]
          \/ Goto(c, "agent") /\ snap'.tstatus = [snap.tstatus EXCEPT ![c] = "running"]
      BY <1>1 DEF AttemptRefused, AttemptStarted, TypeOK, WorkflowSnapshot
    <2>3. /\ pc[c] # "idle" /\ pc[c] \notin {"saving", "done"}
          /\ "failed" \in TaskStatus /\ "running" \in TaskStatus
      BY <1>1 DEF ControlPoints, TaskStatus
    <2>4. CASE Goto(c, "done") /\ snap'.tstatus = [snap.tstatus EXCEPT ![c] = "failed"]
      BY <1>1, <2>1, <2>3, <2>4, TaskMoveFacts
    <2>5. CASE Goto(c, "agent") /\ snap'.tstatus = [snap.tstatus EXCEPT ![c] = "running"]
      BY <1>1, <2>1, <2>3, <2>5, TaskMoveFacts
    <2> QED
      BY <2>2, <2>4, <2>5
  <1>2. ASSUME pc[c] \in ControlPoints, NEW point, Goto(c, point), pc'[Main] # "batch" \/ c # Main,
               point \in ControlPoints \/ c = Main,
               snap'.tstatus = snap.tstatus, SameLists(snap', snap), snap'.current = snap.current,
               dagDone' = dagDone
        PROVE  TaskFacts'
    <2>1. \A t \in Ids : SameWork(t)
      BY <1>2, MainNotId DEF Goto, TypeOK, SameWork, Outcomes, ControlPoints
    <2>2. Executing' => Executing
      BY <1>2, MainNotId DEF Goto, TypeOK, Executing, ControlPoints
    <2>3. pc'[Main] = "batch" => pc[Main] = "batch"
      BY <1>2, MainNotId DEF Goto, TypeOK
    <2> QED
      BY <1>2, <2>1, <2>2, <2>3, FactsFrame
  <1>3. CASE pc[c] \in ControlPoints /\ Continue(c)
    <2>1. CASE c \in Ids /\ (AttemptRefused(c) \/ AttemptStarted(c))
      BY <1>1, <1>3, <2>1 DEF Continue
    <2>2. CASE c = Main /\ (LoopLeft \/ LoopContinued)
      <3>1. \E point \in {"returned", "planning"} : Goto(Main, point)
        BY <2>2 DEF LoopLeft, LoopContinued
      <3>2. snap' = snap /\ dagDone' = dagDone
        BY <1>3, <2>2 DEF Continue, LoopLeft, LoopContinued
      <3>3. pc'[Main] # "batch"
        BY <3>1, MainNotId DEF Goto, TypeOK
      <3> QED
        BY <1>2, <1>3, <2>2, <3>1, <3>2, <3>3 DEF SameLists
    <2> QED
      BY <1>3, <2>1, <2>2 DEF Continue
  <1>4. CASE ControlsPause(c) \/ PauseLeft(c) \/ PauseWait(c)
    <2>1. /\ snap'.tstatus = snap.tstatus /\ SameLists(snap', snap)
          /\ snap'.current = snap.current
      <3>1. CASE PauseWait(c)
        BY <3>1 DEF PauseWait, SameLists
      <3>2. CASE ControlsPause(c) \/ PauseLeft(c)
        BY <3>2 DEF ControlsPause, PauseLeft, Save, TypeOK, WorkflowSnapshot, SameLists
      <3> QED
        BY <1>4, <3>1, <3>2
    <2>2. PICK point \in ControlPoints : Goto(c, point) /\ pc[c] \in ControlPoints
      BY <1>4 DEF ControlsPause, PauseWait, PauseLeft, AtBoundary, ControlPoints
    <2>3. pc'[Main] # "batch" \/ c # Main
      BY <2>2, MainNotId DEF Goto, TypeOK, ControlPoints
    <2> QED
      BY <1>2, <1>4, <2>1, <2>2, <2>3 DEF ControlsPause, PauseLeft, PauseWait
  <1> QED
    BY <1>3, <1>4, CancelFacts
       DEF Boundary, ControlsPass, CancelCheckpointed, PauseCancelled, ResumeCheckpointed,
           AtBoundary, ControlPoints

LEMMA TaskStepFacts ==
  ASSUME IInv, Recorded, TaskFacts, used["fault"] = 0, NEW t \in Ids, TaskStep(t)
  PROVE  TaskFacts'
  <1> TypeOK /\ snap.plan \in SUBSET Tasks /\ snap.tstatus \in [Ids -> TaskStatus]
    BY DEF IInv, TypeOK, WorkflowSnapshot
  <1> pc[t] # "idle" /\ "success" \in TaskStatus /\ "failed" \in TaskStatus /\ "retrying" \in TaskStatus
    BY DEF TaskStep, AgentSucceeds, AgentFails, SuccessSaved, FailureRecorded, RetryScheduled,
           RetryReleased, LoopExhausted, FailureSaved, TaskStatus
  <1>1. CASE AgentSucceeds(t)
    <2>1. /\ snap'.completed = Mark(snap.completed, t) /\ snap'.skipped = snap.skipped
          /\ snap'.current = snap.current /\ snap'.plan = snap.plan
          /\ snap'.tstatus = [snap.tstatus EXCEPT ![t] = "success"]
          /\ dagDone' = dagDone \cup {t} /\ Goto(t, "saving")
      BY <1>1 DEF AgentSucceeds, TypeOK, WorkflowSnapshot, Save
    <2> QED
      BY <2>1, TaskMoveFacts
  <1>2. CASE SuccessSaved(t)
    <2>1. /\ snap'.completed = snap.completed /\ snap'.skipped = snap.skipped
          /\ snap'.current = snap.current /\ dagDone' = dagDone
          /\ snap'.tstatus = snap.tstatus /\ snap.tstatus[t] = "success"
      BY <1>2 DEF SuccessSaved, DynamicTasks, TypeOK, WorkflowSnapshot, TaskFacts, Points
    <2>2. snap.plan \subseteq snap'.plan /\ snap'.plan \subseteq Tasks
      <3>1. snap'.plan = snap.plan \/ (t \in Generators /\ snap'.plan = snap.plan \cup {Generated[t]})
        BY <1>2 DEF SuccessSaved, DynamicTasks, TypeOK, WorkflowSnapshot
      <3> QED
        BY <3>1, GraphAssumption
    <2>3. \/ Goto(t, "failing")
          \/ Goto(t, "done") /\ (t \in Generators => Generated[t] \in snap'.plan)
      BY <1>2 DEF SuccessSaved, DynamicTasks, TypeOK, WorkflowSnapshot
    <2>4. snap'.tstatus = [snap.tstatus EXCEPT ![t] = "success"]
      BY <2>1
    <2> QED
      BY <2>1, <2>2, <2>3, <2>4, TaskMoveFacts
  <1>3. CASE AgentFails(t) \/ RetryReleased(t)
    <2>1. /\ snap' = snap /\ dagDone' = dagDone
          /\ (pc[t] = "agent" /\ Goto(t, "failing")) \/ (pc[t] = "retrying" /\ Goto(t, "top"))
      BY <1>3 DEF AgentFails, RetryReleased, Save
    <2>2. t \in Generators /\ t \in Range(snap.completed) /\ snap.tstatus[t] = "success" =>
            Generated[t] \in snap.plan
      BY <2>1 DEF TaskFacts, Extended
    <2>3. snap'.tstatus = [snap.tstatus EXCEPT ![t] = snap.tstatus[t]]
            /\ snap.tstatus[t] \in TaskStatus
      BY <2>1
    <2> QED
      BY <2>1, <2>2, <2>3, TaskMoveFacts
  <1>4. CASE FailureSaved(t)
    <2>1. snap' = snap /\ dagDone' = dagDone /\ pc[t] = "closing" /\ Goto(t, "done")
            /\ snap.tstatus[t] = "failed"
      BY <1>4 DEF FailureSaved, Save, TaskFacts, Points
    <2>2. snap'.tstatus = [snap.tstatus EXCEPT ![t] = "failed"]
      BY <2>1
    <2> QED
      BY <2>1, <2>2, TaskMoveFacts
  <1>5. CASE FailureRecorded(t) \/ RetryScheduled(t)
    <2>1. /\ snap'.completed = snap.completed /\ snap'.skipped = snap.skipped
          /\ snap'.current = snap.current /\ snap'.plan = snap.plan
          /\ dagDone' = dagDone /\ pc[t] = "failing"
      BY <1>5 DEF FailureRecorded, RetryScheduled, TypeOK, WorkflowSnapshot, Save
    <2>2. \/ Goto(t, "top") /\ snap'.tstatus = [snap.tstatus EXCEPT ![t] = "failed"]
          \/ Goto(t, "retrying") /\ snap'.tstatus = [snap.tstatus EXCEPT ![t] = "retrying"]
      BY <1>5 DEF FailureRecorded, RetryScheduled, TypeOK, WorkflowSnapshot, Save
    <2> QED
      BY <2>1, <2>2, TaskMoveFacts
  <1>6. CASE LoopExhausted(t)
    <2>1. CASE snap.tstatus[t] = "success"
      <3>1. snap' = snap /\ dagDone' = dagDone /\ pc[t] = "top" /\ Goto(t, "done")
        BY <1>6, <2>1 DEF LoopExhausted, Save, Keep
      <3>2. t \in Generators /\ t \in Range(snap.completed) => Generated[t] \in snap.plan
        BY <2>1, <3>1 DEF TaskFacts, Extended
      <3>3. snap'.tstatus = [snap.tstatus EXCEPT ![t] = "success"]
        BY <2>1, <3>1
      <3> QED
        BY <2>1, <3>1, <3>2, <3>3, TaskMoveFacts
    <2>2. CASE snap.tstatus[t] # "success"
      <3>1. /\ snap' = [snap EXCEPT !.tstatus[t] = "failed", !.failed = @ \cup {t}]
            /\ dagDone' = dagDone /\ pc[t] = "top" /\ Goto(t, "closing")
        BY <1>6, <2>2 DEF LoopExhausted, Save, Keep
      <3>2. /\ snap'.completed = snap.completed /\ snap'.skipped = snap.skipped
            /\ snap'.current = snap.current /\ snap'.plan = snap.plan
            /\ snap'.tstatus = [snap.tstatus EXCEPT ![t] = "failed"]
        BY <3>1 DEF TypeOK, WorkflowSnapshot
      <3> QED
        BY <3>1, <3>2, TaskMoveFacts
    <2> QED
      BY <2>1, <2>2
  <1> QED
    BY <1>1, <1>2, <1>3, <1>4, <1>5, <1>6 DEF TaskStep

LEMMA PlanBatchFacts ==
  ASSUME IInv, TaskFacts, PlanBatch
  PROVE  TaskFacts'
  <1> TypeOK /\ snap.plan \subseteq Tasks /\ Tasks \subseteq Ids
    BY DEF IInv, TypeOK, WorkflowSnapshot, Ids
  <1>1. PICK S \in SUBSET snap.plan :
          /\ S = Refused(S)
          /\ dagDone' = dagDone \cup ((snap.skipped \cup S) \cap snap.plan)
          /\ \E s : snap' = [WithSkipped(S) EXCEPT !.status = s]
          /\ \E point \in {"ending", "scheduling"} : Goto(Main, point)
    BY DEF PlanBatch, Save
  <1>2. /\ snap'.completed = snap.completed /\ snap'.plan = snap.plan
        /\ snap'.skipped = snap.skipped \cup S
        /\ \A t \in Ids : snap'.tstatus[t] = IF t \in S THEN "success" ELSE snap.tstatus[t]
    BY <1>1 DEF WithSkipped, TypeOK, WorkflowSnapshot
  <1>3. /\ pc[Main] = "planning" /\ pc'[Main] # "batch" /\ Executing /\ Executing'
        /\ \A t \in Ids : pc[t] = "idle" /\ pc'[t] = "idle"
    BY <1>1, MainNotId DEF PlanBatch, Goto, TypeOK, Executing, IInv, Flight
  <1>4. \A t \in S : snap.tstatus[t] = "pending" /\ t \notin Range(snap.completed)
    <2>1. \A t \in S : snap.tstatus[t] = "pending"
      BY <1>1 DEF Refused
    <2> QED
      BY <1>3, <2>1 DEF TaskFacts, Kept, InFlight
  <1>5. Points'
    BY <1>2, <1>3 DEF TaskFacts, Points
  <1>6. Kept'
    BY <1>2, <1>3 DEF TaskFacts, Kept, InFlight, Rejectable
  <1>7. Extended'
    BY <1>2, <1>3, <1>4, GraphAssumption DEF TaskFacts, Extended
  <1>8. Unplanned' /\ Marked' /\ Settled'
    BY <1>1, <1>2, <1>3 DEF TaskFacts, Unplanned, Marked, Settled
  <1> QED
    BY <1>5, <1>6, <1>7, <1>8 DEF TaskFacts

\* What the DAG calls done has succeeded when the next batch is about to start, if no
\* failure can stand.
LEMMA DoneSucceeded ==
  ASSUME IInv, Recorded, RunInv, pc[Main] \in {"planning", "scheduling"},
         Firm, NEW d \in Tasks, d \in dagDone
  PROVE  snap.tstatus[d] = "success"
  <1>1. d \in Ids /\ pc[d] = "idle" /\ d \in Range(snap.completed) \cup snap.skipped
    BY DEF IInv, Flight, Ids, Recorded, InDag, MarkedInDag, Executing
  <1>2. snap.tstatus[d] = "success" \/ (Rejectable(d) /\ snap.tstatus[d] = "failed")
    BY <1>1 DEF RunInv, TaskFacts, Kept, InFlight
  <1>3. FailFast => snap.failed = {} /\ snap.cancelled = {}
    BY DEF RunInv, MainFacts, AtAwait
  <1>4. FailFast => snap.tstatus[d] # "failed"
    BY <1>1, <1>3 DEF IInv, Accounted
  <1>5. Rejectable(d) => d \in Generators
    BY DEF Rejectable
  <1> QED
    BY <1>2, <1>4, <1>5 DEF Firm

LEMMA DispatchFacts ==
  ASSUME IInv, Recorded, RunInv, Dispatch
  PROVE  TaskFacts'
  <1> TypeOK /\ Tasks \subseteq Ids
    BY DEF IInv, Ids
  <1>1. PICK batch \in Batches(ReadyTasks(dagDone)) :
          /\ snap' = [snap EXCEPT !.status = "running", !.current = batch]
          /\ pc' = [c \in Coroutines |-> IF c \in batch THEN "top"
                                         ELSE IF c = Main THEN "batch" ELSE pc[c]]
    BY DEF Dispatch
  <1>2. /\ SameLists(snap', snap) /\ snap'.tstatus = snap.tstatus /\ dagDone' = dagDone
    BY <1>1 DEF Dispatch, TypeOK, WorkflowSnapshot, SameLists
  <1>3. pc[Main] = "scheduling" /\ \A t \in Ids : pc[t] = "idle" /\ pc'[t] \in {"idle", "top"}
    BY <1>1, MainNotId DEF Dispatch, IInv, Flight
  <1>4. Points' /\ Kept' /\ Extended'
    <2>1. Points'
      BY <1>2, <1>3 DEF RunInv, TaskFacts, Points
    <2>2. Kept'
      BY <1>2, <1>3 DEF RunInv, TaskFacts, Kept, InFlight, Rejectable, SameLists
    <2>3. Extended'
      BY <1>2, <1>3, GraphAssumption DEF RunInv, TaskFacts, Extended, SameLists
    <2> QED
      BY <2>1, <2>2, <2>3
  <1>5. Unplanned' /\ Marked'
    BY <1>2, <1>3 DEF RunInv, TaskFacts, Unplanned, Marked, Executing, SameLists
  <1>6. Settled'
    BY <1>2, <1>3, DoneSucceeded DEF Settled, Firm, Rejectable
  <1> QED
    BY <1>4, <1>5, <1>6 DEF TaskFacts

LEMMA UndoNextFacts ==
  ASSUME IInv, TaskFacts, UndoNext
  PROVE  TaskFacts'
  <1> TypeOK /\ Tasks \subseteq Ids
    BY DEF IInv, Ids
  <1>1. dagDone' = dagDone /\ pc[Main] = "undoNext"
    BY DEF UndoNext
  <1>2. CASE UNCHANGED snap /\ (Goto(Main, "raised") \/ UNCHANGED pc)
    <2>1. \A t \in Ids : SameWork(t)
      BY <1>2, MainNotId DEF Goto, TypeOK, SameWork
    <2>2. pc'[Main] # "batch" /\ Executing
      BY <1>1, <1>2, MainNotId DEF Goto, TypeOK, Executing
    <2> QED
      BY <1>1, <1>2, <2>1, <2>2, FactsFrame DEF SameLists
  <1>3. CASE /\ Visited \in snap.plan \cap Undoable
             /\ snap' = [snap EXCEPT !.tstatus[UndoOf[Visited]] = "pending",
                                     !.attempts[UndoOf[Visited]] = 0]
             /\ pc' = [pc EXCEPT ![UndoOf[Visited]] = "top", ![Main] = "undoing"]
    <2> DEFINE undo == UndoOf[Visited]
    <2>1. undo \in Ids /\ undo \notin Tasks /\ undo # Main
      BY <1>3, GraphAssumption DEF Ids
    <2>2. /\ SameLists(snap', snap)
          /\ \A t \in Ids : t # undo => snap'.tstatus[t] = snap.tstatus[t]
      BY <1>3, <2>1 DEF TypeOK, WorkflowSnapshot, SameLists
    <2>3. /\ pc'[Main] = "undoing" /\ pc'[undo] = "top"
          /\ \A t \in Ids : t # undo => pc'[t] = pc[t]
      BY <1>3, <2>1, MainNotId DEF TypeOK
    <2> HIDE DEF undo
    <2>4. Points'
      BY <2>2, <2>3 DEF TaskFacts, Points
    <2>5. Kept'
      BY <2>1, <2>2, <2>3 DEF TaskFacts, Kept, InFlight, Rejectable, SameLists
    <2>6. Extended'
      BY <2>1, <2>2, <2>3, GraphAssumption DEF TaskFacts, Extended, SameLists
    <2>7. snap.plan \subseteq Tasks
      BY DEF TypeOK, WorkflowSnapshot
    <2>8. Unplanned' /\ Marked' /\ Settled'
      BY <1>1, <2>1, <2>2, <2>3, <2>7
         DEF TaskFacts, Unplanned, Marked, Settled, Executing, SameLists
    <2> QED
      BY <2>4, <2>5, <2>6, <2>8 DEF TaskFacts
  <1> QED
    BY <1>2, <1>3 DEF UndoNext

LEMMA MainStepFacts ==
  ASSUME IInv, Recorded, RunInv, MainStep
  PROVE  TaskFacts'
  <1> TypeOK /\ TaskFacts
    BY DEF IInv, RunInv
  <1>1. CASE Started \/ BatchSettled \/ BatchFailed \/ RollbackStarted \/ RolledBack
               \/ FailurePropagated \/ Ended
    <2>1. SameLists(snap', snap) /\ snap'.tstatus = snap.tstatus
      <3>1. CASE Started \/ BatchSettled \/ RollbackStarted \/ Ended
        BY <3>1 DEF Started, BatchSettled, RollbackStarted, Ended, SameLists
      <3>2. CASE BatchFailed \/ RolledBack \/ FailurePropagated
        BY <3>2 DEF BatchFailed, RolledBack, FailurePropagated, Save, TypeOK, WorkflowSnapshot,
                    SameLists
      <3> QED
        BY <1>1, <3>1, <3>2
    <2>2. /\ \E point : Goto(Main, point) /\ point # "batch"
          /\ Executing /\ dagDone' = dagDone
      BY <1>1 DEF Started, BatchSettled, BatchFailed, RollbackStarted, RolledBack,
                  FailurePropagated, Ended, Executing
    <2>3. pc'[Main] # "batch" /\ \A t \in Ids : SameWork(t)
      BY <2>2, MainNotId DEF Goto, TypeOK, SameWork
    <2> QED
      BY <2>1, <2>2, <2>3, FactsFrame
  <1>2. CASE BatchGathered
    <2>1. SameLists(snap', snap) /\ snap'.tstatus = snap.tstatus /\ dagDone' = dagDone
      BY <1>2 DEF BatchGathered, Save, TypeOK, WorkflowSnapshot, SameLists
    <2>2. Main \notin snap.current
      BY MainNotId DEF TypeOK, WorkflowSnapshot, Ids
    <2>3. pc'[Main] # "batch" /\ Executing /\ \A t \in Ids : SameWork(t)
      BY <1>2, <2>2, MainNotId DEF BatchGathered, SameWork, Executing
    <2> QED
      BY <2>1, <2>3, FactsFrame
  <1>3. CASE UndoDone
    <2>1. SameLists(snap', snap) /\ snap'.tstatus = snap.tstatus /\ dagDone' = dagDone
      BY <1>3 DEF UndoDone, SameLists
    <2>2. pc'[Main] # "batch" /\ Executing /\ \A t \in Ids : SameWork(t)
      BY <1>3, MainNotId DEF UndoDone, TypeOK, SameWork, Executing
    <2> QED
      BY <2>1, <2>2, FactsFrame
  <1> QED
    BY <1>1, <1>2, <1>3, PlanBatchFacts, DispatchFacts, UndoNextFacts DEF MainStep

\* The calls from outside and the store, which leave the workflow as it is.
Aside ==
  Pause \/ ResumePaused \/ (\E k \in Clients : Cancel(k)) \/ (\E c \in Writers : StoreStep(c))

LEMMA AsideSame ==
  ASSUME Aside
  PROVE  /\ snap' = snap /\ dagDone' = dagDone /\ result' = result /\ (pc' = pc \/ pc' = Wake)
         /\ "cancel" \in requests => "cancel" \in requests'
  BY DEF Aside, Pause, ResumePaused, Cancel, StoreStep, Dumped, Landed

LEMMA RequestFacts ==
  ASSUME IInv, TaskFacts, Aside
  PROVE  TaskFacts'
  <1>1. snap' = snap /\ dagDone' = dagDone /\ (pc' = pc \/ pc' = Wake)
    BY AsideSame
  <1>2. \A c \in Coroutines : pc'[c] = pc[c] \/ (pc[c] = "waiting" /\ pc'[c] = "woken")
    BY <1>1 DEF Wake
  <1>3. \A t \in Ids : SameWork(t)
    BY <1>2, MainNotId DEF SameWork, Outcomes
  <1>4. (pc'[Main] = "batch" => pc[Main] = "batch") /\ (Executing' => Executing)
    BY <1>2, MainNotId DEF Executing
  <1> QED
    BY <1>1, <1>3, <1>4, FactsFrame DEF SameLists


-----------------------------------------------------------------------------
(* The main loop                                                           *)

\* While a coroutine is inside _execute_task the main loop is parked at gather, or at the
\* await of a rollback task.
LEMMA TaskMoveMain ==
  ASSUME IInv, MainFacts, NEW t \in Ids, NEW point, Goto(t, point), pc[t] # "idle",
         result' = result, requests' = requests, snap'.current = snap.current,
         snap.cancelled \subseteq snap'.cancelled,
         snap'.cancelled # {} \/ snap'.status = "cancelled" => "cancel" \in requests,
         snap'.status = "cancelled" =>
           \/ snap'.cancelled # {} \/ point = "cancelling"
           \/ snap.status = "cancelled" /\ pc[t] # "cancelling"
  PROVE  MainFacts'
  <1> TypeOK
    BY DEF IInv
  <1>1. pc'[Main] = pc[Main] /\ \A u \in Ids : pc'[u] = IF u = t THEN point ELSE pc[u]
    BY MainNotId DEF TypeOK, Goto
  <1>2. pc[Main] \in {"batch", "undoing"} /\ (pc[Main] = "batch" => t \in snap.current)
    BY DEF IInv, Flight
  <1>3. UnderWay' /\ AtAwait'
    BY <1>1, <1>2 DEF MainFacts, UnderWay, AtAwait, Executing, ControlPoints
  <1>4. snap.current \subseteq Ids
    BY DEF TypeOK, WorkflowSnapshot, Ids
  <1>5. ASSUME pc[Main] = "batch", snap'.status = "cancelled", snap'.cancelled = {}
        PROVE  \E u \in snap.current : pc'[u] = "cancelling"
    <2>1. CASE point = "cancelling"
      BY <1>1, <1>2, <1>5, <2>1
    <2>2. CASE snap.status = "cancelled" /\ pc[t] # "cancelling"
      <3>1. PICK u \in snap.current : pc[u] = "cancelling"
        BY <1>5, <2>2 DEF MainFacts, CancelAsked
      <3> QED
        BY <1>1, <1>4, <2>2, <3>1
    <2> QED
      BY <1>5, <2>1, <2>2
  <1>6. CancelAsked'
    BY <1>1, <1>2, <1>5 DEF CancelAsked
  <1> QED
    BY <1>3, <1>6 DEF MainFacts

LEMMA TaskStepMain ==
  ASSUME IInv, MainFacts, NEW t \in Ids, TaskStep(t)
  PROVE  MainFacts'
  <1> TypeOK
    BY DEF IInv
  <1>1. /\ snap'.status = snap.status /\ snap'.cancelled = snap.cancelled
        /\ snap'.current = snap.current
    BY DEF TaskStep, AgentSucceeds, AgentFails, SuccessSaved, DynamicTasks, FailureRecorded,
           RetryScheduled, RetryReleased, LoopExhausted, FailureSaved, Save, TypeOK,
           WorkflowSnapshot, Keep
  <1>2. /\ result' = result /\ requests' = requests /\ \E point : Goto(t, point)
        /\ pc[t] # "idle" /\ pc[t] # "cancelling"
    BY DEF TaskStep, AgentSucceeds, AgentFails, SuccessSaved, DynamicTasks, FailureRecorded,
           RetryScheduled, RetryReleased, LoopExhausted, FailureSaved
  <1> QED
    BY <1>1, <1>2, TaskMoveMain DEF MainFacts, CancelAsked

LEMMA TaskBoundaryMain ==
  ASSUME IInv, MainFacts, NEW t \in Ids, Boundary(t)
  PROVE  MainFacts'
  <1> TypeOK /\ t # Main
    BY MainNotId DEF IInv
  <1>1. CASE pc[t] \in ControlPoints /\ Continue(t)
    <2>1. result' = result /\ requests' = requests /\ pc[t] # "idle"
      BY <1>1 DEF Continue, AttemptRefused, AttemptStarted, ControlPoints
    <2>2. CASE AttemptRefused(t)
      <3>1. /\ snap'.status = "cancelled" /\ snap'.current = snap.current
            /\ snap'.cancelled = snap.cancelled \cup {t} /\ snap.status = "cancelled"
            /\ Goto(t, "done")
        BY <2>2 DEF AttemptRefused, TypeOK, WorkflowSnapshot
      <3> QED
        BY <2>1, <3>1, TaskMoveMain DEF MainFacts, CancelAsked
    <2>3. CASE AttemptStarted(t)
      <3>1. /\ snap'.status = snap.status /\ snap'.current = snap.current
            /\ snap'.cancelled = snap.cancelled /\ snap.status # "cancelled"
            /\ Goto(t, "agent")
        BY <2>3 DEF AttemptStarted, TypeOK, WorkflowSnapshot
      <3> QED
        BY <2>1, <3>1, TaskMoveMain DEF MainFacts, CancelAsked
    <2> QED
      BY <1>1, <2>2, <2>3 DEF Continue
  <1>2. CASE ControlsCancel(t)
    <2>1. /\ snap'.status = "cancelled" /\ snap'.current = snap.current
          /\ snap.cancelled \subseteq snap'.cancelled /\ "cancel" \in requests
          /\ result' = result /\ requests' = requests
          /\ pc[t] = "top" /\ Goto(t, "cancelling")
      BY <1>2 DEF ControlsCancel, AtBoundary, Save, TypeOK, WorkflowSnapshot
    <2> QED
      BY <2>1, TaskMoveMain
  <1>3. CASE ControlsPause(t) \/ PauseLeft(t) \/ PauseWait(t)
    <2>1. /\ snap'.current = snap.current /\ snap'.cancelled = snap.cancelled
          /\ snap'.status \in {"paused", "running"} \/ snap' = snap
      BY <1>3 DEF ControlsPause, PauseLeft, PauseWait, Save, TypeOK, WorkflowSnapshot
    <2>2. /\ result' = result /\ requests' = requests /\ \E point : Goto(t, point)
          /\ pc[t] # "idle" /\ pc[t] # "cancelling"
      BY <1>3 DEF ControlsPause, PauseLeft, PauseWait, AtBoundary
    <2> QED
      BY <2>1, <2>2, TaskMoveMain DEF MainFacts, CancelAsked
  <1> QED
    BY <1>1, <1>2, <1>3
       DEF Boundary, ControlsPass, CancelCheckpointed, PauseCancelled, ResumeCheckpointed,
           AtBoundary, ControlPoints

LEMMA MainBoundaryMain ==
  ASSUME IInv, MainFacts, Boundary(Main)
  PROVE  MainFacts'
  <1> TypeOK /\ Main \in Coroutines /\ Main \notin Ids
    BY MainNotId DEF IInv
  <1> UnderWay /\ CancelAsked /\ AtAwait
    BY DEF MainFacts
  <1>1. CASE pc[Main] \in ControlPoints /\ Continue(Main) /\ (pc[Main] = "top" => requests = {})
    <2>1. snap' = snap /\ requests' = requests /\ (LoopLeft \/ LoopContinued)
      BY <1>1 DEF Continue, LoopLeft, LoopContinued
    <2>2. CASE LoopLeft
      <3>1. pc'[Main] = "returned"
        BY <2>2 DEF LoopLeft, Goto, TypeOK
      <3> QED
        BY <2>1, <3>1 DEF MainFacts, UnderWay, CancelAsked, AtAwait, ControlPoints
    <2>3. CASE LoopContinued
      <3>1. pc'[Main] = "planning" /\ result' = result
              /\ snap.status # "cancelled" /\ snap.status # "paused"
        BY <2>3 DEF LoopContinued, Goto, TypeOK
      <3>2. snap.cancelled = {} /\ snap.current = {} /\ (FailFast => snap.failed = {})
        BY <1>1, <3>1 DEF CancelAsked, AtAwait, ControlPoints
      <3>3. UnderWay'
        BY <1>1, <3>1 DEF UnderWay, Executing, ControlPoints
      <3> QED
        BY <2>1, <3>1, <3>2, <3>3 DEF MainFacts, CancelAsked, AtAwait, ControlPoints
    <2> QED
      BY <2>1, <2>2, <2>3
  <1>2. CASE ControlsCancel(Main) \/ ControlsPause(Main) \/ PauseLeft(Main) \/ PauseWait(Main)
    <2>1. /\ snap'.current = snap.current /\ snap'.failed = snap.failed
          /\ result' = result /\ requests' = requests /\ pc[Main] \in ControlPoints
      BY <1>2 DEF ControlsCancel, ControlsPause, PauseLeft, PauseWait, AtBoundary, Save, TypeOK,
                  WorkflowSnapshot, ControlPoints
    <2>2. \/ /\ pc'[Main] = "cancelling" /\ snap'.status = "cancelled" /\ "cancel" \in requests
          \/ /\ pc'[Main] = "pausing" /\ snap'.status = "paused"
             /\ snap'.cancelled = snap.cancelled
          \/ /\ pc'[Main] = "resuming" /\ snap'.status = "running"
             /\ snap'.cancelled = snap.cancelled /\ "cancel" \notin requests
          \/ pc[Main] = "pausing" /\ pc'[Main] = "waiting" /\ snap' = snap
      BY <1>2 DEF ControlsCancel, ControlsPause, PauseLeft, PauseWait, Goto, Save, TypeOK,
                  WorkflowSnapshot
    <2>3. UnderWay'
      BY <2>1, <2>2 DEF UnderWay, Executing, ControlPoints
    <2>4. CancelAsked'
      BY <2>1, <2>2 DEF CancelAsked
    <2>5. AtAwait'
      BY <2>1, <2>2 DEF AtAwait, CancelAsked, ControlPoints
    <2> QED
      BY <2>3, <2>4, <2>5 DEF MainFacts
  <1> QED
    BY <1>1, <1>2
       DEF Boundary, ControlsPass, CancelCheckpointed, PauseCancelled, ResumeCheckpointed,
           AtBoundary, ControlPoints

LEMMA PlanBatchMain ==
  ASSUME IInv, MainFacts, PlanBatch
  PROVE  MainFacts'
  <1> TypeOK /\ UnderWay /\ CancelAsked /\ AtAwait
    BY DEF IInv, MainFacts
  <1>1. PICK S \in SUBSET snap.plan, s \in {FinalRunStatus, "escalated", "scheduled"},
             point \in {"ending", "scheduling"} :
          /\ snap' = [WithSkipped(S) EXCEPT !.status = s]
          /\ Goto(Main, point)
          /\ point = "scheduling" => ReadyTasks(dagDone') # {} /\ s = "scheduled"
    BY DEF PlanBatch, Save
  <1>2. /\ snap'.status = s /\ snap'.plan = snap.plan /\ snap'.current = snap.current
        /\ snap'.failed = snap.failed /\ snap'.cancelled = snap.cancelled
    BY <1>1 DEF WithSkipped, TypeOK, WorkflowSnapshot
  <1>3. /\ pc[Main] = "planning" /\ pc'[Main] = point
        /\ result' = result /\ requests' = requests
    BY <1>1, MainNotId DEF PlanBatch, Goto, TypeOK
  <1>4. snap.cancelled = {} /\ snap.current = {} /\ (FailFast => snap.failed = {})
    BY <1>3 DEF AtAwait
  <1>5. s # "cancelled"
    BY <1>4 DEF FinalRunStatus
  <1>6. UnderWay' /\ CancelAsked'
    BY <1>2, <1>3, <1>4, <1>5 DEF UnderWay, CancelAsked, Executing
  <1>7. point = "scheduling" => ReadyTasks(dagDone)' # {}
    BY <1>1, <1>2 DEF ReadyTasks
  <1>8. AtAwait'
    BY <1>1, <1>2, <1>3, <1>4, <1>7 DEF AtAwait, ControlPoints
  <1> QED
    BY <1>6, <1>8 DEF MainFacts

LEMMA MainStepMain ==
  ASSUME IInv, MainFacts, MainStep
  PROVE  MainFacts'
  <1> TypeOK /\ UnderWay /\ CancelAsked /\ AtAwait /\ Main \in Coroutines
    BY MainNotId DEF IInv, MainFacts
  <1>1. CASE Started \/ BatchSettled
    <2>1. /\ snap' = snap /\ requests' = requests /\ result' = result
          /\ pc[Main] \in {"starting", "settling"} /\ pc'[Main] = "top"
          /\ pc[Main] = "settling" /\ FailFast => snap.failed = {}
      BY <1>1 DEF Started, BatchSettled, Goto, TypeOK
    <2> QED
      BY <2>1 DEF MainFacts, UnderWay, CancelAsked, AtAwait, Executing, ControlPoints
  <1>2. CASE Dispatch
    <2>1. Main \notin Tasks /\ ReadyTasks(dagDone) \subseteq Tasks
      BY MainNotId DEF TypeOK, WorkflowSnapshot, ReadyTasks, Ids
    <2>2. pc'[Main] = "batch" /\ requests' = requests /\ result' = result
            /\ pc[Main] = "scheduling"
      BY <1>2, <2>1 DEF Dispatch, Batches
    <2>3. snap'.status = "running" /\ snap'.cancelled = snap.cancelled
      BY <1>2 DEF Dispatch, TypeOK, WorkflowSnapshot
    <2> QED
      BY <2>2, <2>3 DEF MainFacts, UnderWay, CancelAsked, AtAwait, Executing, ControlPoints
  <1>3. CASE BatchGathered
    <2>1. Main \notin snap.current
      BY MainNotId DEF TypeOK, WorkflowSnapshot, Ids
    <2>2. /\ pc[Main] = "batch" /\ pc'[Main] = "settling" /\ requests' = requests
          /\ result' = result /\ \A t \in snap.current : pc[t] = "done"
      BY <1>3, <2>1 DEF BatchGathered
    <2>3. /\ snap'.status = snap.status /\ snap'.cancelled = snap.cancelled
          /\ snap'.current = {}
      BY <1>3 DEF BatchGathered, Save, TypeOK, WorkflowSnapshot
    <2> QED
      BY <2>2, <2>3 DEF MainFacts, UnderWay, CancelAsked, AtAwait, Executing, ControlPoints
  <1>4. CASE BatchFailed \/ RollbackStarted \/ RolledBack \/ FailurePropagated \/ Ended
    <2>1. /\ snap'.cancelled = snap.cancelled /\ requests' = requests
          /\ snap'.status \in {snap.status, "rolling_back", "rolled_back", FinalRunStatus}
      BY <1>4 DEF BatchFailed, RollbackStarted, RolledBack, FailurePropagated, Ended, Save,
                  TypeOK, WorkflowSnapshot
    <2>2. /\ Executing
          /\ \/ pc'[Main] \in {"rollback", "undoNext", "ending"} /\ result' = result
             \/ pc'[Main] = "rolledBack" /\ result' = result /\ snap'.status = "rolled_back"
             \/ pc'[Main] = "returned"
      BY <1>4 DEF BatchFailed, RollbackStarted, RolledBack, FailurePropagated, Ended, Save,
                  Goto, TypeOK, WorkflowSnapshot, Executing
    <2>3. FinalRunStatus = "cancelled" => snap.cancelled # {}
      BY DEF FinalRunStatus
    <2> QED
      BY <2>1, <2>2, <2>3 DEF MainFacts, UnderWay, CancelAsked, AtAwait, Executing, ControlPoints
  <1>5. CASE UndoNext \/ UndoDone
    <2>1. /\ snap'.cancelled = snap.cancelled /\ snap'.status = snap.status
          /\ requests' = requests /\ result' = result
      BY <1>5 DEF UndoNext, UndoDone, TypeOK, WorkflowSnapshot
    <2>2. Executing /\ pc'[Main] \in {"raised", "undoNext", "undoing"}
      BY <1>5, MainNotId DEF UndoNext, UndoDone, Goto, TypeOK, Executing
    <2> QED
      BY <2>1, <2>2 DEF MainFacts, UnderWay, CancelAsked, AtAwait, Executing, ControlPoints
  <1> QED
    BY <1>1, <1>2, <1>3, <1>4, <1>5, PlanBatchMain DEF MainStep

LEMMA RequestMain ==
  ASSUME IInv, MainFacts, Aside
  PROVE  MainFacts'
  <1> TypeOK /\ UnderWay /\ CancelAsked /\ AtAwait
    BY DEF IInv, MainFacts
  <1>1. snap' = snap /\ dagDone' = dagDone /\ result' = result /\ (pc' = pc \/ pc' = Wake)
          /\ ("cancel" \in requests => "cancel" \in requests')
    BY AsideSame
  <1>2. \A c \in Coroutines : pc'[c] = pc[c] \/ (pc[c] = "waiting" /\ pc'[c] = "woken")
    BY <1>1 DEF Wake
  <1>3. pc'[Main] = pc[Main] \/ (pc[Main] = "waiting" /\ pc'[Main] = "woken")
    BY <1>2, MainNotId
  <1>4. UnderWay' /\ AtAwait'
    BY <1>1, <1>3 DEF UnderWay, AtAwait, Executing, ControlPoints, ReadyTasks
  <1>5. snap.current \subseteq Coroutines
    BY DEF TypeOK, WorkflowSnapshot, Coroutines, Ids
  <1>6. CancelAsked'
    BY <1>1, <1>2, <1>3, <1>5 DEF CancelAsked
  <1> QED
    BY <1>4, <1>6 DEF MainFacts

-----------------------------------------------------------------------------
(* The run                                                                 *)

\* Crashes, faults and second runs are counted, and nothing takes one back.
LEMMA UsedGrows ==
  ASSUME IInv, [Next]_vars, OneRun'
  PROVE  OneRun
  <1>1. used \in [Events -> Nat] /\ {"crash", "fault", "rerun"} \subseteq Events
    BY DEF IInv, TypeOK, Events
  <1>2. CASE used' = used
    BY <1>2 DEF OneRun
  <1>3. CASE \E e \in Events : Spend(e)
    <2>1. PICK e \in Events : used' = [used EXCEPT ![e] = @ + 1]
      BY <1>3 DEF Spend
    <2>2. \A f \in Events : used'[f] = used[f] \/ used'[f] = used[f] + 1
      BY <1>1, <2>1
    <2>3. \A f \in Events : used'[f] = 0 => used[f] = 0
      BY <1>1, <2>2
    <2> QED
      BY <1>1, <2>3 DEF OneRun
  <1>4. used' = used \/ \E e \in Events : Spend(e)
    <2>1. ASSUME NEW c, Boundary(c) PROVE used' = used
      BY <2>1 DEF Boundary, ControlsPass, ControlsCancel, CancelCheckpointed, ControlsPause,
                  PauseWait, PauseLeft, PauseCancelled, ResumeCheckpointed, Continue
    <2>2. ASSUME NEW t, TaskStep(t) PROVE used' = used
      BY <2>2 DEF TaskStep, AgentSucceeds, AgentFails, SuccessSaved, FailureRecorded,
                  RetryScheduled, RetryReleased, LoopExhausted, FailureSaved
    <2>3. MainStep \/ Restarted \/ ResumePaused \/ (\E c \in Writers : StoreStep(c))
            => used' = used
      BY DEF MainStep, Started, PlanBatch, Dispatch, BatchGathered, BatchSettled, BatchFailed,
             RollbackStarted, UndoNext, UndoDone, RolledBack, FailurePropagated, Ended,
             Restarted, ResumePaused, StoreStep, Dumped, Landed
    <2>4. {"pause", "cancel", "crash", "fault", "rerun"} \subseteq Events
      BY DEF Events
    <2>5. ASSUME \/ Pause \/ Resume \/ Restart \/ Crash \/ MainFault
                 \/ \E t \in Ids : TaskFault(t)
                 \/ \E k \in Clients : Cancel(k) \/ ClientFault(k)
          PROVE  \E e \in Events : Spend(e)
      BY <2>4, <2>5
         DEF Pause, Cancel, Resume, Restart, Crash, MainFault, TaskFault, ClientFault
    <2> QED
      BY <2>1, <2>2, <2>3, <2>5 DEF Next, Engine, Environment, vars
  <1> QED
    BY <1>2, <1>3, <1>4

\* The steps of a run that has met no crash, no fault and no second run.
LEMMA RunSteps ==
  ASSUME IInv, UnderWay, OneRun, [Next]_vars, OneRun'
  PROVE  \/ UNCHANGED vars \/ (\E t \in Ids : Boundary(t)) \/ Boundary(Main)
         \/ (\E t \in Ids : TaskStep(t)) \/ MainStep \/ Aside
  <1> TypeOK
    BY DEF IInv
  <1>1. used \in [Events -> Nat] /\ {"crash", "fault", "rerun"} \subseteq Events
    BY DEF TypeOK, Events
  <1>2. ASSUME NEW e \in Events, Spend(e)
        PROVE  /\ used'[e] = used[e] + 1
               /\ \A f \in Events : f # e => used'[f] = used[f]
    BY <1>1, <1>2 DEF Spend
  <1>3. /\ ~Crash /\ ~Resume /\ ~Restart /\ ~MainFault
        /\ \A t \in Ids : ~TaskFault(t)
        /\ \A k \in Clients : ~ClientFault(k)
    <2>1. \A e \in {"crash", "fault", "rerun"} : ~Spend(e)
      BY <1>1, <1>2 DEF OneRun
    <2> QED
      BY <2>1 DEF Crash, Resume, Restart, MainFault, TaskFault, ClientFault
  <1>4. ~Restarted
    BY DEF Restarted, UnderWay, Executing
  <1>5. \/ UNCHANGED vars \/ (\E t \in Ids : Boundary(t)) \/ Boundary(Main)
        \/ (\E t \in Ids : TaskStep(t)) \/ MainStep \/ Aside
    BY <1>3, <1>4 DEF Next, Engine, Environment, Coroutines, Aside
  <1> QED
    BY <1>5

LEMMA StepRun ==
  IInv /\ Recorded /\ (OneRun => RunInv) /\ [Next]_vars => (OneRun => RunInv)'
  <1>1. ASSUME IInv, Recorded, OneRun, RunInv, UNCHANGED vars PROVE RunInv'
    BY <1>1 DEF vars, RunInv, TaskFacts, Points, Kept, Rejectable, Extended, Unplanned, Marked,
                Executing, Settled, Firm, InFlight, MainFacts, UnderWay, CancelAsked, AtAwait,
                ReadyTasks
  <1>2. ASSUME IInv, Recorded, OneRun => RunInv, [Next]_vars, OneRun'
        PROVE  RunInv'
    <2>1. OneRun
      BY <1>2, UsedGrows
    <2>2. UnderWay
      BY <1>2, <2>1 DEF RunInv, MainFacts
    <2>3. /\ TaskFacts /\ MainFacts /\ RunInv /\ used["fault"] = 0
          /\ Ids \subseteq Coroutines /\ Main \in Coroutines
      BY <1>2, <2>1, MainNotId DEF RunInv, OneRun
    <2>4. ASSUME NEW t \in Ids, Boundary(t) PROVE RunInv'
      BY <1>2, <2>3, <2>4, BoundaryFacts, TaskBoundaryMain DEF RunInv
    <2>5. CASE Boundary(Main)
      BY <1>2, <2>3, <2>5, BoundaryFacts, MainBoundaryMain DEF RunInv
    <2>6. ASSUME NEW t \in Ids, TaskStep(t) PROVE RunInv'
      BY <1>2, <2>3, <2>6, TaskStepFacts, TaskStepMain DEF RunInv
    <2>7. CASE MainStep
      BY <1>2, <2>3, <2>7, MainStepFacts, MainStepMain DEF RunInv
    <2>8. CASE Aside
      BY <1>2, <2>3, <2>8, RequestFacts, RequestMain DEF RunInv
    <2> QED
      BY <1>1, <1>2, <2>1, <2>2, <2>3, <2>4, <2>5, <2>6, <2>7, <2>8, RunSteps
  <1> QED
    BY <1>2

\* What is true of every workflow in its first run.
THEOREM Runs == Spec => [](OneRun => RunInv)
  BY Invariance, Record, InitRun, StepRun, PTL DEF Spec

-----------------------------------------------------------------------------
(* What follows from it                                                    *)

\* When execute_plan returns, every coroutine of the run has returned and no task still says
\* it is running or about to be retried, whatever was paused, cancelled or failed meanwhile.
THEOREM NothingIsLeftRunning == Spec => [](OneRun => NothingLeftRunning)
  <1>1. IInv /\ RunInv => NothingLeftRunning
    BY DEF IInv, Flight, RunInv, TaskFacts, Points, NothingLeftRunning
  <1> QED
    BY <1>1, Invariance, Runs, PTL

\* A run that completes has added to its plan, and run, every task that its tasks generated.
THEOREM GeneratedTasksAreRun == Spec => [](OneRun => GeneratedTasksRun)
  <1>1. ASSUME IInv, Recorded, RunInv, result = "workflow.completed",
               NEW t \in Range(snap.completed) \cap Generators
        PROVE  snap.tstatus[Generated[t]] = "success"
    <2>1. t \in Tasks /\ t \in snap.plan
      BY <1>1, GraphAssumption DEF Recorded, Planned
    <2>2. pc[t] = "idle" /\ snap.tstatus[t] = "success"
      BY <1>1, <2>1 DEF IInv, Flight, Honest, AllSucceeded, Ids
    <2>3. Generated[t] \in snap.plan
      BY <1>1, <2>2 DEF RunInv, TaskFacts, Extended
    <2> QED
      BY <1>1, <2>3 DEF IInv, Honest, AllSucceeded
  <1>2. IInv /\ Recorded /\ RunInv => GeneratedTasksRun
    BY <1>1 DEF GeneratedTasksRun
  <1> QED
    BY <1>2, Invariance, Record, Runs, PTL

\* While an agent runs, every dependency of its task has succeeded and stays so, unless
\* failures do not stop the run and a generated task can be rejected.
THEOREM DependenciesHaveSucceeded ==
  ASSUME Firm
  PROVE  Spec => [](OneRun => DependenciesSucceeded)
  <1>1. ASSUME IInv, Recorded, RunInv, NEW t \in Tasks, AgentRuns(t), NEW d \in Deps[t]
        PROVE  snap.tstatus[d] = "success"
    <2>1. d \in Tasks
      BY GraphAssumption
    <2>2. pc[Main] = "batch" /\ t \in snap.current
      BY <1>1, AgentInBatch DEF AgentRuns
    <2>3. d \in dagDone /\ d \notin snap.current
      BY <1>1, <2>2 DEF Recorded, BatchReady
    <2> QED
      BY <1>1, <2>1, <2>2, <2>3 DEF RunInv, TaskFacts, Settled
  <1>2. IInv /\ Recorded /\ RunInv => DependenciesSucceeded
    BY <1>1 DEF DependenciesSucceeded
  <1> QED
    BY <1>2, Invariance, Record, Runs, PTL

LEMMA CancelledStays ==
  ASSUME IInv, RunInv, [Next]_vars, OneRun, OneRun', snap.status = "cancelled"
  PROVE  snap'.status \in {"cancelled", "rolling_back", "rolled_back"}
  <1> TypeOK /\ UnderWay /\ CancelAsked /\ AtAwait /\ "cancel" \in requests
    BY DEF IInv, RunInv, MainFacts, CancelAsked
  <1>1. ASSUME NEW c \in Coroutines, Boundary(c) PROVE snap'.status = "cancelled"
    <2>1. ~ControlsPause(c) /\ ~PauseLeft(c)
      BY DEF ControlsPause, PauseLeft
    <2>2. CASE Continue(c) \/ PauseWait(c)
      BY <2>2 DEF PauseWait, Continue, AttemptRefused, AttemptStarted, LoopLeft, LoopContinued,
                  TypeOK, WorkflowSnapshot
    <2>3. CASE ControlsCancel(c)
      BY <2>3 DEF ControlsCancel, Save, TypeOK, WorkflowSnapshot
    <2> QED
      BY <1>1, <2>1, <2>2, <2>3
         DEF Boundary, ControlsPass, CancelCheckpointed, PauseCancelled, ResumeCheckpointed
  <1>2. ASSUME NEW t \in Ids, TaskStep(t) PROVE snap'.status = "cancelled"
    BY <1>2 DEF TaskStep, AgentSucceeds, AgentFails, SuccessSaved, DynamicTasks, FailureRecorded,
           RetryScheduled, RetryReleased, LoopExhausted, FailureSaved, Save, TypeOK,
           WorkflowSnapshot, Keep
  <1>3. CASE MainStep
    <2>1. ~PlanBatch /\ ~Dispatch /\ ~FailurePropagated
      BY DEF PlanBatch, Dispatch, FailurePropagated, AtAwait
    <2>2. CASE Started \/ BatchSettled \/ RollbackStarted \/ UndoDone \/ Ended
      BY <2>2 DEF Started, BatchSettled, RollbackStarted, UndoDone, Ended
    <2>3. CASE BatchGathered \/ UndoNext \/ RolledBack
      BY <2>3 DEF BatchGathered, UndoNext, RolledBack, Save, TypeOK, WorkflowSnapshot
    <2>4. CASE BatchFailed
      <3>1. FinalRunStatus = "cancelled"
        BY <2>4 DEF BatchFailed, CancelAsked, FinalRunStatus
      <3> QED
        BY <2>4, <3>1 DEF BatchFailed, Save, TypeOK, WorkflowSnapshot
    <2> QED
      BY <1>3, <2>1, <2>2, <2>3, <2>4 DEF MainStep
  <1>4. CASE Aside \/ UNCHANGED vars
    BY <1>4, AsideSame DEF vars
  <1> QED
    BY <1>1, <1>2, <1>3, <1>4, RunSteps, MainNotId DEF Coroutines

\* Once a workflow in its first run is CANCELLED no agent starts, and only the rollback of
\* an earlier failure still changes the status.
THEOREM CancellationIsFinal == Spec /\ []OneRun => CancelledIsFinal
  <1>1. IInv /\ RunInv /\ [Next]_vars /\ OneRun /\ OneRun' =>
          [snap.status = "cancelled" /\ Active =>
             /\ \A t \in Ids : ~Starts(t)
             /\ \/ snap'.status \in {"cancelled", "rolling_back", "rolled_back"}
                \/ pc'[Main] \in {"down", "starting", "restarting"}]_vars
    <2> SUFFICES ASSUME IInv, RunInv, [Next]_vars, OneRun, OneRun', snap.status = "cancelled"
                 PROVE  /\ \A t \in Ids : ~Starts(t)
                        /\ snap'.status \in {"cancelled", "rolling_back", "rolled_back"}
      OBVIOUS
    <2>1. ASSUME NEW t \in Ids, Starts(t) PROVE FALSE
      <3>1. Continue(t)
        BY <2>1, StartsFromControls
      <3> QED
        BY <2>1, <3>1, MainNotId
           DEF Continue, AttemptRefused, AttemptStarted, Goto, Starts, AgentRuns, IInv, TypeOK
    <2> QED
      BY <2>1, CancelledStays
  <1> QED
    BY <1>1, Invariance, Runs, PTL DEF Spec, CancelledIsFinal


-----------------------------------------------------------------------------
(* Why a run escalates                                                     *)

\* What DAG.from_plan and the check of _apply_dynamic_tasks make of a plan: it is closed
\* under dependencies and has no cycle.
Grounded(plan) ==
  /\ \A t \in plan : Deps[t] \subseteq plan
  /\ \A T \in SUBSET plan : T # {} => \E t \in T : Deps[t] \cap T = {}

LEMMA GroundedExtended ==
  ASSUME NEW plan, Grounded(plan), NEW g, Deps[g] \subseteq plan
  PROVE  Grounded(plan \cup {g})
  <1>1. CASE g \in plan
    <2>1. plan \cup {g} = plan
      BY <1>1
    <2> QED
      BY <2>1
  <1>2. CASE g \notin plan
    <2>1. \A t \in plan \cup {g} : Deps[t] \subseteq plan
      BY DEF Grounded
    <2>2. ASSUME NEW T \in SUBSET (plan \cup {g}), T # {}
          PROVE  \E t \in T : Deps[t] \cap T = {}
      <3>1. CASE T = {g}
        BY <1>2, <2>1, <3>1
      <3>2. CASE T # {g}
        <4>1. T \ {g} \in SUBSET plan /\ T \ {g} # {}
          BY <2>2, <3>2
        <4>2. PICK t \in T \ {g} : Deps[t] \cap (T \ {g}) = {}
          BY <4>1 DEF Grounded
        <4> QED
          BY <1>2, <2>1, <4>2
      <3> QED
        BY <3>1, <3>2
    <2> QED
      BY <2>1, <2>2 DEF Grounded
  <1> QED
    BY <1>1, <1>2

\* No plan that is grounded, and of which nothing has failed, is ever stuck.
LEMMA SomeTaskReady ==
  ASSUME IInv, Recorded, RunInv, Grounded(snap.plan), snap.failed = {}, pc[Main] = "planning",
         NEW S \in SUBSET snap.plan,
         dagDone' = dagDone \cup ((snap.skipped \cup S) \cap snap.plan),
         NEW u \in snap.plan, WithSkipped(S).tstatus[u] \notin {"success", "failed"}
  PROVE  ReadyTasks(dagDone') # {}
  <1> TypeOK /\ snap.plan \subseteq Tasks /\ Tasks \subseteq Ids
    BY DEF IInv, TypeOK, WorkflowSnapshot, Ids
  <1> DEFINE Left == {t \in snap.plan : t \notin S /\ snap.tstatus[t] # "success"}
  <1>1. \A t \in Ids : WithSkipped(S).tstatus[t] = IF t \in S THEN "success" ELSE snap.tstatus[t]
    BY DEF WithSkipped, TypeOK, WorkflowSnapshot
  <1>2. u \in Left
    BY <1>1
  <1>3. PICK t \in Left : Deps[t] \cap Left = {}
    <2>1. Left \in SUBSET snap.plan /\ Left # {}
      BY <1>2
    <2> QED
      BY <2>1 DEF Grounded
  <1>4. snap.cancelled = {} /\ snap.current = {}
    BY DEF RunInv, MainFacts, AtAwait
  <1>5. \A d \in Ids : snap.tstatus[d] # "failed" /\ pc[d] = "idle"
    BY <1>4 DEF IInv, Accounted, Flight
  <1>6. Deps[t] \subseteq dagDone'
    <2> SUFFICES ASSUME NEW d \in Deps[t] PROVE d \in dagDone'
      OBVIOUS
    <2>1. d \in snap.plan /\ d \notin Left
      BY <1>3 DEF Grounded
    <2>2. CASE d \in S
      BY <2>1, <2>2
    <2>3. CASE snap.tstatus[d] = "success"
      BY <2>1, <2>3 DEF RunInv, TaskFacts, Marked, Executing
    <2> QED
      BY <2>1, <2>2, <2>3
  <1>7. t \notin dagDone
    <2>1. dagDone = Range(snap.completed) \cup snap.skipped
      BY DEF Recorded, InDag, MarkedInDag, Executing
    <2> QED
      BY <1>3, <1>5, <2>1 DEF RunInv, TaskFacts, Kept, InFlight
  <1>8. t \notin dagDone'
    <2>1. t \notin snap.skipped
      BY <1>7 DEF Recorded, InDag, MarkedInDag, Executing
    <2> QED
      BY <1>3, <1>7, <2>1
  <1> QED
    BY <1>3, <1>4, <1>6, <1>8 DEF ReadyTasks

EscInv == Grounded(snap.plan) /\ EscalationHasCause

LEMMA PlanBatchEsc ==
  ASSUME IInv, Recorded, RunInv, EscInv, PlanBatch
  PROVE  EscInv'
  <1> TypeOK
    BY DEF IInv
  <1>1. PICK S \in SUBSET snap.plan, s \in {FinalRunStatus, "escalated", "scheduled"} :
          /\ dagDone' = dagDone \cup ((snap.skipped \cup S) \cap snap.plan)
          /\ snap' = [WithSkipped(S) EXCEPT !.status = s]
          /\ \/ s = FinalRunStatus \/ s = "scheduled"
             \/ /\ ReadyTasks(dagDone') = {}
                /\ \E u \in snap.plan : WithSkipped(S).tstatus[u] \notin {"success", "failed"}
    BY DEF PlanBatch, Save
  <1>2. snap'.status = s /\ snap'.plan = snap.plan /\ snap'.failed = snap.failed
    BY <1>1 DEF WithSkipped, TypeOK, WorkflowSnapshot
  <1>3. s = "escalated" => snap.failed # {}
    <2>1. CASE s = FinalRunStatus
      BY <2>1 DEF FinalRunStatus
    <2>2. CASE s = "scheduled"
      BY <2>2
    <2>3. CASE /\ ReadyTasks(dagDone') = {}
               /\ \E u \in snap.plan : WithSkipped(S).tstatus[u] \notin {"success", "failed"}
      BY <1>1, <2>3, SomeTaskReady DEF EscInv, PlanBatch
    <2> QED
      BY <1>1, <2>1, <2>2, <2>3
  <1> QED
    BY <1>2, <1>3 DEF EscInv, EscalationHasCause, Grounded

LEMMA StepEsc ==
  ASSUME IInv, Recorded, RunInv, EscInv, [Next]_vars, OneRun, OneRun'
  PROVE  EscInv'
  <1> TypeOK
    BY DEF IInv
  <1>1. ASSUME snap'.plan = snap.plan, snap.failed \subseteq snap'.failed,
               snap'.status \in {snap.status, FinalRunStatus, "cancelled", "paused", "running",
                                 "rolling_back", "rolled_back"}
        PROVE  EscInv'
    <2>1. FinalRunStatus = "escalated" => snap.failed # {}
      BY DEF FinalRunStatus
    <2> QED
      BY <1>1, <2>1 DEF EscInv, EscalationHasCause, Grounded
  <1>2. ASSUME NEW c \in Coroutines, Boundary(c) PROVE EscInv'
    <2>1. snap'.plan = snap.plan /\ snap'.failed = snap.failed
            /\ snap'.status \in {snap.status, "cancelled", "paused", "running"}
      <3>1. CASE Continue(c) \/ PauseWait(c)
        BY <3>1 DEF PauseWait, Continue, AttemptRefused, AttemptStarted, LoopLeft, LoopContinued,
                    TypeOK, WorkflowSnapshot
      <3>2. CASE ControlsCancel(c) \/ ControlsPause(c) \/ PauseLeft(c)
        BY <3>2 DEF ControlsCancel, ControlsPause, PauseLeft, Save, TypeOK, WorkflowSnapshot
      <3> QED
        BY <1>2, <3>1, <3>2
           DEF Boundary, ControlsPass, CancelCheckpointed, PauseCancelled, ResumeCheckpointed
    <2> QED
      BY <1>1, <2>1
  <1>3. ASSUME NEW t \in Ids, TaskStep(t) PROVE EscInv'
    <2>1. snap'.status = snap.status /\ snap.failed \subseteq snap'.failed
      <3>1. CASE AgentSucceeds(t) \/ AgentFails(t) \/ SuccessSaved(t) \/ FailureSaved(t)
        BY <3>1 DEF AgentSucceeds, AgentFails, SuccessSaved, DynamicTasks, FailureSaved, Save,
                    TypeOK, WorkflowSnapshot
      <3>2. CASE RetryScheduled(t) \/ RetryReleased(t)
        BY <3>2 DEF RetryScheduled, RetryReleased, Save, TypeOK, WorkflowSnapshot
      <3>3. CASE FailureRecorded(t) \/ LoopExhausted(t)
        <4>1. snap' = snap \/ snap' = [snap EXCEPT !.tstatus[t] = "failed", !.failed = @ \cup {t}]
          BY <3>3 DEF FailureRecorded, LoopExhausted, Save, Keep
        <4>2. {"status", "failed", "tstatus"} \subseteq DOMAIN snap
          BY DEF TypeOK, WorkflowSnapshot
        <4> QED
          BY ONLY <4>1, <4>2
      <3> QED
        BY <1>3, <3>1, <3>2, <3>3 DEF TaskStep
    <2>2. CASE SuccessSaved(t)
      <3>1. \/ snap'.plan = snap.plan
            \/ /\ t \in Generators /\ Deps[Generated[t]] \subseteq snap.plan
               /\ snap'.plan = snap.plan \cup {Generated[t]}
        BY <2>2 DEF SuccessSaved, DynamicTasks, TypeOK, WorkflowSnapshot
      <3>2. CASE snap'.plan = snap.plan
        BY <1>1, <2>1, <3>2
      <3>3. CASE /\ t \in Generators /\ Deps[Generated[t]] \subseteq snap.plan
                 /\ snap'.plan = snap.plan \cup {Generated[t]}
        <4>1. Grounded(snap'.plan)
          BY <3>3, GroundedExtended DEF EscInv
        <4> QED
          BY <2>1, <4>1 DEF EscInv, EscalationHasCause, Grounded
      <3> QED
        BY <3>1, <3>2, <3>3
    <2>3. CASE ~SuccessSaved(t)
      <3>1. snap'.plan = snap.plan
        BY <1>3, <2>3 DEF TaskStep, AgentSucceeds, AgentFails, FailureRecorded,
               RetryScheduled, RetryReleased, LoopExhausted, FailureSaved, Save, TypeOK,
               WorkflowSnapshot, Keep
      <3> QED
        BY <1>1, <2>1, <3>1
    <2> QED
      BY <2>2, <2>3
  <1>4. CASE MainStep
    <2>1. CASE Started \/ BatchSettled \/ RollbackStarted \/ UndoDone \/ Ended
      BY <1>1, <2>1 DEF Started, BatchSettled, RollbackStarted, UndoDone, Ended
    <2>2. CASE Dispatch \/ BatchGathered \/ BatchFailed \/ UndoNext \/ RolledBack \/ FailurePropagated
      <3>1. snap'.plan = snap.plan /\ snap'.failed = snap.failed
              /\ snap'.status \in {snap.status, FinalRunStatus, "running", "rolling_back",
                                   "rolled_back"}
        BY <2>2 DEF Dispatch, BatchGathered, BatchFailed, UndoNext, RolledBack,
                    FailurePropagated, Save, TypeOK, WorkflowSnapshot
      <3> QED
        BY <1>1, <3>1
    <2> QED
      BY <1>4, <2>1, <2>2, PlanBatchEsc DEF MainStep
  <1>5. CASE Aside \/ UNCHANGED vars
    BY <1>1, <1>5, AsideSame DEF vars
  <1> QED
    BY <1>2, <1>3, <1>4, <1>5, RunSteps, MainNotId DEF Coroutines, RunInv, MainFacts

\* The first run of a plan without cycles or missing dependencies only ends ESCALATED
\* because a task failed: the loop never finds itself with nothing to run.
THEOREM EscalationIsCaused ==
  ASSUME Grounded(InitialPlan)
  PROVE  Spec => [](OneRun => EscalationHasCause)
  <1>1. Init => EscInv
    <2> SUFFICES ASSUME Init PROVE EscInv
      OBVIOUS
    <2>1. snap.plan = InitialPlan /\ snap.status = "running"
      BY DEF Init, InitialSnapshot
    <2> QED
      BY <2>1 DEF EscInv, EscalationHasCause
  <1>2. ASSUME IInv, Recorded, OneRun => RunInv, OneRun => EscInv, [Next]_vars
        PROVE  (OneRun => EscInv)'
    BY <1>2, StepEsc, UsedGrows
  <1>3. Spec => [](OneRun => EscInv)
    BY <1>1, <1>2, Invariance, Record, Runs, PTL DEF Spec
  <1>4. EscInv => EscalationHasCause
    BY DEF EscInv
  <1> QED
    BY <1>3, <1>4, PTL


-----------------------------------------------------------------------------
(* Conditions                                                              *)

\* The output of a task only changes when its agent succeeds, or when it is skipped.
OutputsKept ==
  /\ snap'.output = snap.output
  /\ pc'[Main] = "scheduling" => pc[Main] = "scheduling" /\ ReadyTasks(dagDone)' = ReadyTasks(dagDone)
  /\ pc'[Main] = "batch" => pc[Main] = "batch" /\ snap'.current = snap.current

LEMMA ConditionsFrame ==
  ASSUME Conditions, OutputsKept
  PROVE  Conditions'
  BY DEF Conditions, OutputsKept, Guarding

\* The walk of _apply_conditional_branches leaves no task ready whose condition fails.
LEMMA PlanBatchConditions ==
  ASSUME IInv, Recorded, RunInv, PlanBatch, FailFast,
         \A t \in Guarded : GuardOn[t] \in Deps[t] => Position[GuardOn[t]] < Position[t]
  PROVE  Conditions'
  <1> TypeOK /\ Guarded \subseteq Tasks /\ Tasks \subseteq Ids /\ Firm
    BY GraphAssumption DEF IInv, Ids, Firm
  <1>1. PICK S \in SUBSET snap.plan :
          /\ S = Refused(S)
          /\ dagDone' = dagDone \cup ((snap.skipped \cup S) \cap snap.plan)
          /\ \E s : snap' = [WithSkipped(S) EXCEPT !.status = s]
          /\ pc[Main] = "planning" /\ \E point \in {"ending", "scheduling"} : Goto(Main, point)
    BY DEF PlanBatch, Save
  <1>2. /\ snap'.plan = snap.plan /\ snap'.current = snap.current
        /\ \A t \in Ids : snap'.output[t] = IF t \in S THEN HoldWhenSkipped ELSE snap.output[t]
    BY <1>1 DEF WithSkipped, TypeOK, WorkflowSnapshot
  <1>3. pc'[Main] # "batch"
    BY <1>1, MainNotId DEF Goto, TypeOK
  <1>4. ASSUME NEW t \in ReadyTasks(dagDone)' \cap Guarded, GuardOn[t] \in Deps[t]
        PROVE  t \in snap'.output[GuardOn[t]]
    <2> DEFINE g == GuardOn[t]
    <2>1. t \in snap.plan /\ t \notin dagDone' /\ g \in dagDone' /\ g \in Tasks
      BY <1>2, <1>4, GraphAssumption DEF ReadyTasks
    <2>2. snap.tstatus[t] = "pending"
      <3>1. snap.tstatus[t] \notin {"running", "retrying"}
        BY <1>1 DEF IInv, Flight, RunInv, TaskFacts, Points
      <3>2. snap.tstatus[t] # "success"
        BY <1>1, <2>1 DEF RunInv, TaskFacts, Marked, Executing
      <3>3. snap.tstatus[t] # "failed"
        BY <1>1 DEF RunInv, MainFacts, AtAwait, IInv, Accounted
      <3>4. snap.tstatus[t] \in TaskStatus
        BY DEF TypeOK, WorkflowSnapshot
      <3> QED
        BY <3>1, <3>2, <3>3, <3>4 DEF TaskStatus
    <2>3. t \notin S /\ t \notin Refused(S)
      BY <1>1, <2>1
    <2>4. CASE g \in S
      <3>1. Position[g] < Position[t] /\ g \in snap.plan
        BY <1>4, <2>4
      <3>2. t \in HoldWhenSkipped
        BY <1>4, <2>1, <2>2, <2>3, <2>4, <3>1 DEF Refused
      <3> QED
        BY <1>2, <2>1, <2>4, <3>2
    <2>5. CASE g \notin S
      <3>1. g \in dagDone
        <4>1. snap.skipped \subseteq dagDone
          BY <1>1 DEF Recorded, InDag, MarkedInDag, Executing
        <4> QED
          BY <1>1, <2>1, <2>5, <4>1
      <3>2. snap.tstatus[g] = "success"
        BY <1>1, <2>1, <3>1, DoneSucceeded
      <3>3. g \in snap.plan
        BY <1>1, <2>1, <3>1 DEF Recorded, Planned, InDag, MarkedInDag, Executing
      <3>4. t \in snap.output[g]
        BY <1>4, <2>1, <2>2, <2>3, <3>2, <3>3 DEF Refused
      <3> QED
        BY <1>2, <2>1, <2>5, <3>4
    <2> QED
      BY <2>4, <2>5
  <1> QED
    BY <1>3, <1>4 DEF Conditions, Guarding

LEMMA AgentSucceedsConditions ==
  ASSUME IInv, Recorded, Conditions, NEW u \in Ids, AgentSucceeds(u)
  PROVE  Conditions'
  <1> TypeOK /\ Guarded \subseteq Tasks /\ Tasks \subseteq Ids
    BY GraphAssumption DEF IInv, Ids
  <1>1. /\ snap'.current = snap.current /\ pc'[Main] = pc[Main] /\ pc[u] = "agent"
        /\ \A t \in Ids : t # u => snap'.output[t] = snap.output[t]
    BY MainNotId DEF AgentSucceeds, Goto, TypeOK, WorkflowSnapshot, Save
  <1>2. pc[Main] # "scheduling"
    BY <1>1 DEF IInv, Flight
  <1>3. ASSUME pc[Main] = "batch", NEW t \in snap.current \cap Guarded, GuardOn[t] \in Deps[t]
        PROVE  t \in snap'.output[GuardOn[t]]
    <2>1. GuardOn[t] \in Tasks /\ GuardOn[t] \notin snap.current
      BY <1>3, GraphAssumption DEF Recorded, BatchReady
    <2>2. GuardOn[t] # u
      BY <1>1, <2>1, AgentInBatch
    <2> QED
      BY <1>1, <1>3, <2>1, <2>2 DEF Conditions, Guarding
  <1> QED
    BY <1>1, <1>2, <1>3 DEF Conditions, Guarding

LEMMA StepConditions ==
  ASSUME IInv, Recorded, RunInv, Conditions, [Next]_vars, OneRun, OneRun', FailFast,
         \A t \in Guarded : GuardOn[t] \in Deps[t] => Position[GuardOn[t]] < Position[t]
  PROVE  Conditions'
  <1> TypeOK /\ Main \in Coroutines
    BY MainNotId DEF IInv
  <1>1. ASSUME NEW c \in Coroutines, Boundary(c) PROVE Conditions'
    <2>1. snap'.output = snap.output /\ snap'.current = snap.current /\ snap'.plan = snap.plan
            /\ dagDone' = dagDone
      <3>1. CASE Continue(c) \/ PauseWait(c)
        BY <3>1 DEF PauseWait, Continue, AttemptRefused, AttemptStarted, LoopLeft, LoopContinued,
                    TypeOK, WorkflowSnapshot
      <3>2. CASE ControlsCancel(c) \/ ControlsPause(c) \/ PauseLeft(c)
        BY <3>2 DEF ControlsCancel, ControlsPause, PauseLeft, Save, TypeOK, WorkflowSnapshot
      <3> QED
        BY <1>1, <3>1, <3>2
           DEF Boundary, ControlsPass, CancelCheckpointed, PauseCancelled, ResumeCheckpointed
    <2>2. pc'[Main] = pc[Main] \/ pc'[Main] \notin {"batch", "scheduling"}
      <3>1. \E point : Goto(c, point) /\ (c = Main => point \notin {"batch", "scheduling"})
        <4>1. CASE Continue(c)
          BY <4>1, MainNotId DEF Continue, AttemptRefused, AttemptStarted, LoopLeft, LoopContinued
        <4>2. CASE ControlsCancel(c) \/ ControlsPause(c) \/ PauseLeft(c) \/ PauseWait(c)
          BY <4>2 DEF ControlsCancel, ControlsPause, PauseLeft, PauseWait
        <4> QED
          BY <1>1, <4>1, <4>2
             DEF Boundary, ControlsPass, CancelCheckpointed, PauseCancelled, ResumeCheckpointed
      <3> QED
        BY <3>1 DEF Goto, TypeOK
    <2> QED
      BY <2>1, <2>2, ConditionsFrame DEF OutputsKept, ReadyTasks
  <1>2. ASSUME NEW t \in Ids, TaskStep(t) PROVE Conditions'
    <2>1. CASE AgentSucceeds(t)
      BY <2>1, AgentSucceedsConditions
    <2>2. CASE ~AgentSucceeds(t)
      <3>1. snap'.output = snap.output /\ snap'.current = snap.current
        BY <1>2, <2>2 DEF TaskStep, AgentFails, SuccessSaved, DynamicTasks, FailureRecorded,
               RetryScheduled, RetryReleased, LoopExhausted, FailureSaved, Save, TypeOK,
               WorkflowSnapshot, Keep
      <3>2. pc[t] # "idle" /\ \E point : Goto(t, point)
        BY <1>2 DEF TaskStep, AgentSucceeds, AgentFails, SuccessSaved, DynamicTasks,
               FailureRecorded, RetryScheduled, RetryReleased, LoopExhausted, FailureSaved
      <3>3. pc'[Main] = pc[Main] /\ pc[Main] # "scheduling"
        BY <3>2, MainNotId DEF Goto, TypeOK, IInv, Flight
      <3> QED
        BY <3>1, <3>3, ConditionsFrame DEF OutputsKept
    <2> QED
      BY <2>1, <2>2
  <1>3. CASE MainStep
    <2>1. CASE Dispatch
      <3>1. PICK batch \in Batches(ReadyTasks(dagDone)) :
              /\ snap' = [snap EXCEPT !.status = "running", !.current = batch]
              /\ pc[Main] = "scheduling"
              /\ pc' = [c \in Coroutines |-> IF c \in batch THEN "top"
                                             ELSE IF c = Main THEN "batch" ELSE pc[c]]
        BY <2>1 DEF Dispatch
      <3>2. batch \subseteq ReadyTasks(dagDone)
        BY DEF Batches
      <3>3. snap'.current = batch /\ snap'.output = snap.output
        BY <3>1 DEF TypeOK, WorkflowSnapshot
      <3>4. pc'[Main] # "scheduling"
        BY <3>1, MainNotId
      <3> QED
        BY <3>1, <3>2, <3>3, <3>4 DEF Conditions, Guarding
    <2>2. CASE ~Dispatch /\ ~PlanBatch
      <3>1. snap'.output = snap.output
        BY <1>3, <2>2 DEF MainStep, Started, BatchGathered, BatchSettled, BatchFailed,
               RollbackStarted, UndoNext, UndoDone, RolledBack, FailurePropagated, Ended, Save,
               TypeOK, WorkflowSnapshot
      <3>2. pc'[Main] \notin {"batch", "scheduling"}
        <4>1. Main \notin snap.current
          BY MainNotId DEF TypeOK, WorkflowSnapshot, Ids
        <4>2. CASE BatchGathered \/ UndoNext \/ UndoDone
          BY <4>1, <4>2, MainNotId DEF BatchGathered, UndoNext, UndoDone, Goto, TypeOK
        <4>3. CASE ~(BatchGathered \/ UndoNext \/ UndoDone)
          BY <1>3, <2>2, <4>3 DEF MainStep, Started, BatchSettled, BatchFailed,
                 RollbackStarted, RolledBack, FailurePropagated, Ended, Goto, TypeOK
        <4> QED
          BY <4>2, <4>3
      <3> QED
        BY <3>1, <3>2, ConditionsFrame DEF OutputsKept
    <2> QED
      BY <2>1, <2>2, PlanBatchConditions
  <1>4. CASE Aside \/ UNCHANGED vars
    <2>1. snap' = snap /\ dagDone' = dagDone
            /\ pc'[Main] \in {pc[Main], "woken"}
      BY <1>4, AsideSame, MainNotId DEF Wake, vars
    <2> QED
      BY <2>1, ConditionsFrame DEF OutputsKept, ReadyTasks
  <1> QED
    BY <1>1, <1>2, <1>3, <1>4, RunSteps, MainNotId DEF Coroutines, RunInv, MainFacts

\* In a run that stops at the first failure, of a plan that lists the task a condition looks
\* at before the conditional task, a conditional task only runs if its condition held.
THEOREM ConditionsAreRespected ==
  ASSUME FailFast,
         \A t \in Guarded : GuardOn[t] \in Deps[t] => Position[GuardOn[t]] < Position[t]
  PROVE  Spec => [](OneRun => ConditionRespected)
  <1>1. Init => Conditions
    BY MainNotId DEF Init, Conditions
  <1>2. ASSUME IInv, Recorded, OneRun => RunInv, OneRun => Conditions, [Next]_vars
        PROVE  (OneRun => Conditions)'
    BY <1>2, StepConditions, UsedGrows
  <1>3. Spec => [](OneRun => Conditions)
    BY <1>1, <1>2, Invariance, Record, Runs, PTL DEF Spec
  <1>4. ASSUME IInv, Conditions, NEW t \in Guarded, AgentRuns(t), GuardOn[t] \in Deps[t]
        PROVE  t \in snap.output[GuardOn[t]]
    <2>1. t \in Tasks
      BY GraphAssumption
    <2>2. pc[Main] = "batch" /\ t \in snap.current
      BY <1>4, <2>1, AgentInBatch DEF AgentRuns
    <2> QED
      BY <1>4, <2>2 DEF Conditions, Guarding
  <1>5. IInv /\ Conditions => ConditionRespected
    BY <1>4 DEF ConditionRespected
  <1> QED
    BY <1>3, <1>5, Invariance, PTL


-----------------------------------------------------------------------------
(* One run implements TaskGraph                                            *)

\* No task starts, returns, is skipped or is given up, and nothing is published.
Still == snap'.plan = snap.plan /\ result' = result /\ \A t \in Tasks : Phase(t)' = Phase(t)

LEMMA GraphStutters == ASSUME Still PROVE [Graph!Next]_(Graph!vars)
  <1>1. [t \in Tasks |-> Phase(t)]' = [t \in Tasks |-> Phase(t)]
    BY DEF Still
  <1> QED
    BY <1>1 DEF Still, Graph!vars

LEMMA GraphReturns ==
  ASSUME NEW t \in Tasks, Phase(t) = "running", result' = result,
         \A u \in Tasks \ {t} : Phase(u)' = Phase(u),
         \/ /\ Phase(t)' = "done"
            /\ \/ snap'.plan = snap.plan
               \/ /\ t \in Generators /\ Deps[Generated[t]] \subseteq snap.plan
                  /\ snap'.plan = snap.plan \cup {Generated[t]}
         \/ Phase(t)' = "failed" /\ snap'.plan = snap.plan
  PROVE  [Graph!Next]_(Graph!vars)
  <1> DEFINE phase == [u \in Tasks |-> Phase(u)]
  <1>1. phase[t] = "running"
    OBVIOUS
  <1>2. phase' = [phase EXCEPT ![t] = Phase(t)']
    OBVIOUS
  <1>3. Graph!Return(t)
    BY <1>1, <1>2 DEF Graph!Return, Graph!Running
  <1> QED
    BY <1>3 DEF Graph!Next

\* Who is running, done or waiting in the abstract run.
LEMMA GraphPhases ==
  ASSUME IInv, TaskFacts, NEW t \in Tasks
  PROVE  /\ Phase(t) = "running" <=> pc[t] \notin {"idle", "done"}
         /\ pc[t] \in {"idle", "done"} =>
              /\ Phase(t) = "done" <=> snap.tstatus[t] = "success"
              /\ Phase(t) = "failed" <=> snap.tstatus[t] = "failed"
              /\ Phase(t) = "waiting" <=> snap.tstatus[t] = "pending"
  <1>1. snap.tstatus[t] \in TaskStatus
    BY DEF IInv, TypeOK, WorkflowSnapshot, Ids
  <1>2. pc[t] \in {"idle", "done"} => snap.tstatus[t] \notin {"running", "retrying"}
    BY DEF TaskFacts, Points, Ids
  <1> QED
    BY <1>1, <1>2 DEF Phase, TaskStatus

LEMMA DispatchStarts ==
  ASSUME IInv, Recorded, RunInv, Firm, Dispatch
  PROVE  Graph!Start
  <1> DEFINE phase == [t \in Tasks |-> Phase(t)]
  <1> TypeOK /\ Tasks \subseteq Ids /\ TaskFacts /\ snap.plan \subseteq Tasks
    BY DEF IInv, Ids, RunInv, TypeOK, WorkflowSnapshot
  <1>1. PICK batch \in Batches(ReadyTasks(dagDone)) :
          /\ snap' = [snap EXCEPT !.status = "running", !.current = batch]
          /\ pc' = [c \in Coroutines |-> IF c \in batch THEN "top"
                                         ELSE IF c = Main THEN "batch" ELSE pc[c]]
    BY DEF Dispatch
  <1>2. batch \subseteq ReadyTasks(dagDone) /\ batch \subseteq snap.plan
    BY DEF Batches, ReadyTasks
  <1>3. snap'.plan = snap.plan /\ snap'.tstatus = snap.tstatus /\ result' = result
    BY <1>1 DEF Dispatch, TypeOK, WorkflowSnapshot
  <1>4. pc[Main] = "scheduling" /\ \A t \in Ids : pc[t] = "idle"
    BY DEF Dispatch, IInv, Flight
  <1>5. \A t \in Ids : pc'[t] = IF t \in batch THEN "top" ELSE "idle"
    BY <1>1, <1>4, MainNotId
  <1>6. result = "none" /\ ReadyTasks(dagDone) # {}
          /\ (FailFast => snap.failed = {} /\ snap.cancelled = {})
    BY <1>4 DEF RunInv, MainFacts, UnderWay, AtAwait
  <1>7. \A t \in Tasks : phase[t] = Phase(t)
    OBVIOUS
  <1>8. Graph!Running = {} /\ (FailFast => Graph!Failed = {})
    <2>1. \A t \in Tasks : Phase(t) # "running"
      BY <1>4, GraphPhases
    <2>2. FailFast => \A t \in Tasks : Phase(t) # "failed"
      BY <1>4, <1>6, GraphPhases DEF IInv, Accounted
    <2> QED
      BY <1>7, <2>1, <2>2 DEF Graph!Running, Graph!Failed
  <1>9. batch # {} /\ Cardinality(batch) <= MaxParallel
    BY <1>6, FS_EmptySet, PolicyAssumption DEF Batches
  <1>10. ASSUME NEW t \in batch
         PROVE  t \in Graph!Waiting \cup Graph!Failed /\ Deps[t] \subseteq Graph!Done
    <2>1. t \in snap.plan /\ t \notin dagDone /\ Deps[t] \subseteq dagDone
      BY <1>2 DEF ReadyTasks
    <2>2. snap.tstatus[t] # "success" /\ snap.tstatus[t] \in TaskStatus
            /\ snap.tstatus[t] \notin {"running", "retrying"}
      BY <1>4, <2>1 DEF TaskFacts, Marked, Executing, Points, TypeOK, WorkflowSnapshot
    <2>3. Phase(t) \in {"waiting", "failed"}
      BY <1>4, <2>1, <2>2, GraphPhases DEF TaskStatus
    <2>4. \A d \in Deps[t] : d \in Tasks /\ snap.tstatus[d] = "success"
      BY <1>4, <2>1, DoneSucceeded, GraphAssumption
    <2>5. \A d \in Deps[t] : d \in Tasks /\ Phase(d) = "done"
      BY <1>4, <2>4, GraphPhases
    <2> QED
      BY <1>7, <2>1, <2>3, <2>5 DEF Graph!Waiting, Graph!Failed, Graph!Done
  <1>11. phase' = [t \in Tasks |-> IF t \in batch THEN "running" ELSE phase[t]]
    <2>1. \A t \in Tasks : Phase(t)' = IF t \in batch THEN "running" ELSE Phase(t)
      BY <1>3, <1>4, <1>5 DEF Phase
    <2> QED
      BY <2>1
  <1>12. Graph!Cardinality(batch) = Cardinality(batch)
    BY DEF Graph!Cardinality, Cardinality
  <1>13. batch \in SUBSET (Graph!Waiting \cup Graph!Failed)
          /\ \A t \in batch : Deps[t] \subseteq Graph!Done
    BY <1>10
  <1> HIDE DEF phase
  <1> QED
    BY <1>3, <1>6, <1>8, <1>9, <1>11, <1>12, <1>13 DEF Graph!Start, phase

LEMMA PlanBatchSkips ==
  ASSUME IInv, RunInv, PlanBatch
  PROVE  Graph!Skip
  <1> DEFINE phase == [t \in Tasks |-> Phase(t)]
  <1> TypeOK /\ Tasks \subseteq Ids /\ TaskFacts /\ snap.plan \subseteq Tasks
    BY DEF IInv, Ids, RunInv, TypeOK, WorkflowSnapshot
  <1>1. PICK S \in SUBSET snap.plan :
          /\ S = Refused(S)
          /\ \E s : snap' = [WithSkipped(S) EXCEPT !.status = s]
          /\ \E point \in {"ending", "scheduling"} : Goto(Main, point)
    BY DEF PlanBatch, Save
  <1>2. /\ snap'.plan = snap.plan /\ result' = result /\ result = "none"
        /\ \A t \in Ids : snap'.tstatus[t] = IF t \in S THEN "success" ELSE snap.tstatus[t]
    BY <1>1 DEF WithSkipped, TypeOK, WorkflowSnapshot, PlanBatch, RunInv, MainFacts, UnderWay
  <1>3. /\ \A t \in Ids : pc[t] = "idle" /\ pc'[t] = "idle"
    BY <1>1, MainNotId DEF PlanBatch, Goto, TypeOK, IInv, Flight
  <1>4. S \subseteq Guarded /\ \A t \in S : snap.tstatus[t] = "pending"
    BY <1>1 DEF Refused
  <1>5. S \in SUBSET (Graph!Waiting \cap Guarded)
    <2>1. \A t \in S : phase[t] = "waiting"
      BY <1>3, <1>4, GraphPhases
    <2> QED
      BY <1>4, <2>1 DEF Graph!Waiting
  <1>6. Graph!Running = {}
    <2>1. \A t \in Tasks : phase[t] # "running"
      BY <1>3, GraphPhases
    <2> QED
      BY <2>1 DEF Graph!Running
  <1>7. phase' = [t \in Tasks |-> IF t \in S THEN "done" ELSE phase[t]]
    <2>1. \A t \in Tasks : Phase(t)' = IF t \in S THEN "done" ELSE Phase(t)
      BY <1>2, <1>3 DEF Phase
    <2> QED
      BY <2>1
  <1> HIDE DEF phase
  <1> QED
    BY <1>2, <1>5, <1>6, <1>7 DEF Graph!Skip, phase

LEMMA CancelAbandons ==
  ASSUME IInv, RunInv, NEW c \in Coroutines, ControlsCancel(c)
  PROVE  Graph!Abandon
  <1> DEFINE phase == [t \in Tasks |-> Phase(t)]
  <1> TypeOK /\ Tasks \subseteq Ids /\ TaskFacts /\ snap.plan \subseteq Tasks
    BY DEF IInv, Ids, RunInv, TypeOK, WorkflowSnapshot
  <1>1. /\ snap'.plan = snap.plan /\ result' = result
        /\ \A u \in Ids : snap'.tstatus[u] =
             IF u \in Unfinished THEN "failed" ELSE snap.tstatus[u]
    BY DEF ControlsCancel, Save, TypeOK, WorkflowSnapshot
  <1>2. /\ pc[c] = "top" /\ pc'[c] = "cancelling"
        /\ \A u \in Coroutines : u # c => pc'[u] = pc[u]
    BY DEF ControlsCancel, AtBoundary, Goto, TypeOK
  <1>3. result = "none"
    BY <1>2, MainNotId DEF RunInv, MainFacts, UnderWay, IInv, Flight, Coroutines
  <1>4. \A t \in Tasks : Phase(t)' =
          IF t \in snap.plan /\ Phase(t) = "waiting" THEN "failed" ELSE Phase(t)
    <2> TAKE t \in Tasks
    <2>1. t \in Unfinished <=> t \in snap.plan /\ snap.tstatus[t] \in {"pending", "retrying", "running"}
      BY DEF Unfinished
    <2>2. t \in Coroutines
      BY MainNotId
    <2>3. CASE pc[t] \in {"idle", "done"}
      <3>1. pc'[t] = pc[t] /\ snap.tstatus[t] \notin {"running", "retrying"}
        BY <1>2, <2>2, <2>3 DEF TaskFacts, Points
      <3>2. Phase(t) = "waiting" <=> snap.tstatus[t] = "pending"
        BY <2>3, GraphPhases
      <3>3. snap'.tstatus[t] = IF t \in snap.plan /\ Phase(t) = "waiting" THEN "failed"
                               ELSE snap.tstatus[t]
        BY <1>1, <2>1, <3>1, <3>2
      <3> QED
        BY <2>3, <3>1, <3>3 DEF Phase
    <2>4. CASE pc[t] \notin {"idle", "done"}
      BY <1>2, <2>2, <2>4 DEF Phase
    <2> QED
      BY <2>3, <2>4
  <1>5. phase' = [t \in Tasks |-> IF t \in Graph!Waiting THEN "failed" ELSE phase[t]]
    BY <1>4 DEF Graph!Waiting
  <1> HIDE DEF phase
  <1> QED
    BY <1>1, <1>3, <1>5 DEF Graph!Abandon, phase

LEMMA LeavesConclude ==
  ASSUME IInv, RunInv, (pc[Main] \in ControlPoints /\ LoopLeft) \/ Ended
  PROVE  Graph!Conclude
  <1> DEFINE phase == [t \in Tasks |-> Phase(t)]
  <1> TypeOK /\ Tasks \subseteq Ids /\ TaskFacts /\ snap.plan \subseteq Tasks
    BY DEF IInv, Ids, RunInv, TypeOK, WorkflowSnapshot
  <1>1. /\ snap' = snap /\ Goto(Main, "returned") /\ result' = TerminalEvent(snap.status)
        /\ pc[Main] = "ending" \/ snap.status \in {"cancelled", "paused"}
        /\ pc[Main] \in ControlPoints \cup {"ending"}
    BY DEF LoopLeft, Ended
  <1>2. result = "none" /\ \A t \in Ids : pc[t] = "idle" /\ pc'[t] = "idle"
    BY <1>1, MainNotId
       DEF Goto, TypeOK, RunInv, MainFacts, UnderWay, ControlPoints, IInv, Flight
  <1>3. result' \in {"workflow.completed", "workflow.failed", "workflow.escalated"}
    BY <1>1 DEF TerminalEvent
  <1>4. result' = "workflow.completed" => \A t \in snap.plan : phase[t] = "done"
    <2>1. result' = "workflow.completed" => pc[Main] = "ending" /\ snap.status = "success"
      BY <1>1 DEF TerminalEvent
    <2>2. result' = "workflow.completed" => \A t \in snap.plan : snap.tstatus[t] = "success"
      BY <2>1 DEF IInv, Honest, AllSucceeded
    <2> QED
      BY <1>2, <2>2, GraphPhases
  <1>5. phase' = phase
    BY <1>1, <1>2 DEF Phase
  <1>6. Graph!Running = {}
    <2>1. \A t \in Tasks : phase[t] # "running"
      BY <1>2, GraphPhases
    <2> QED
      BY <2>1 DEF Graph!Running
  <1>7. result' = "workflow.completed" => snap.plan \subseteq Graph!Done
    BY <1>4 DEF Graph!Done
  <1> HIDE DEF phase
  <1> QED
    BY <1>1, <1>2, <1>3, <1>5, <1>6, <1>7 DEF Graph!Conclude, phase

\* A coroutine that stays inside _execute_task is running before and after.
LEMMA InsideStill ==
  ASSUME IInv, NEW t \in Ids, NEW point, Goto(t, point), pc[t] \notin {"idle", "done"},
         point \notin {"idle", "done"}, snap'.plan = snap.plan, result' = result,
         \A u \in Ids : u # t => snap'.tstatus[u] = snap.tstatus[u]
  PROVE  Still
  <1>1. \A u \in Ids : pc'[u] = IF u = t THEN point ELSE pc[u]
    BY MainNotId DEF Goto, IInv, TypeOK
  <1> QED
    BY <1>1 DEF Still, Phase, Ids

\* A coroutine that leaves _execute_task with an outcome returns.
LEMMA OutcomeReturns ==
  ASSUME IInv, NEW t \in Ids, Goto(t, "done"), pc[t] \notin {"idle", "done"}, result' = result,
         \A u \in Ids : u # t => snap'.tstatus[u] = snap.tstatus[u],
         \/ /\ snap'.tstatus[t] = "success"
            /\ \/ snap'.plan = snap.plan
               \/ /\ t \in Generators /\ Deps[Generated[t]] \subseteq snap.plan
                  /\ snap'.plan = snap.plan \cup {Generated[t]}
         \/ snap'.tstatus[t] = "failed" /\ snap'.plan = snap.plan
  PROVE  [Graph!Next]_(Graph!vars)
  <1>1. \A u \in Ids : pc'[u] = IF u = t THEN "done" ELSE pc[u]
    BY MainNotId DEF Goto, IInv, TypeOK
  <1>2. \A u \in Tasks : u # t => Phase(u)' = Phase(u)
    BY <1>1 DEF Phase, Ids
  <1>3. CASE t \in Tasks
    <2>1. Phase(t) = "running"
      BY DEF Phase
    <2>2. \/ snap'.tstatus[t] = "success" /\ Phase(t)' = "done"
          \/ snap'.tstatus[t] = "failed" /\ Phase(t)' = "failed"
      BY <1>1 DEF Phase
    <2> QED
      BY <1>2, <1>3, <2>1, <2>2, GraphReturns
  <1>4. CASE t \notin Tasks
    <2>1. snap'.plan = snap.plan
      BY <1>4, GraphAssumption
    <2> QED
      BY <1>2, <1>4, <2>1, GraphStutters DEF Still
  <1> QED
    BY <1>3, <1>4

LEMMA BoundaryGraph ==
  ASSUME IInv, RunInv, NEW c \in Coroutines, Boundary(c)
  PROVE  [Graph!Next]_(Graph!vars)
  <1> TypeOK
    BY DEF IInv
  <1>1. CASE pc[c] \in ControlPoints /\ Continue(c)
    <2>1. CASE c \in Ids /\ AttemptRefused(c)
      <3>1. /\ snap'.plan = snap.plan /\ snap'.tstatus[c] = "failed" /\ result' = result
            /\ \A u \in Ids : u # c => snap'.tstatus[u] = snap.tstatus[u]
            /\ Goto(c, "done")
        BY <2>1 DEF AttemptRefused, TypeOK, WorkflowSnapshot
      <3> QED
        BY <1>1, <2>1, <3>1, OutcomeReturns DEF ControlPoints
    <2>2. CASE c \in Ids /\ AttemptStarted(c)
      <3>1. /\ snap'.plan = snap.plan /\ result' = result /\ Goto(c, "agent")
            /\ \A u \in Ids : u # c => snap'.tstatus[u] = snap.tstatus[u]
        BY <2>2 DEF AttemptStarted, TypeOK, WorkflowSnapshot
      <3> QED
        BY <1>1, <2>2, <3>1, InsideStill, GraphStutters DEF ControlPoints
    <2>3. CASE c = Main /\ LoopLeft
      BY <1>1, <2>3, LeavesConclude DEF Graph!Next
    <2>4. CASE c = Main /\ LoopContinued
      <3>1. /\ snap' = snap /\ result' = result
            /\ \A u \in Ids : pc'[u] = pc[u]
        BY <2>4, MainNotId DEF LoopContinued, Goto, TypeOK
      <3> QED
        BY <3>1, GraphStutters DEF Still, Phase, Ids
    <2> QED
      BY <1>1, <2>1, <2>2, <2>3, <2>4 DEF Continue
  <1>2. CASE ControlsPause(c) \/ PauseLeft(c) \/ PauseWait(c)
    <2>1. /\ snap'.plan = snap.plan /\ snap'.tstatus = snap.tstatus /\ result' = result
      <3>1. CASE PauseWait(c)
        BY <3>1 DEF PauseWait
      <3>2. CASE ControlsPause(c) \/ PauseLeft(c)
        BY <3>2 DEF ControlsPause, PauseLeft, Save, TypeOK, WorkflowSnapshot
      <3> QED
        BY <1>2, <3>1, <3>2
    <2>2. \A u \in Ids : pc'[u] = pc[u] \/ {pc[u], pc'[u]} \cap {"idle", "done"} = {}
      BY <1>2, MainNotId
         DEF ControlsPause, PauseLeft, PauseWait, AtBoundary, Goto, TypeOK
    <2>3. \A u \in Tasks : Phase(u)' = Phase(u)
      BY <2>1, <2>2 DEF Phase, Ids
    <2> QED
      BY <2>1, <2>3, GraphStutters DEF Still
  <1> QED
    BY <1>1, <1>2, CancelAbandons
       DEF Boundary, ControlsPass, CancelCheckpointed, PauseCancelled, ResumeCheckpointed,
           AtBoundary, ControlPoints, Graph!Next

LEMMA TaskStepGraph ==
  ASSUME IInv, RunInv, NEW t \in Ids, TaskStep(t)
  PROVE  [Graph!Next]_(Graph!vars)
  <1> TypeOK /\ TaskFacts
    BY DEF IInv, RunInv
  <1>1. result' = result /\ pc[t] \notin {"idle", "done"}
    BY DEF TaskStep, AgentSucceeds, AgentFails, SuccessSaved, FailureRecorded, RetryScheduled,
           RetryReleased, LoopExhausted, FailureSaved
  <1>2. CASE AgentSucceeds(t) \/ FailureRecorded(t) \/ RetryScheduled(t)
    <2>1. /\ snap'.plan = snap.plan
          /\ \A u \in Ids : u # t => snap'.tstatus[u] = snap.tstatus[u]
      <3>1. CASE AgentSucceeds(t)
        <4>1. PICK held : snap' = [snap EXCEPT !.tstatus[t] = "success", !.output[t] = held,
                                               !.completed = Mark(@, t)]
          BY <3>1 DEF AgentSucceeds, Save
        <4> QED
          BY <4>1 DEF TypeOK, WorkflowSnapshot
      <3>2. CASE FailureRecorded(t)
        BY <3>2 DEF FailureRecorded, TypeOK, WorkflowSnapshot
      <3>3. CASE RetryScheduled(t)
        BY <3>3 DEF RetryScheduled, TypeOK, WorkflowSnapshot, Save
      <3> QED
        BY <1>2, <3>1, <3>2, <3>3
    <2>2. \E point \in {"saving", "top", "retrying"} : Goto(t, point)
      BY <1>2 DEF AgentSucceeds, FailureRecorded, RetryScheduled, Save
    <2> QED
      BY <1>1, <2>1, <2>2, InsideStill, GraphStutters
  <1>3. CASE AgentFails(t) \/ RetryReleased(t)
    <2>1. snap' = snap /\ \E point \in {"failing", "top"} : Goto(t, point)
      BY <1>3 DEF AgentFails, RetryReleased, Save
    <2> QED
      BY <1>1, <2>1, InsideStill, GraphStutters
  <1>4. CASE FailureSaved(t)
    <2>1. snap' = snap /\ Goto(t, "done") /\ snap.tstatus[t] = "failed"
      BY <1>4 DEF FailureSaved, Save, TaskFacts, Points
    <2> QED
      BY <1>1, <2>1, OutcomeReturns
  <1>5. CASE SuccessSaved(t)
    <2>1. snap'.tstatus = snap.tstatus /\ snap.tstatus[t] = "success"
      BY <1>5 DEF SuccessSaved, DynamicTasks, TypeOK, WorkflowSnapshot, TaskFacts, Points
    <2>2. CASE snap' = snap /\ Goto(t, "failing")
      BY <1>1, <2>2, InsideStill, GraphStutters
    <2>3. CASE /\ Goto(t, "done")
               /\ \/ snap'.plan = snap.plan
                  \/ /\ t \in Generators /\ Deps[Generated[t]] \subseteq snap.plan
                     /\ snap'.plan = snap.plan \cup {Generated[t]}
      BY <1>1, <2>1, <2>3, OutcomeReturns
    <2> QED
      BY <1>5, <2>2, <2>3 DEF SuccessSaved, DynamicTasks, TypeOK, WorkflowSnapshot
  <1>6. CASE LoopExhausted(t)
    <2>1. CASE snap.tstatus[t] = "success"
      <3>1. snap' = snap /\ Goto(t, "done")
        BY <1>6, <2>1 DEF LoopExhausted, Save, Keep
      <3> QED
        BY <1>1, <2>1, <3>1, OutcomeReturns
    <2>2. CASE snap.tstatus[t] # "success"
      <3>1. /\ snap' = [snap EXCEPT !.tstatus[t] = "failed", !.failed = @ \cup {t}]
            /\ Goto(t, "closing")
        BY <1>6, <2>2 DEF LoopExhausted, Save, Keep
      <3>2. snap'.plan = snap.plan /\ \A u \in Ids : u # t => snap'.tstatus[u] = snap.tstatus[u]
        BY <3>1 DEF TypeOK, WorkflowSnapshot
      <3> QED
        BY <1>1, <3>1, <3>2, InsideStill, GraphStutters
    <2> QED
      BY <2>1, <2>2
  <1> QED
    BY <1>2, <1>3, <1>4, <1>5, <1>6 DEF TaskStep

LEMMA MainStepGraph ==
  ASSUME IInv, Recorded, RunInv, Firm, MainStep
  PROVE  [Graph!Next]_(Graph!vars)
  <1> TypeOK
    BY DEF IInv
  <1>1. CASE Started \/ BatchGathered \/ BatchSettled \/ BatchFailed \/ RollbackStarted \/ UndoDone
               \/ RolledBack \/ FailurePropagated
    <2>1. /\ snap'.plan = snap.plan /\ snap'.tstatus = snap.tstatus /\ result' = result
      <3>1. CASE Started \/ BatchSettled \/ RollbackStarted \/ UndoDone
        BY <3>1 DEF Started, BatchSettled, RollbackStarted, UndoDone
      <3>2. CASE BatchGathered \/ BatchFailed \/ RolledBack \/ FailurePropagated
        BY <3>2 DEF BatchGathered, BatchFailed, RolledBack, FailurePropagated, Save, TypeOK,
                    WorkflowSnapshot
      <3> QED
        BY <1>1, <3>1, <3>2
    <2>2. \A u \in Ids : pc'[u] = pc[u] \/ {pc[u], pc'[u]} \subseteq {"idle", "done"}
      <3>1. CASE BatchGathered \/ UndoDone
        BY <3>1, MainNotId DEF BatchGathered, UndoDone, TypeOK
      <3>2. CASE ~BatchGathered /\ ~UndoDone
        <4>1. \E point : Goto(Main, point)
          BY <1>1, <3>2 DEF Started, BatchSettled, BatchFailed, RollbackStarted, RolledBack,
                            FailurePropagated
        <4> QED
          BY <4>1, MainNotId DEF Goto, TypeOK
      <3> QED
        BY <3>1, <3>2
    <2>3. \A u \in Tasks : Phase(u)' = Phase(u)
      BY <2>1, <2>2 DEF Phase, Ids
    <2> QED
      BY <2>1, <2>3, GraphStutters DEF Still
  <1>2. CASE UndoNext
    <2>1. snap'.plan = snap.plan /\ result' = result
      BY <1>2 DEF UndoNext, TypeOK, WorkflowSnapshot
    <2>2. \A t \in Tasks : pc'[t] = pc[t] /\ snap'.tstatus[t] = snap.tstatus[t]
      <3>1. CASE UNCHANGED snap /\ (Goto(Main, "raised") \/ UNCHANGED pc)
        BY <3>1, MainNotId DEF Goto, TypeOK, Ids
      <3>2. CASE /\ Visited \in snap.plan \cap Undoable
                 /\ snap' = [snap EXCEPT !.tstatus[UndoOf[Visited]] = "pending",
                                         !.attempts[UndoOf[Visited]] = 0]
                 /\ pc' = [pc EXCEPT ![UndoOf[Visited]] = "top", ![Main] = "undoing"]
        <4>1. UndoOf[Visited] \notin Tasks /\ Main \notin Tasks /\ Tasks \subseteq Ids
          BY <3>2, GraphAssumption DEF Ids
        <4> QED
          BY <3>2, <4>1, MainNotId DEF TypeOK, WorkflowSnapshot
      <3> QED
        BY <1>2, <3>1, <3>2 DEF UndoNext
    <2> QED
      BY <2>1, <2>2, GraphStutters DEF Still, Phase
  <1> QED
    BY <1>1, <1>2, PlanBatchSkips, DispatchStarts, LeavesConclude DEF MainStep, Graph!Next

LEMMA RequestGraph ==
  ASSUME IInv, Aside \/ UNCHANGED vars
  PROVE  [Graph!Next]_(Graph!vars)
  <1>1. snap' = snap /\ result' = result /\ (pc' = pc \/ pc' = Wake)
    BY AsideSame DEF vars
  <1>2. \A t \in Ids : pc'[t] = pc[t] \/ (pc[t] = "waiting" /\ pc'[t] = "woken")
    BY <1>1, MainNotId DEF Wake
  <1> QED
    BY <1>1, <1>2, GraphStutters DEF Still, Phase, Ids

\* The first run of a workflow executes the plan as TaskGraph says, with all its pauses,
\* cancellations, retries, conditions, generated tasks and rollbacks.
THEOREM RunImplementsTaskGraph ==
  ASSUME Firm
  PROVE  Spec /\ []OneRun => ImplementsTaskGraph
  <1>1. Init => Graph!Init
    BY MainNotId DEF Init, InitialSnapshot, Graph!Init, Phase, Ids
  <1>2. ASSUME IInv, Recorded, RunInv, [Next]_vars, OneRun, OneRun'
        PROVE  [Graph!Next]_(Graph!vars)
    <2>1. UnderWay /\ Ids \subseteq Coroutines /\ Main \in Coroutines
      BY <1>2, MainNotId DEF RunInv, MainFacts
    <2> QED
      BY <1>2, <2>1, RunSteps, BoundaryGraph, TaskStepGraph, MainStepGraph, RequestGraph
  <1> QED
    BY <1>1, <1>2, Invariance, Record, Runs, PTL DEF Spec, ImplementsTaskGraph, Graph!Spec

=============================================================================
