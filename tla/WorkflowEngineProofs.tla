------------------------ MODULE WorkflowEngineProofs ------------------------
(***************************************************************************)
(* Proofs about WorkflowEngine: type correctness, the inductive invariant  *)
(* behind ParallelismBounded and CompletionIsHonest, and what the engine   *)
(* remembers of a run: which tasks completed, what the DAG and the         *)
(* persisted snapshot know of them, what may start because of them, and    *)
(* what the store holds when it returns, through every pause,              *)
(* cancellation, crash, resume and fault and every order of the writes.    *)
(***************************************************************************)
EXTENDS WorkflowEngine, FiniteSetTheorems, SequenceTheorems, TLAPS

-----------------------------------------------------------------------------
(* Type correctness                                                        *)

LEMMA MarkType ==
  ASSUME NEW s \in Seq(Ids), NEW t \in Ids
  PROVE  Mark(s, t) \in Seq(Ids) /\ Len(Mark(s, t)) >= Len(s)
  BY DEF Mark

LEMMA MainNotId == Main \notin Ids /\ Main \in Coroutines /\ Ids \subseteq Coroutines
  BY GraphAssumption DEF Coroutines

\* A step of coroutine c to another of its own points keeps pc well typed.
LEMMA GotoType ==
  ASSUME TypeOK, NEW c \in Coroutines, NEW point, Goto(c, point),
         point \in ControlPoints \/ (c \in Ids /\ point \in TaskPoints)
           \/ (c = Main /\ point \in MainPoints)
  PROVE  /\ pc' \in [Coroutines -> TaskPoints \cup MainPoints]
         /\ pc'[Main] \in MainPoints /\ \A t \in Ids : pc'[t] \in TaskPoints
  BY MainNotId DEF TypeOK, Goto, Coroutines, TaskPoints, MainPoints

LEMMA FinalRunStatusType == FinalRunStatus \in {"cancelled", "escalated", "success"}
  BY DEF FinalRunStatus

LEMMA TerminalEventType == ASSUME NEW s PROVE TerminalEvent(s) \in TerminalEvents \ {"none"}
  BY DEF TerminalEvent, TerminalEvents

\* The part of the type invariant that is about the store.
Stocked ==
  /\ disk \in WorkflowSnapshot /\ opening \in SUBSET Writers
  /\ writes \in SUBSET [by: Writers, what: WorkflowSnapshot]

LEMMA SaveType ==
  ASSUME TypeOK, NEW c \in Coroutines, NEW s \in WorkflowSnapshot, Save(c, s)
  PROVE  snap' = s /\ disk' \in {disk, snap'} /\ writes' = writes /\ Stocked'
  BY DEF Save, Stocked, TypeOK, Writers

LEMMA StatusSaveType ==
  ASSUME TypeOK, NEW c \in Coroutines, NEW status \in WorkflowRunStatus,
         Save(c, [snap EXCEPT !.status = status])
  PROVE  snap' \in WorkflowSnapshot /\ Stocked' /\ snap'.completed = snap.completed
  <1>1. /\ [snap EXCEPT !.status = status] \in WorkflowSnapshot
        /\ [snap EXCEPT !.status = status].completed = snap.completed
    BY DEF TypeOK, WorkflowSnapshot
  <1> QED
    BY <1>1, SaveType

LEMMA InitType == Init => TypeOK
  <1> SUFFICES ASSUME Init PROVE TypeOK
    OBVIOUS
  <1>1. InitialSnapshot \in WorkflowSnapshot
    BY GraphAssumption DEF InitialSnapshot, WorkflowSnapshot, WorkflowRunStatus, TaskStatus
  <1>2. cursor \in 0..Len(snap.completed)
    BY DEF Init, InitialSnapshot
  <1> QED
    BY <1>1, <1>2, MainNotId
       DEF Init, TypeOK, TerminalEvents, Coroutines, TaskPoints, MainPoints, ControlPoints

LEMMA ContinueType ==
  ASSUME TypeOK, NEW c \in Coroutines, Continue(c)
  PROVE  TypeOK'
  <1>1. CASE c \in Ids /\ AttemptRefused(c)
    <2>1. snap' \in WorkflowSnapshot /\ snap'.completed = snap.completed
      BY <1>1 DEF TypeOK, AttemptRefused, WorkflowSnapshot, TaskStatus
    <2>2. Goto(c, "done")
      BY <1>1 DEF AttemptRefused
    <2> QED
      BY <1>1, <2>1, <2>2, GotoType DEF TypeOK, Continue, AttemptRefused, TaskPoints
  <1>2. CASE c \in Ids /\ AttemptStarted(c)
    <2>0. [snap.attempts EXCEPT ![c] = @ + 1] \in [Ids -> Nat]
      BY <1>2 DEF TypeOK, WorkflowSnapshot
    <2>1. snap' \in WorkflowSnapshot /\ snap'.completed = snap.completed
      BY <1>2, <2>0 DEF TypeOK, AttemptStarted, WorkflowSnapshot, TaskStatus
    <2>2. Goto(c, "agent")
      BY <1>2 DEF AttemptStarted
    <2> QED
      BY <1>2, <2>1, <2>2, GotoType DEF TypeOK, Continue, AttemptStarted, TaskPoints
  <1>3. CASE c = Main /\ LoopLeft
    <2>1. Goto(Main, "returned")
      BY <1>3 DEF LoopLeft
    <2> QED
      BY <1>3, <2>1, GotoType, TerminalEventType DEF TypeOK, Continue, LoopLeft, MainPoints
  <1>4. CASE c = Main /\ LoopContinued
    <2>1. Goto(Main, "planning")
      BY <1>4 DEF LoopContinued
    <2> QED
      BY <1>4, <2>1, GotoType DEF TypeOK, Continue, LoopContinued, MainPoints
  <1> QED
    BY <1>1, <1>2, <1>3, <1>4 DEF Continue

LEMMA BoundaryType ==
  ASSUME TypeOK, NEW c \in Coroutines, Boundary(c)
  PROVE  TypeOK'
  <1>1. CASE Continue(c)
    BY <1>1, ContinueType
  <1>2. CASE ControlsCancel(c)
    <2>0. /\ Unfinished \subseteq Ids
          /\ [t \in Ids |-> IF t \in Unfinished THEN "failed" ELSE snap.tstatus[t]]
               \in [Ids -> TaskStatus]
      BY DEF TypeOK, WorkflowSnapshot, Unfinished, TaskStatus, Ids
    <2>1. PICK s \in WorkflowSnapshot : Save(c, s) /\ s.completed = snap.completed
      <3> DEFINE s == [snap EXCEPT
            !.status = "cancelled",
            !.tstatus = [t \in Ids |-> IF t \in Unfinished THEN "failed" ELSE @[t]],
            !.cancelled = @ \cup Unfinished]
      <3>1. s \in WorkflowSnapshot /\ s.completed = snap.completed
        BY <2>0 DEF TypeOK, WorkflowSnapshot, WorkflowRunStatus
      <3> QED
        BY <1>2, <3>1 DEF ControlsCancel
    <2>2. Goto(c, "cancelling")
      BY <1>2 DEF ControlsCancel
    <2> QED
      BY <1>2, <2>1, <2>2, GotoType, SaveType DEF TypeOK, Stocked, ControlsCancel, ControlPoints
  <1>3. CASE ControlsPause(c)
    <2>1. snap' \in WorkflowSnapshot /\ Stocked'
            /\ snap'.completed = snap.completed
      BY <1>3, StatusSaveType DEF ControlsPause, WorkflowRunStatus
    <2>2. Goto(c, "pausing")
      BY <1>3 DEF ControlsPause
    <2> QED
      BY <1>3, <2>1, <2>2, GotoType DEF TypeOK, Stocked, ControlsPause, ControlPoints
  <1>4. CASE PauseWait(c)
    <2>1. Goto(c, "waiting")
      BY <1>4 DEF PauseWait
    <2> QED
      BY <1>4, <2>1, GotoType DEF TypeOK, PauseWait, ControlPoints
  <1>5. CASE PauseLeft(c)
    <2>1. snap' \in WorkflowSnapshot /\ Stocked'
            /\ snap'.completed = snap.completed
      BY <1>5, StatusSaveType DEF PauseLeft, WorkflowRunStatus
    <2>2. Goto(c, "resuming")
      BY <1>5 DEF PauseLeft
    <2> QED
      BY <1>5, <2>1, <2>2, GotoType DEF TypeOK, Stocked, PauseLeft, ControlPoints
  <1> QED
    BY <1>1, <1>2, <1>3, <1>4, <1>5
       DEF Boundary, ControlsPass, CancelCheckpointed, PauseCancelled, ResumeCheckpointed

LEMMA TaskStepType ==
  ASSUME TypeOK, NEW t \in Ids, TaskStep(t)
  PROVE  TypeOK'
  <1> t \in Coroutines
    BY MainNotId
  <1>1. CASE AgentSucceeds(t)
    <2>1. PICK held \in SUBSET {g \in Guarded : GuardOn[g] = t} :
            Save(t, [snap EXCEPT !.tstatus[t] = "success", !.output[t] = held,
                                 !.completed = Mark(@, t)])
      BY <1>1 DEF AgentSucceeds
    <2>2. Mark(snap.completed, t) \in Seq(Ids) /\ Len(Mark(snap.completed, t)) >= Len(snap.completed)
      BY MarkType DEF TypeOK, WorkflowSnapshot
    <2>3. [snap.output EXCEPT ![t] = held] \in [Ids -> SUBSET Guarded]
      BY DEF TypeOK, WorkflowSnapshot
    <2>4. /\ snap' \in WorkflowSnapshot /\ Stocked'
          /\ snap'.completed = Mark(snap.completed, t)
      <3> DEFINE s == [snap EXCEPT !.tstatus[t] = "success", !.output[t] = held,
                                   !.completed = Mark(@, t)]
      <3>1. s \in WorkflowSnapshot /\ s.completed = Mark(snap.completed, t)
        BY <2>2, <2>3 DEF TypeOK, WorkflowSnapshot, TaskStatus
      <3> QED
        BY <2>1, <3>1, SaveType
    <2>5. cursor' \in 0..Len(snap'.completed)
      BY <1>1, <2>2, <2>4, LenProperties DEF TypeOK, AgentSucceeds, WorkflowSnapshot
    <2>6. Goto(t, "saving")
      BY <1>1 DEF AgentSucceeds
    <2> QED
      BY <1>1, <2>4, <2>5, <2>6, GotoType DEF TypeOK, Stocked, AgentSucceeds, TaskPoints
  <1>2. CASE AgentFails(t)
    <2>1. Goto(t, "failing")
      BY <1>2 DEF AgentFails
    <2> QED
      BY <1>2, <2>1, GotoType DEF TypeOK, AgentFails, TaskPoints
  <1>3. CASE SuccessSaved(t)
    <2>1. \/ snap' = snap
          \/ t \in Generators /\ snap' = [snap EXCEPT !.plan = @ \cup {Generated[t]}]
      BY <1>3 DEF SuccessSaved, DynamicTasks
    <2>2. t \in Generators => Generated[t] \in Tasks
      BY GraphAssumption
    <2>3. snap' \in WorkflowSnapshot /\ snap'.completed = snap.completed
      <3>1. CASE snap' = snap
        BY <3>1 DEF TypeOK
      <3>2. CASE t \in Generators /\ snap' = [snap EXCEPT !.plan = @ \cup {Generated[t]}]
        BY <2>2, <3>2 DEF TypeOK, WorkflowSnapshot
      <3> QED
        BY <2>1, <3>1, <3>2
    <2>4. Goto(t, "done") \/ Goto(t, "failing")
      BY <1>3 DEF SuccessSaved, DynamicTasks
    <2> QED
      BY <1>3, <2>3, <2>4, GotoType DEF TypeOK, SuccessSaved, TaskPoints
  <1>4. CASE FailureRecorded(t)
    <2>1. snap' \in WorkflowSnapshot /\ snap'.completed = snap.completed /\ Goto(t, "top")
      BY <1>4 DEF TypeOK, FailureRecorded, WorkflowSnapshot, TaskStatus
    <2> QED
      BY <1>4, <2>1, GotoType DEF TypeOK, FailureRecorded, ControlPoints
  <1>5. CASE RetryScheduled(t)
    <2>1. /\ snap' \in WorkflowSnapshot /\ Stocked'
          /\ snap'.completed = snap.completed /\ Goto(t, "retrying")
      <3>1. [snap EXCEPT !.tstatus[t] = "retrying"] \in WorkflowSnapshot
              /\ [snap EXCEPT !.tstatus[t] = "retrying"].completed = snap.completed
        BY DEF TypeOK, WorkflowSnapshot, TaskStatus
      <3> QED
        BY <1>5, <3>1, SaveType DEF RetryScheduled
    <2> QED
      BY <1>5, <2>1, GotoType DEF TypeOK, Stocked, RetryScheduled, TaskPoints
  <1>6. CASE RetryReleased(t)
    <2>1. Goto(t, "top")
      BY <1>6 DEF RetryReleased
    <2> QED
      BY <1>6, <2>1, GotoType DEF TypeOK, RetryReleased, ControlPoints
  <1>7. CASE LoopExhausted(t)
    <2>1. \/ Keep(snap)
          \/ Save(t, [snap EXCEPT !.tstatus[t] = "failed", !.failed = @ \cup {t}])
      BY <1>7 DEF LoopExhausted
    <2>2. /\ snap' \in WorkflowSnapshot /\ Stocked'
          /\ snap'.completed = snap.completed
      <3>1. CASE Keep(snap)
        BY <3>1 DEF TypeOK, Keep, Stocked
      <3>2. CASE Save(t, [snap EXCEPT !.tstatus[t] = "failed", !.failed = @ \cup {t}])
        <4> DEFINE s == [snap EXCEPT !.tstatus[t] = "failed", !.failed = @ \cup {t}]
        <4>1. s \in WorkflowSnapshot /\ s.completed = snap.completed
          BY DEF TypeOK, WorkflowSnapshot, TaskStatus
        <4> QED
          BY <3>2, <4>1, SaveType
      <3> QED
        BY <2>1, <3>1, <3>2
    <2>3. Goto(t, "done") \/ Goto(t, "closing")
      BY <1>7 DEF LoopExhausted
    <2> QED
      BY <1>7, <2>2, <2>3, GotoType DEF TypeOK, Stocked, LoopExhausted, TaskPoints
  <1>8. CASE FailureSaved(t)
    <2>1. Goto(t, "done")
      BY <1>8 DEF FailureSaved
    <2> QED
      BY <1>8, <2>1, GotoType DEF TypeOK, FailureSaved, TaskPoints
  <1> QED
    BY <1>1, <1>2, <1>3, <1>4, <1>5, <1>6, <1>7, <1>8 DEF TaskStep

LEMMA PlanBatchType ==
  ASSUME TypeOK, PlanBatch
  PROVE  TypeOK'
  <1>1. PICK S \in SUBSET snap.plan :
          /\ dagDone' = dagDone \cup ((snap.skipped \cup S) \cap snap.plan)
          /\ \E s \in WorkflowRunStatus : Save(Main, [WithSkipped(S) EXCEPT !.status = s])
          /\ Goto(Main, "ending") \/ Goto(Main, "scheduling")
    BY FinalRunStatusType DEF PlanBatch, WorkflowRunStatus
  <1>2. /\ [t \in Ids |-> IF t \in S THEN "success" ELSE snap.tstatus[t]] \in [Ids -> TaskStatus]
        /\ [t \in Ids |-> IF t \in S THEN HoldWhenSkipped ELSE snap.output[t]]
             \in [Ids -> SUBSET Guarded]
        /\ snap.skipped \cup S \in SUBSET Tasks
    BY GraphAssumption DEF TypeOK, WorkflowSnapshot, TaskStatus
  <1>3. /\ WithSkipped(S) \in WorkflowSnapshot
        /\ WithSkipped(S).completed = snap.completed
    BY <1>2 DEF TypeOK, WithSkipped, WorkflowSnapshot
  <1>4. /\ snap' \in WorkflowSnapshot /\ Stocked'
        /\ snap'.completed = snap.completed
    <2>1. PICK s \in WorkflowRunStatus : Save(Main, [WithSkipped(S) EXCEPT !.status = s])
      BY <1>1
    <2>2. [WithSkipped(S) EXCEPT !.status = s] \in WorkflowSnapshot
            /\ [WithSkipped(S) EXCEPT !.status = s].completed = snap.completed
      BY <1>3 DEF WorkflowSnapshot
    <2> QED
      BY <2>1, <2>2, SaveType, MainNotId
  <1>5. dagDone' \in SUBSET Ids
    BY <1>1 DEF TypeOK, WorkflowSnapshot, Ids
  <1> QED
    BY <1>1, <1>4, <1>5, GotoType, MainNotId DEF TypeOK, Stocked, PlanBatch, MainPoints

LEMMA MainStepType ==
  ASSUME TypeOK, MainStep
  PROVE  TypeOK'
  <1>1. CASE Started
    <2>1. Goto(Main, "top")
      BY <1>1 DEF Started
    <2> QED
      BY <1>1, <2>1, GotoType, MainNotId DEF TypeOK, Started, ControlPoints
  <1>2. CASE PlanBatch
    BY <1>2, PlanBatchType
  <1>3. CASE Dispatch
    <2>1. PICK batch \in SUBSET Tasks :
            /\ snap' = [snap EXCEPT !.status = "running", !.current = batch]
            /\ pc' = [c \in Coroutines |-> IF c \in batch THEN "top"
                                           ELSE IF c = Main THEN "batch" ELSE pc[c]]
      <3>1. \A batch \in Batches(ReadyTasks(dagDone)) : batch \in SUBSET Tasks
        BY DEF Batches, ReadyTasks, TypeOK, WorkflowSnapshot
      <3> QED
        BY <1>3, <3>1 DEF Dispatch
    <2>2. snap' \in WorkflowSnapshot /\ snap'.completed = snap.completed
      BY <2>1 DEF TypeOK, WorkflowSnapshot, WorkflowRunStatus
    <2> QED
      BY <1>3, <2>1, <2>2, MainNotId
         DEF TypeOK, Dispatch, ControlPoints, TaskPoints, MainPoints, Ids
  <1>4. CASE BatchGathered
    <2>1. /\ snap' \in WorkflowSnapshot /\ Stocked'
          /\ snap'.completed = snap.completed
      <3>1. /\ [snap EXCEPT !.current = {}] \in WorkflowSnapshot
            /\ [snap EXCEPT !.current = {}].completed = snap.completed
        BY DEF TypeOK, WorkflowSnapshot
      <3> QED
        BY <1>4, <3>1, SaveType, MainNotId DEF BatchGathered
    <2>2. snap.current \subseteq Ids
      BY DEF TypeOK, WorkflowSnapshot, Ids
    <2> QED
      BY <1>4, <2>1, <2>2, MainNotId DEF TypeOK, Stocked, BatchGathered, TaskPoints, MainPoints
  <1>5. CASE BatchSettled
    <2>1. Goto(Main, "top")
      BY <1>5 DEF BatchSettled
    <2> QED
      BY <1>5, <2>1, GotoType, MainNotId DEF TypeOK, BatchSettled, ControlPoints
  <1>6. CASE BatchFailed
    <2>1. /\ \E s \in WorkflowRunStatus : Save(Main, [snap EXCEPT !.status = s])
          /\ Goto(Main, "rollback") \/ Goto(Main, "ending")
      BY <1>6, FinalRunStatusType DEF BatchFailed, WorkflowRunStatus
    <2>2. /\ snap' \in WorkflowSnapshot /\ Stocked'
          /\ snap'.completed = snap.completed
      BY <2>1, StatusSaveType, MainNotId
    <2> QED
      BY <1>6, <2>1, <2>2, GotoType, MainNotId DEF TypeOK, Stocked, BatchFailed, MainPoints
  <1>7. CASE RollbackStarted
    <2>1. Goto(Main, "undoNext") /\ cursor' = Len(snap.completed)
      BY <1>7 DEF RollbackStarted
    <2>2. Len(snap.completed) \in Nat
      BY LenProperties DEF TypeOK, WorkflowSnapshot
    <2> QED
      BY <1>7, <2>1, <2>2, GotoType, MainNotId DEF TypeOK, RollbackStarted, MainPoints
  <1>8. CASE UndoNext
    <2>1. cursor' \in 0..Len(snap.completed) /\ cursor \in 1..Len(snap.completed)
      BY <1>8, LenProperties DEF TypeOK, UndoNext, WorkflowSnapshot
    <2>2. Visited \in Undoable => UndoOf[Visited] \in Ids
      BY GraphAssumption DEF Ids
    <2>3. CASE Visited \notin snap.plan /\ Goto(Main, "raised") /\ UNCHANGED snap
      BY <1>8, <2>1, <2>3, GotoType, MainNotId DEF TypeOK, UndoNext, MainPoints
    <2>4. CASE UNCHANGED <<snap, pc>>
      BY <1>8, <2>1, <2>4 DEF TypeOK, UndoNext
    <2>5. CASE /\ Visited \in snap.plan \cap Undoable
               /\ snap' = [snap EXCEPT !.tstatus[UndoOf[Visited]] = "pending",
                                       !.attempts[UndoOf[Visited]] = 0]
               /\ pc' = [pc EXCEPT ![UndoOf[Visited]] = "top", ![Main] = "undoing"]
      <3>1. snap' \in WorkflowSnapshot /\ snap'.completed = snap.completed
        BY <2>2, <2>5 DEF TypeOK, WorkflowSnapshot, TaskStatus
      <3> QED
        BY <1>8, <2>1, <2>2, <2>5, <3>1, MainNotId
           DEF TypeOK, UndoNext, ControlPoints, TaskPoints, MainPoints
    <2> QED
      BY <1>8, <2>3, <2>4, <2>5 DEF UndoNext
  <1>9. CASE UndoDone
    BY <1>9, MainNotId DEF TypeOK, UndoDone, TaskPoints, MainPoints, Ids
  <1>10. CASE RolledBack
    <2>1. /\ snap' \in WorkflowSnapshot /\ snap'.completed = snap.completed
          /\ Goto(Main, "rolledBack")
      BY <1>10 DEF TypeOK, RolledBack, WorkflowSnapshot, WorkflowRunStatus
    <2> QED
      BY <1>10, <2>1, GotoType, MainNotId DEF TypeOK, RolledBack, MainPoints
  <1>11. CASE FailurePropagated
    <2>1. /\ snap' \in WorkflowSnapshot /\ Stocked'
          /\ snap'.completed = snap.completed /\ Goto(Main, "ending")
      BY <1>11, FinalRunStatusType, StatusSaveType, MainNotId
         DEF FailurePropagated, WorkflowRunStatus
    <2> QED
      BY <1>11, <2>1, GotoType, MainNotId DEF TypeOK, Stocked, FailurePropagated, MainPoints
  <1>12. CASE Ended
    <2>1. Goto(Main, "returned")
      BY <1>12 DEF Ended
    <2> QED
      BY <1>12, <2>1, GotoType, MainNotId, TerminalEventType DEF TypeOK, Ended, MainPoints
  <1> QED
    BY <1>1, <1>2, <1>3, <1>4, <1>5, <1>6, <1>7, <1>8, <1>9, <1>10, <1>11, <1>12 DEF MainStep

LEMMA SpendType ==
  ASSUME TypeOK, NEW e \in Events, Spend(e)
  PROVE  used' \in [Events -> Nat]
  BY DEF TypeOK, Spend

LEMMA WakeType == ASSUME TypeOK PROVE /\ Wake \in [Coroutines -> TaskPoints \cup MainPoints]
                                      /\ Wake[Main] \in MainPoints
                                      /\ \A t \in Ids : Wake[t] \in TaskPoints
  BY MainNotId DEF TypeOK, Wake, TaskPoints, MainPoints, ControlPoints

LEMMA LoadedType == ASSUME TypeOK PROVE Loaded \in WorkflowSnapshot
  BY DEF TypeOK, Loaded

LEMMA RequestedType ==
  ASSUME NEW s \in WorkflowSnapshot PROVE Requested(s) \in WorkflowSnapshot
  BY DEF Requested, WorkflowSnapshot, WorkflowRunStatus

LEMMA DroppedType ==
  ASSUME TypeOK, NEW c, Dropped(c)
  PROVE  /\ disk' = disk /\ opening' \in SUBSET Writers
         /\ writes' \in SUBSET [by: Writers, what: WorkflowSnapshot]
  BY DEF TypeOK, Dropped

LEMMA LaunchType ==
  ASSUME TypeOK, NEW s \in WorkflowSnapshot, Launch(s),
         requests' \in SUBSET {"pause", "cancel"}, used' \in [Events -> Nat]
  PROVE  TypeOK'
  <1>1. /\ snap' \in WorkflowSnapshot /\ Stocked'
        /\ snap'.completed = s.completed
    <2>1. [s EXCEPT !.status = "running"] \in WorkflowSnapshot
            /\ [s EXCEPT !.status = "running"].completed = s.completed
      BY DEF WorkflowSnapshot, WorkflowRunStatus
    <2> QED
      BY <2>1, SaveType, MainNotId DEF Launch
  <1>2. Len(s.completed) \in Nat /\ Range(s.completed) \subseteq Ids
    BY LenProperties, ElementOfSeq DEF WorkflowSnapshot, Range
  <1>3. dagDone' \in SUBSET Ids /\ cursor' \in 0..Len(snap'.completed)
    BY <1>1, <1>2 DEF Launch, MarkedInDag, WorkflowSnapshot, Ids
  <1>4. Goto(Main, "starting") /\ result' \in TerminalEvents
    BY DEF Launch, TerminalEvents
  <1> QED
    BY <1>1, <1>3, <1>4, GotoType, MainNotId DEF TypeOK, Stocked, MainPoints

LEMMA ResetType ==
  ASSUME NEW s \in WorkflowSnapshot
  PROVE  Reset(s) \in WorkflowSnapshot /\ Reset(s).completed = <<>>
  <1>1. /\ [t \in Ids |-> "pending"] \in [Ids -> TaskStatus]
        /\ [t \in Ids |-> 0] \in [Ids -> Nat]
        /\ [t \in Ids |-> {}] \in [Ids -> SUBSET Guarded]
        /\ <<>> \in Seq(Ids)
    BY DEF TaskStatus
  <1> QED
    BY <1>1 DEF Reset, WorkflowSnapshot

LEMMA EnvironmentType ==
  ASSUME TypeOK, Environment
  PROVE  TypeOK'
  <1>1. CASE Pause
    BY <1>1, SpendType DEF TypeOK, Pause, Events
  <1>2. CASE ResumePaused
    BY <1>2, WakeType DEF TypeOK, ResumePaused
  <1>3. ASSUME NEW k \in Clients, Cancel(k) PROVE TypeOK'
    <2>1. Requested(snap) \in WorkflowSnapshot /\ Requested(Loaded) \in WorkflowSnapshot
      BY RequestedType, LoadedType DEF TypeOK
    <2>2. /\ disk' \in WorkflowSnapshot /\ opening' \in SUBSET Writers
          /\ writes' \in SUBSET [by: Writers, what: WorkflowSnapshot]
      BY <1>3, <2>1 DEF TypeOK, Cancel, Writers
    <2>3. snap' = snap /\ dagDone' = dagDone /\ cursor' = cursor /\ result' = result
            /\ requests' \in SUBSET {"pause", "cancel"} /\ pc' = Wake
            /\ used' \in [Events -> Nat]
      BY <1>3, SpendType DEF TypeOK, Cancel, Events
    <2> QED
      BY <2>2, <2>3, WakeType DEF TypeOK
  <1>4. CASE Resume
    BY <1>4, LaunchType, LoadedType, SpendType DEF Resume, Events
  <1>5. CASE Restart
    <2>1. Save(Main, Reset(Loaded)) /\ Goto(Main, "restarting")
      BY <1>5 DEF Restart
    <2>2. /\ snap' \in WorkflowSnapshot /\ Stocked'
          /\ snap'.completed = <<>>
      BY <2>1, ResetType, LoadedType, SaveType, MainNotId
    <2>3. cursor' \in 0..Len(snap'.completed)
      BY <1>5, <2>2 DEF Restart
    <2> QED
      BY <1>5, <2>1, <2>2, <2>3, GotoType, SpendType, MainNotId
         DEF TypeOK, Stocked, Restart, Events, MainPoints, TerminalEvents
  <1>6. CASE Crash
    <2>1. snap' = disk /\ disk' = disk /\ cursor' = 0
      BY <1>6 DEF Crash, Save, Recovered
    <2>2. cursor' \in 0..Len(snap'.completed)
      BY <2>1, LenProperties DEF TypeOK, WorkflowSnapshot
    <2> QED
      BY <1>6, <2>1, <2>2, SpendType, MainNotId
         DEF TypeOK, Crash, Events, MainPoints, TaskPoints, TerminalEvents
  <1>7. ASSUME NEW t \in Ids, TaskFault(t) PROVE TypeOK'
    <2>1. \/ Goto(t, "failing") \/ Goto(t, "done")
          \/ pc' = [pc EXCEPT ![t] = "idle", ![Main] = "raised"]
      BY <1>7 DEF TaskFault
    <2>2. /\ pc' \in [Coroutines -> TaskPoints \cup MainPoints]
          /\ pc'[Main] \in MainPoints /\ \A u \in Ids : pc'[u] \in TaskPoints
      BY <2>1, GotoType, MainNotId DEF TypeOK, TaskPoints, MainPoints
    <2> QED
      BY <1>7, <2>2, SpendType, DroppedType DEF TypeOK, TaskFault, Events
  <1>8. CASE MainFault
    <2>1. Goto(Main, "leaked") \/ Goto(Main, "raised")
      BY <1>8 DEF MainFault
    <2> QED
      BY <1>8, <2>1, GotoType, SpendType, MainNotId, DroppedType
         DEF TypeOK, MainFault, Events, MainPoints
  <1>9. ASSUME NEW k \in Clients, ClientFault(k) PROVE TypeOK'
    BY <1>9, SpendType, DroppedType DEF TypeOK, ClientFault, Events
  <1> QED
    BY <1>1, <1>2, <1>3, <1>4, <1>5, <1>6, <1>7, <1>8, <1>9 DEF Environment

LEMMA StoreType ==
  ASSUME TypeOK, NEW c \in Writers, StoreStep(c)
  PROVE  TypeOK'
  <1>1. CASE Dumped(c)
    <2>1. (IF c \in Clients THEN Requested(disk) ELSE snap) \in WorkflowSnapshot
      BY RequestedType DEF TypeOK
    <2> QED
      BY <1>1, <2>1 DEF TypeOK, Dumped
  <1>2. CASE Landed(c)
    BY <1>2 DEF TypeOK, Landed
  <1> QED
    BY <1>1, <1>2 DEF StoreStep

LEMMA StepType == TypeOK /\ [Next]_vars => TypeOK'
  <1> SUFFICES ASSUME TypeOK, [Next]_vars PROVE TypeOK'
    OBVIOUS
  <1>1. CASE Restarted
    <2>1. snap \in WorkflowSnapshot /\ Launch(snap) /\ UNCHANGED <<requests, used>>
      BY <1>1 DEF Restarted, TypeOK
    <2> QED
      BY <2>1, LaunchType DEF TypeOK
  <1>2. CASE UNCHANGED vars
    BY <1>2 DEF TypeOK, vars
  <1> QED
    BY <1>1, <1>2, BoundaryType, TaskStepType, MainStepType, StoreType, EnvironmentType
       DEF Next, Engine

\* Every variable keeps its type in every run of every plan under every policy.
THEOREM TypeCorrect == Spec => []TypeOK
  BY InitType, StepType, PTL DEF Spec

-----------------------------------------------------------------------------
(* The inductive invariant                                                 *)

\* A failed task is on one of the two lists _final_run_status looks at.
Accounted(s) == \A t \in Ids : s.tstatus[t] = "failed" => t \in s.failed \cup s.cancelled

\* No batch is wider than the policy allows.
Narrow(s) == IsFiniteSet(s.current) /\ Cardinality(s.current) <= MaxParallel

\* Who can be inside _execute_task: the batch, or the one rollback task under way.
Flight ==
  /\ pc[Main] = "batch" => \A t \in Ids : pc[t] # "idle" => t \in snap.current
  /\ pc[Main] = "undoing" => \E u \in UndoIds : \A t \in Ids : pc[t] # "idle" => t = u
  /\ pc[Main] \notin {"batch", "undoing"} => \A t \in Ids : pc[t] = "idle"

\* A rollback is always the consequence of a failure that is still on record.
Caused == pc[Main] \in {"rollback", "undoNext", "undoing", "rolledBack"} => snap.failed # {}

AllSucceeded == \A t \in snap.plan : snap.tstatus[t] = "success"

\* SUCCESS is only ever concluded, and only ever published, of a finished plan.
Honest ==
  /\ pc[Main] = "ending" /\ snap.status = "success" => AllSucceeded
  /\ result = "workflow.completed" => pc[Main] = "returned" /\ AllSucceeded

IInv ==
  /\ TypeOK
  /\ Accounted(snap) /\ Accounted(disk)
  /\ Narrow(snap) /\ Narrow(disk)
  /\ Flight /\ Caused /\ Honest

LEMMA InitInv == Init => IInv
  <1> SUFFICES ASSUME Init PROVE IInv
    OBVIOUS
  <1>1. Accounted(InitialSnapshot) /\ Narrow(InitialSnapshot)
    BY FS_EmptySet, PolicyAssumption DEF Accounted, Narrow, InitialSnapshot
  <1>2. Flight /\ Caused /\ Honest
    BY MainNotId DEF Init, Flight, Caused, Honest, Coroutines
  <1> QED
    BY <1>1, <1>2, InitType DEF Init, IInv

\* Whatever a coroutine inside _execute_task does next, the main loop is parked at gather
\* or at the await of a rollback task, so what only concerns the main loop stays true.
LEMMA TaskMove ==
  ASSUME IInv, NEW t \in Ids, NEW point, Goto(t, point),
         pc[t] # "idle", point # "idle",
         snap'.current = snap.current, snap.failed \subseteq snap'.failed, result' = result
  PROVE  Flight' /\ Caused' /\ Honest'
  <1>1. pc'[Main] = pc[Main] /\ \A u \in Ids : pc'[u] # "idle" => pc[u] # "idle"
    BY MainNotId DEF IInv, TypeOK, Goto
  <1>2. pc[Main] \in {"batch", "undoing"}
    BY DEF IInv, Flight
  <1>3. Flight'
    BY <1>1 DEF IInv, Flight
  <1>4. Caused'
    BY <1>1 DEF IInv, Caused
  <1>5. Honest'
    BY <1>1, <1>2 DEF IInv, Honest
  <1> QED
    BY <1>3, <1>4, <1>5

\* A step of the main loop outside the batch and the rollback task finds and leaves every
\* task idle.
LEMMA MainMove ==
  ASSUME IInv, NEW point, Goto(Main, point),
         pc[Main] \notin {"batch", "undoing"}, point \notin {"batch", "undoing"}
  PROVE  Flight' /\ pc'[Main] = point
  <1>1. pc'[Main] = point /\ \A t \in Ids : pc'[t] = pc[t]
    BY MainNotId DEF IInv, TypeOK, Goto
  <1> QED
    BY <1>1 DEF IInv, Flight

\* Nothing is published before the end, so a step that publishes nothing is honest.
LEMMA Unpublished ==
  ASSUME IInv, pc[Main] # "returned", result' = result, pc'[Main] # "ending"
  PROVE  Honest'
  BY DEF IInv, Honest

LEMMA ContinueInv ==
  ASSUME IInv, NEW c \in Coroutines, pc[c] \in ControlPoints, Continue(c)
  PROVE  IInv'
  <1> pc[c] # "idle" /\ pc[c] \notin {"batch", "undoing", "returned"}
    BY DEF ControlPoints
  <1>1. TypeOK'
    BY ContinueType DEF IInv
  <1>2. disk' = disk
    BY DEF Continue
  <1>3. CASE c \in Ids /\ AttemptRefused(c)
    <2>1. snap' = [snap EXCEPT !.tstatus[c] = "failed", !.cancelled = @ \cup {c}]
      BY <1>3 DEF AttemptRefused
    <2>2. Accounted(snap') /\ Narrow(snap')
      BY <2>1 DEF IInv, TypeOK, WorkflowSnapshot, Accounted, Narrow
    <2>3. Flight' /\ Caused' /\ Honest'
      BY <1>3, <2>1, TaskMove DEF AttemptRefused, IInv, TypeOK, WorkflowSnapshot
    <2> QED
      BY <1>1, <1>2, <2>2, <2>3 DEF IInv
  <1>4. CASE c \in Ids /\ AttemptStarted(c)
    <2>1. snap' = [snap EXCEPT !.tstatus[c] = "running", !.attempts[c] = @ + 1]
      BY <1>4 DEF AttemptStarted
    <2>2. Accounted(snap') /\ Narrow(snap')
      BY <2>1 DEF IInv, TypeOK, WorkflowSnapshot, Accounted, Narrow
    <2>3. Flight' /\ Caused' /\ Honest'
      BY <1>4, <2>1, TaskMove DEF AttemptStarted, IInv, TypeOK, WorkflowSnapshot
    <2> QED
      BY <1>1, <1>2, <2>2, <2>3 DEF IInv
  <1>5. CASE c = Main /\ LoopLeft
    <2>1. snap' = snap /\ Goto(Main, "returned") /\ result' # "workflow.completed"
      BY <1>5 DEF LoopLeft, TerminalEvent
    <2>2. Flight' /\ pc'[Main] = "returned"
      BY <1>5, <2>1, MainMove
    <2> QED
      BY <1>1, <1>2, <2>1, <2>2 DEF IInv, Caused, Honest
  <1>6. CASE c = Main /\ LoopContinued
    <2>1. snap' = snap /\ Goto(Main, "planning") /\ result' = result
      BY <1>6 DEF LoopContinued
    <2>2. Flight' /\ pc'[Main] = "planning"
      BY <1>6, <2>1, MainMove
    <2> QED
      BY <1>1, <1>2, <1>6, <2>1, <2>2, Unpublished DEF IInv, Caused
  <1> QED
    BY <1>3, <1>4, <1>5, <1>6 DEF Continue

\* The other steps of _handle_controls: a checkpoint or not, and on to the next await.
LEMMA ControlMove ==
  ASSUME IInv, TypeOK', NEW c \in Coroutines, pc[c] \in ControlPoints,
         NEW point \in ControlPoints, Goto(c, point), result' = result,
         Accounted(snap'), snap'.current = snap.current, snap'.failed = snap.failed,
         disk' \in {disk, snap'}
  PROVE  IInv'
  <1> point # "idle" /\ pc[c] # "idle"
    BY DEF ControlPoints
  <1>1. Accounted(disk') /\ Narrow(snap') /\ Narrow(disk')
    BY DEF IInv, Narrow
  <1>2. CASE c \in Ids
    BY <1>1, <1>2, TaskMove DEF IInv
  <1>3. CASE c = Main
    <2>1. pc[Main] \notin {"batch", "undoing", "returned"} /\ point \notin {"batch", "undoing"}
      BY <1>3 DEF ControlPoints
    <2>2. Flight' /\ pc'[Main] = point
      BY <1>3, <2>1, MainMove
    <2>3. Caused' /\ pc'[Main] # "ending"
      BY <2>2 DEF Caused, ControlPoints
    <2> QED
      BY <1>1, <2>1, <2>2, <2>3, Unpublished DEF IInv
  <1> QED
    BY <1>2, <1>3 DEF Coroutines

LEMMA BoundaryInv ==
  ASSUME IInv, NEW c \in Coroutines, Boundary(c)
  PROVE  IInv'
  <1>1. TypeOK'
    BY BoundaryType DEF IInv
  <1>2. CASE pc[c] \in ControlPoints /\ Continue(c)
    BY <1>2, ContinueInv
  <1>3. CASE ControlsCancel(c)
    <2>1. /\ snap' = [snap EXCEPT
                 !.status = "cancelled",
                 !.tstatus = [t \in Ids |-> IF t \in Unfinished THEN "failed" ELSE @[t]],
                 !.cancelled = @ \cup Unfinished]
          /\ disk' \in {disk, snap'}
      BY <1>3 DEF ControlsCancel, Save
    <2>2. Accounted(snap')
      BY <2>1 DEF IInv, TypeOK, WorkflowSnapshot, Accounted
    <2>3. snap'.current = snap.current /\ snap'.failed = snap.failed
      BY <2>1 DEF IInv, TypeOK, WorkflowSnapshot
    <2> QED
      BY <1>1, <1>3, <2>1, <2>2, <2>3, ControlMove DEF ControlsCancel, AtBoundary, ControlPoints
  <1>4. CASE ControlsPause(c) \/ PauseLeft(c)
    <2>1. \E s \in WorkflowRunStatus : snap' = [snap EXCEPT !.status = s] /\ disk' \in {disk, snap'}
      BY <1>4 DEF ControlsPause, PauseLeft, Save, WorkflowRunStatus
    <2>2. /\ Accounted(snap')
          /\ snap'.current = snap.current /\ snap'.failed = snap.failed
      BY <2>1 DEF IInv, TypeOK, WorkflowSnapshot, Accounted
    <2>3. \E point \in ControlPoints : Goto(c, point) /\ pc[c] \in ControlPoints
      BY <1>4 DEF ControlsPause, PauseLeft, AtBoundary, ControlPoints
    <2> QED
      BY <1>1, <1>4, <2>1, <2>2, <2>3, ControlMove DEF ControlsPause, PauseLeft
  <1>5. CASE PauseWait(c)
    BY <1>1, <1>5, ControlMove DEF PauseWait, ControlPoints, IInv
  <1> QED
    BY <1>2, <1>3, <1>4, <1>5
       DEF Boundary, ControlsPass, CancelCheckpointed, PauseCancelled, ResumeCheckpointed,
           AtBoundary, ControlPoints

LEMMA TaskStepInv ==
  ASSUME IInv, NEW t \in Ids, TaskStep(t)
  PROVE  IInv'
  <1>1. TypeOK'
    BY TaskStepType DEF IInv
  <1>2. \E point \in TaskPoints \ {"idle"} : Goto(t, point) /\ pc[t] # "idle"
    BY DEF TaskStep, AgentSucceeds, AgentFails, SuccessSaved, DynamicTasks, FailureRecorded,
           RetryScheduled, RetryReleased, LoopExhausted, FailureSaved, TaskPoints, ControlPoints
  <1>3. disk' \in {disk, snap, snap'} /\ result' = result
    BY DEF TaskStep, AgentSucceeds, AgentFails, SuccessSaved, FailureRecorded,
           RetryScheduled, RetryReleased, LoopExhausted, FailureSaved, Save, Keep
  <1>4. \/ snap' = snap
        \/ \E o \in SUBSET Guarded, m \in Seq(Ids) :
             snap' = [snap EXCEPT !.tstatus[t] = "success", !.output[t] = o, !.completed = m]
        \/ \E p \in SUBSET Tasks : snap' = [snap EXCEPT !.plan = p]
        \/ snap' = [snap EXCEPT !.tstatus[t] = "failed", !.failed = @ \cup {t}]
        \/ snap' = [snap EXCEPT !.tstatus[t] = "retrying"]
    <2>1. CASE AgentSucceeds(t)
      BY <2>1, MarkType DEF AgentSucceeds, Save, IInv, TypeOK, WorkflowSnapshot
    <2>2. CASE SuccessSaved(t)
      <3>1. t \in Generators => snap.plan \cup {Generated[t]} \in SUBSET Tasks
        BY GraphAssumption DEF IInv, TypeOK, WorkflowSnapshot
      <3> QED
        BY <2>2, <3>1 DEF SuccessSaved, DynamicTasks
    <2> QED
      BY <2>1, <2>2
         DEF TaskStep, AgentFails, FailureRecorded, RetryScheduled, RetryReleased,
             LoopExhausted, FailureSaved, Save, Keep
  <1>5. /\ Accounted(snap')
        /\ snap'.current = snap.current /\ snap.failed \subseteq snap'.failed
    <2> USE DEF IInv, TypeOK, WorkflowSnapshot, Accounted
    <2>1. CASE snap' = snap
      BY <2>1
    <2>2. CASE \E o \in SUBSET Guarded, m \in Seq(Ids) :
             snap' = [snap EXCEPT !.tstatus[t] = "success", !.output[t] = o, !.completed = m]
      BY <2>2
    <2>3. CASE \E p \in SUBSET Tasks : snap' = [snap EXCEPT !.plan = p]
      BY <2>3
    <2>4. CASE snap' = [snap EXCEPT !.tstatus[t] = "failed", !.failed = @ \cup {t}]
      BY <2>4
    <2>5. CASE snap' = [snap EXCEPT !.tstatus[t] = "retrying"]
      BY <2>5
    <2> QED
      BY ONLY <1>4, <2>1, <2>2, <2>3, <2>4, <2>5
  <1>6. Accounted(disk') /\ Narrow(snap') /\ Narrow(disk')
    BY <1>3, <1>5 DEF IInv, Narrow
  <1>7. Flight' /\ Caused' /\ Honest'
    BY <1>2, <1>3, <1>5, TaskMove
  <1> QED
    BY <1>1, <1>5, <1>6, <1>7 DEF IInv

\* The plan is only concluded a success when no task of it has failed.
LEMMA PlanBatchInv ==
  ASSUME IInv, PlanBatch
  PROVE  IInv'
  <1>1. PICK S \in SUBSET snap.plan, status \in WorkflowRunStatus, point \in {"ending", "scheduling"} :
          /\ snap' = [WithSkipped(S) EXCEPT !.status = status]
          /\ disk' \in {disk, snap'}
          /\ Goto(Main, point)
          /\ status = "success" =>
               /\ FinalRunStatus = "success"
               /\ \A t \in snap.plan : WithSkipped(S).tstatus[t] \in {"success", "failed"}
    BY FinalRunStatusType DEF PlanBatch, Save, WorkflowRunStatus
  <1>2. /\ snap'.status = status /\ snap'.plan = snap.plan /\ snap'.current = snap.current
        /\ snap'.failed = snap.failed /\ snap'.cancelled = snap.cancelled
        /\ snap'.tstatus = [t \in Ids |-> IF t \in S THEN "success" ELSE snap.tstatus[t]]
        /\ WithSkipped(S).tstatus = snap'.tstatus
    BY <1>1 DEF IInv, TypeOK, WorkflowSnapshot, WithSkipped
  <1>3. Accounted(snap') /\ Narrow(snap')
    BY <1>2 DEF IInv, Accounted, Narrow
  <1>4. Flight' /\ pc'[Main] = point
    BY <1>1, MainMove DEF PlanBatch
  <1>5. AllSucceeded' \/ snap'.status # "success"
    <2> SUFFICES ASSUME status = "success", NEW t \in snap.plan
                 PROVE  snap'.tstatus[t] = "success"
      BY <1>2 DEF AllSucceeded
    <2>1. t \in Ids /\ snap'.tstatus[t] \in {"success", "failed"}
      BY <1>1, <1>2 DEF IInv, TypeOK, WorkflowSnapshot, Ids
    <2>2. snap'.failed \cup snap'.cancelled = {}
      BY <1>1, <1>2 DEF FinalRunStatus
    <2> QED
      BY <1>3, <2>1, <2>2 DEF Accounted
  <1>6. Honest'
    BY <1>4, <1>5 DEF PlanBatch, IInv, Honest
  <1>7. TypeOK'
    BY PlanBatchType DEF IInv
  <1> QED
    BY <1>1, <1>3, <1>4, <1>6, <1>7 DEF IInv, Caused

\* A step of the main loop that ends in a new status of the same snapshot.
LEMMA StatusMove ==
  ASSUME IInv, TypeOK', NEW status \in WorkflowRunStatus, NEW point, Goto(Main, point),
         pc[Main] \notin {"batch", "undoing", "returned"},
         point \notin {"batch", "undoing"},
         point \in {"rollback", "undoNext", "rolledBack"} => snap.failed # {},
         point = "ending" => status # "success",
         snap' = [snap EXCEPT !.status = status], disk' \in {disk, snap'}, result' = result
  PROVE  IInv'
  <1>1. /\ snap'.status = status /\ snap'.current = snap.current
        /\ snap'.failed = snap.failed /\ Accounted(snap')
    BY DEF IInv, TypeOK, WorkflowSnapshot, Accounted
  <1>2. Accounted(disk') /\ Narrow(snap') /\ Narrow(disk')
    BY <1>1 DEF IInv, Narrow
  <1>3. Flight' /\ pc'[Main] = point
    BY MainMove
  <1> QED
    BY <1>1, <1>2, <1>3 DEF IInv, Caused, Honest

LEMMA MainStepInv ==
  ASSUME IInv, MainStep
  PROVE  IInv'
  <1> TypeOK' /\ TypeOK
    BY MainStepType DEF IInv
  <1> FinalRunStatus \in WorkflowRunStatus
    BY FinalRunStatusType DEF WorkflowRunStatus
  <1>1. CASE Started \/ BatchSettled
    <2>1. snap' = snap /\ disk' = disk /\ result' = result /\ Goto(Main, "top")
            /\ pc[Main] \notin {"batch", "undoing", "returned"}
      BY <1>1 DEF Started, BatchSettled
    <2>2. Flight' /\ pc'[Main] = "top"
      BY <2>1, MainMove
    <2> QED
      BY <2>1, <2>2, Unpublished DEF IInv, Caused
  <1>2. CASE PlanBatch
    BY <1>2, PlanBatchInv
  <1>3. CASE Dispatch
    <2>1. PICK batch \in Batches(ReadyTasks(dagDone)) :
            /\ snap' = [snap EXCEPT !.status = "running", !.current = batch]
            /\ pc' = [c \in Coroutines |-> IF c \in batch THEN "top"
                                           ELSE IF c = Main THEN "batch" ELSE pc[c]]
      BY <1>3 DEF Dispatch
    <2>2. batch \subseteq Tasks /\ Cardinality(batch) <= MaxParallel
      BY DEF Batches, ReadyTasks, IInv, TypeOK, WorkflowSnapshot
    <2>3. IsFiniteSet(batch)
      BY <2>2, GraphAssumption, FS_Subset
    <2>4. /\ snap'.current = batch /\ snap'.failed = snap.failed /\ Accounted(snap')
      BY <2>1 DEF IInv, TypeOK, WorkflowSnapshot, Accounted
    <2>5. Main \notin batch /\ pc'[Main] = "batch" /\ batch \subseteq Ids
      BY <2>1, <2>2, MainNotId DEF Ids
    <2>6. \A t \in Ids : pc'[t] # "idle" => t \in batch
      BY <1>3, <2>1, MainNotId DEF Dispatch, IInv, Flight
    <2> QED
      BY <1>3, <2>2, <2>3, <2>4, <2>5, <2>6
         DEF Dispatch, IInv, Narrow, Flight, Caused, Honest
  <1>4. CASE BatchGathered
    <2>1. snap' = [snap EXCEPT !.current = {}] /\ disk' \in {disk, snap'} /\ result' = result
      BY <1>4 DEF BatchGathered, Save
    <2>2. snap'.current = {} /\ Accounted(snap')
      BY <2>1 DEF IInv, TypeOK, WorkflowSnapshot, Accounted
    <2>3. Narrow(snap')
      BY <2>2, FS_EmptySet, PolicyAssumption DEF Narrow
    <2>4. pc'[Main] = "settling" /\ \A t \in Ids : pc'[t] = "idle"
      BY <1>4, MainNotId DEF BatchGathered, IInv, TypeOK, WorkflowSnapshot, Flight, Ids
    <2> QED
      BY <1>4, <2>1, <2>2, <2>3, <2>4 DEF BatchGathered, IInv, Flight, Caused, Honest
  <1>5. CASE BatchFailed
    <2>1. CASE RollbackOnFailure
      BY <1>5, <2>1, StatusMove DEF BatchFailed, Save, WorkflowRunStatus
    <2>2. CASE ~RollbackOnFailure
      <3>1. FinalRunStatus # "success"
        BY <1>5 DEF BatchFailed, FinalRunStatus
      <3> QED
        BY <1>5, <2>2, <3>1, StatusMove DEF BatchFailed, Save
    <2> QED
      BY <2>1, <2>2
  <1>6. CASE RollbackStarted
    <2>1. snap' = snap /\ disk' = disk /\ result' = result /\ Goto(Main, "undoNext")
            /\ pc[Main] = "rollback"
      BY <1>6 DEF RollbackStarted
    <2>2. Flight' /\ pc'[Main] = "undoNext"
      BY <2>1, MainMove
    <2> QED
      BY <2>1, <2>2, Unpublished DEF IInv, Caused
  <1>7. CASE UndoNext
    <2>1. pc[Main] = "undoNext" /\ disk' = disk /\ result' = result
      BY <1>7 DEF UndoNext
    <2>2. CASE Goto(Main, "raised") /\ UNCHANGED snap
      <3>1. Flight' /\ pc'[Main] = "raised"
        BY <2>1, <2>2, MainMove
      <3> QED
        BY <2>1, <2>2, <3>1, Unpublished DEF IInv, Caused
    <2>3. CASE UNCHANGED <<snap, pc>>
      BY <2>1, <2>3 DEF IInv, Flight, Caused, Honest
    <2>4. CASE /\ Visited \in snap.plan \cap Undoable
               /\ snap' = [snap EXCEPT !.tstatus[UndoOf[Visited]] = "pending",
                                       !.attempts[UndoOf[Visited]] = 0]
               /\ pc' = [pc EXCEPT ![UndoOf[Visited]] = "top", ![Main] = "undoing"]
      <3>1. UndoOf[Visited] \in UndoIds /\ UndoOf[Visited] \in Ids
        BY <2>4, GraphAssumption DEF Ids
      <3>2. snap'.current = snap.current /\ snap'.failed = snap.failed /\ Accounted(snap')
        BY <2>4, <3>1 DEF IInv, TypeOK, WorkflowSnapshot, Accounted
      <3>3. pc'[Main] = "undoing" /\ \A t \in Ids : pc'[t] # "idle" => t = UndoOf[Visited]
        BY <2>1, <2>4, <3>1, MainNotId DEF IInv, TypeOK, Flight
      <3> QED
        BY <2>1, <3>1, <3>2, <3>3 DEF IInv, Narrow, Flight, Caused, Honest
    <2> QED
      BY <1>7, <2>2, <2>3, <2>4 DEF UndoNext
  <1>8. CASE UndoDone
    <2>1. PICK u \in UndoIds :
            /\ pc[u] = "done"
            /\ pc' = [pc EXCEPT ![u] = "idle", ![Main] = "undoNext"]
      BY <1>8 DEF UndoDone
    <2>2. u \in Ids
      BY DEF Ids
    <2>3. pc'[Main] = "undoNext" /\ \A t \in Ids : pc'[t] = "idle"
      BY <1>8, <2>1, <2>2, MainNotId DEF UndoDone, IInv, TypeOK, Flight
    <2> QED
      BY <1>8, <2>3 DEF UndoDone, IInv, Flight, Caused, Honest
  <1>9. CASE RolledBack
    BY <1>9, StatusMove DEF RolledBack, IInv, Caused, WorkflowRunStatus
  <1>10. CASE FailurePropagated
    <2>1. FinalRunStatus # "success"
      BY <1>10 DEF FailurePropagated, IInv, Caused, FinalRunStatus
    <2> QED
      BY <1>10, <2>1, StatusMove DEF FailurePropagated, Save
  <1>11. CASE Ended
    <2>1. snap' = snap /\ disk' = disk /\ Goto(Main, "returned") /\ pc[Main] = "ending"
            /\ result' = TerminalEvent(snap.status)
      BY <1>11 DEF Ended
    <2>2. Flight' /\ pc'[Main] = "returned"
      BY <2>1, MainMove
    <2>3. result' = "workflow.completed" => snap.status = "success"
      BY <2>1 DEF TerminalEvent
    <2> QED
      BY <2>1, <2>2, <2>3 DEF IInv, Caused, Honest, AllSucceeded
  <1> QED
    BY <1>1, <1>2, <1>3, <1>4, <1>5, <1>6, <1>7, <1>8, <1>9, <1>10, <1>11 DEF MainStep

\* execute_plan may only be entered when no other one is under way.
LEMMA LaunchInv ==
  ASSUME IInv, TypeOK', NEW s \in WorkflowSnapshot, Launch(s),
         Accounted(s), Narrow(s), pc[Main] \notin {"batch", "undoing"}
  PROVE  IInv'
  <1>1. snap' = [s EXCEPT !.status = "running"] /\ disk' \in {disk, snap'} /\ result' = "none"
          /\ Goto(Main, "starting")
    BY DEF Launch, Save
  <1>2. Accounted(snap') /\ Narrow(snap')
    BY <1>1 DEF WorkflowSnapshot, Accounted, Narrow
  <1>3. Flight' /\ pc'[Main] = "starting"
    BY <1>1, MainMove
  <1> QED
    BY <1>1, <1>2, <1>3 DEF IInv, Caused, Honest

LEMMA LoadedInv == ASSUME IInv PROVE Accounted(Loaded) /\ Narrow(Loaded)
  BY DEF IInv, Loaded

LEMMA RequestedSame ==
  ASSUME NEW s \in WorkflowSnapshot
  PROVE  /\ Requested(s) = [s EXCEPT !.status = "cancel_requested"]
         /\ Requested(s).status = "cancel_requested"
         /\ Requested(s).tstatus = s.tstatus /\ Requested(s).failed = s.failed
         /\ Requested(s).cancelled = s.cancelled /\ Requested(s).current = s.current
         /\ Requested(s).plan = s.plan /\ Requested(s).completed = s.completed
         /\ Requested(s).skipped = s.skipped
  BY DEF Requested, WorkflowSnapshot

LEMMA EnvironmentInv ==
  ASSUME IInv, Environment
  PROVE  IInv'
  <1> TypeOK' /\ TypeOK
    BY EnvironmentType DEF IInv
  <1>1. CASE Pause
    BY <1>1 DEF Pause, IInv, Flight, Caused, Honest, AllSucceeded
  <1>2. ASSUME pc' = Wake, snap' = snap, result' = result
        PROVE  Flight' /\ Caused' /\ Honest'
    <2>1. /\ \A t \in Ids : pc'[t] = "idle" <=> pc[t] = "idle"
          /\ pc'[Main] # pc[Main] => pc[Main] = "waiting" /\ pc'[Main] = "woken"
      BY <1>2, MainNotId DEF Wake
    <2> QED
      BY <1>2, <2>1 DEF IInv, Flight, Caused, Honest, AllSucceeded
  <1>3. CASE ResumePaused
    BY <1>2, <1>3 DEF ResumePaused, IInv
  <1>4. CASE \E k \in Clients : Cancel(k)
    <2>1. /\ disk' \in {disk, Requested(Loaded)} /\ snap' = snap
          /\ pc' = Wake /\ result' = result
      BY <1>4 DEF Cancel
    <2>2. Accounted(disk') /\ Narrow(disk')
      BY <2>1, LoadedInv, LoadedType, RequestedSame DEF IInv, Accounted, Narrow
    <2> QED
      BY <1>2, <2>1, <2>2 DEF IInv
  <1>5. CASE Resume
    BY <1>5, LaunchInv, LoadedInv, LoadedType DEF Resume, Quiescent
  <1>6. CASE Restart
    <2>1. snap' = Reset(Loaded) /\ disk' \in {disk, snap'} /\ Goto(Main, "restarting") /\ result' = "none"
            /\ pc[Main] \notin {"batch", "undoing"}
      BY <1>6 DEF Restart, Save, Quiescent
    <2>2. snap'.tstatus = [t \in Ids |-> "pending"] /\ snap'.current = {}
      BY <2>1, LoadedType DEF Reset, WorkflowSnapshot
    <2>3. Accounted(snap') /\ Narrow(snap')
      BY <2>2, FS_EmptySet, PolicyAssumption DEF Accounted, Narrow
    <2>4. Flight' /\ pc'[Main] = "restarting"
      BY <2>1, MainMove
    <2> QED
      BY <2>1, <2>3, <2>4 DEF IInv, Caused, Honest
  <1>7. CASE Crash
    <2>1. snap' = disk /\ disk' = disk /\ result' = "none"
      BY <1>7 DEF Crash, Recovered
    <2>2. pc'[Main] = "down" /\ \A t \in Ids : pc'[t] = "idle"
      BY <1>7, MainNotId DEF Crash
    <2> QED
      BY <2>1, <2>2 DEF IInv, Flight, Caused, Honest
  <1>8. ASSUME NEW t \in Ids, TaskFault(t) PROVE IInv'
    <2>1. snap' = snap /\ disk' = disk /\ result' = result /\ pc[t] # "idle"
      BY <1>8 DEF TaskFault, Dropped
    <2>2. CASE Goto(t, "failing") \/ Goto(t, "done")
      BY <2>1, <2>2, TaskMove DEF IInv
    <2>3. CASE t \in UndoIds /\ pc' = [pc EXCEPT ![t] = "idle", ![Main] = "raised"]
      <3>1. t \notin snap.current
        BY <2>3, GraphAssumption DEF IInv, TypeOK, WorkflowSnapshot
      <3>2. pc[Main] = "undoing"
        BY <2>1, <3>1 DEF IInv, Flight
      <3>3. pc'[Main] = "raised" /\ \A u \in Ids : pc'[u] = "idle"
        BY <2>1, <2>3, <3>2, MainNotId DEF IInv, TypeOK, Flight
      <3> QED
        BY <2>1, <3>2, <3>3 DEF IInv, Flight, Caused, Honest
    <2> QED
      BY <1>8, <2>2, <2>3 DEF TaskFault
  <1>9. CASE MainFault
    <2>1. snap' = snap /\ disk' = disk /\ result' = result
            /\ pc[Main] \notin {"batch", "undoing", "returned"}
      BY <1>9 DEF MainFault, Dropped
    <2>2. PICK point \in {"leaked", "raised"} : Goto(Main, point)
      BY <1>9 DEF MainFault
    <2>3. Flight' /\ pc'[Main] = point
      BY <2>1, <2>2, MainMove
    <2> QED
      BY <2>1, <2>3, Unpublished DEF IInv, Caused
  <1>10. ASSUME NEW k \in Clients, ClientFault(k) PROVE IInv'
    BY <1>10 DEF ClientFault, Dropped, IInv, Flight, Caused, Honest, AllSucceeded
  <1> QED
    BY <1>1, <1>3, <1>4, <1>5, <1>6, <1>7, <1>8, <1>9, <1>10 DEF Environment

\* What is on its way to the store is as sound as what is live and what is stored.
Copied == \A w \in writes : Accounted(w.what) /\ Narrow(w.what)

LEMMA StoreInv ==
  ASSUME IInv, Copied, NEW c \in Writers, StoreStep(c)
  PROVE  IInv'
  <1>1. /\ snap' = snap /\ pc' = pc /\ result' = result
        /\ disk' = disk \/ \E w \in writes : disk' = w.what
    BY DEF StoreStep, Dumped, Landed
  <1>2. TypeOK'
    BY StoreType DEF IInv
  <1>3. Accounted(disk') /\ Narrow(disk')
    BY <1>1 DEF IInv, Copied
  <1> QED
    BY <1>1, <1>2, <1>3 DEF IInv, Flight, Caused, Honest, AllSucceeded

\* Only a dump and a cancel of a live workflow send something to the store.
LEMMA WritesStep ==
  ASSUME TypeOK, [Next]_vars, NEW w \in writes'
  PROVE  \/ w \in writes
         \/ \E c \in opening : /\ w.by = c
                               /\ w.what = IF c \in Clients THEN Requested(disk) ELSE snap
         \/ \E k \in Clients : w.by = k /\ w.what = Requested(snap)
  <1>1. ASSUME NEW c \in Coroutines, Boundary(c) PROVE writes' = writes
    BY <1>1 DEF Boundary, ControlsPass, ControlsCancel, CancelCheckpointed, ControlsPause,
                PauseWait, PauseLeft, PauseCancelled, ResumeCheckpointed, Continue, Save
  <1>2. ASSUME NEW t \in Ids, TaskStep(t) PROVE writes' = writes
    BY <1>2 DEF TaskStep, AgentSucceeds, AgentFails, SuccessSaved, FailureRecorded,
                RetryScheduled, RetryReleased, LoopExhausted, FailureSaved, Save, Keep
  <1>3. CASE MainStep \/ Restarted
    BY <1>3 DEF MainStep, Started, PlanBatch, Dispatch, BatchGathered, BatchSettled, BatchFailed,
                RollbackStarted, UndoNext, UndoDone, RolledBack, FailurePropagated, Ended,
                Restarted, Launch, Save
  <1>4. CASE Pause \/ ResumePaused \/ Resume \/ Restart \/ UNCHANGED vars
    BY <1>4 DEF Pause, ResumePaused, Resume, Restart, Launch, Save, vars
  <1>5. CASE Crash
    BY <1>5 DEF Crash
  <1>6. CASE (\E t \in Ids : TaskFault(t)) \/ MainFault \/ (\E k \in Clients : ClientFault(k))
    BY <1>6 DEF TaskFault, MainFault, ClientFault, Dropped
  <1>7. ASSUME NEW k \in Clients, Cancel(k)
        PROVE  w \in writes \/ (w.by = k /\ w.what = Requested(snap))
    BY <1>7 DEF Cancel
  <1>8. ASSUME NEW c \in Writers, StoreStep(c)
        PROVE  \/ w \in writes
               \/ /\ c \in opening /\ w.by = c
                  /\ w.what = IF c \in Clients THEN Requested(disk) ELSE snap
    BY <1>8 DEF StoreStep, Dumped, Landed
  <1> QED
    BY <1>1, <1>2, <1>3, <1>4, <1>5, <1>6, <1>7, <1>8 DEF Next, Engine, Environment

LEMMA StepCopied ==
  ASSUME IInv, Copied, [Next]_vars
  PROVE  Copied'
  <1> SUFFICES ASSUME NEW w \in writes' PROVE Accounted(w.what) /\ Narrow(w.what)
    BY DEF Copied
  <1> snap \in WorkflowSnapshot /\ disk \in WorkflowSnapshot
    BY DEF IInv, TypeOK
  <1>1. ASSUME NEW s \in {snap, disk}
        PROVE  Accounted(Requested(s)) /\ Narrow(Requested(s))
    BY RequestedSame DEF IInv, Accounted, Narrow
  <1> QED
    BY <1>1, WritesStep DEF IInv, Copied

LEMMA StepInv == IInv /\ Copied /\ [Next]_vars => IInv' /\ Copied'
  <1> SUFFICES ASSUME IInv, Copied, [Next]_vars PROVE IInv'
    BY StepCopied
  <1>1. CASE Restarted
    <2>1. TypeOK' /\ snap \in WorkflowSnapshot
      BY StepType DEF IInv, TypeOK
    <2> QED
      BY <1>1, <2>1, LaunchInv DEF Restarted, IInv
  <1>2. CASE UNCHANGED vars
    BY <1>2 DEF vars, IInv, TypeOK, Flight, Caused, Honest, AllSucceeded
  <1> QED
    BY <1>1, <1>2, BoundaryInv, TaskStepInv, MainStepInv, StoreInv, EnvironmentInv
       DEF Next, Engine

\* The inductive invariant holds in every run: of the batch in flight, the rollback under
\* way, the lists of failed and cancelled tasks and the published result.
THEOREM Invariance == Spec => []IInv
  <1>1. Init => Copied
    BY DEF Init, Copied
  <1> QED
    BY <1>1, InitInv, StepInv, PTL DEF Spec

-----------------------------------------------------------------------------
(* What follows from it                                                    *)

LEMMA FlightBounded == ASSUME IInv PROVE ParallelismBounded
  <1> DEFINE Flying == {t \in Tasks : InFlight(t)}
  <1>1. Flying \subseteq snap.current
    BY GraphAssumption DEF IInv, Flight, InFlight, Ids
  <1>2. IsFiniteSet(snap.current) /\ Cardinality(snap.current) <= MaxParallel
    BY DEF IInv, Narrow
  <1>3. Cardinality(Flying) <= MaxParallel
    <2> HIDE DEF Flying
    <2>1. IsFiniteSet(Flying) /\ Cardinality(Flying) <= Cardinality(snap.current)
      BY <1>1, <1>2, FS_Subset
    <2>2. Cardinality(Flying) \in Nat /\ Cardinality(snap.current) \in Nat
      BY <1>2, <2>1, FS_CardinalityType
    <2> QED
      BY <1>2, <2>1, <2>2, PolicyAssumption
  <1>4. ASSUME NEW t \in Ids, NEW u \in UndoIds, InFlight(t), InFlight(u) PROVE t = u
    <2>1. u \in Ids /\ u \notin snap.current
      BY GraphAssumption DEF Ids, IInv, TypeOK, WorkflowSnapshot
    <2> QED
      BY <1>4, <2>1 DEF IInv, Flight, InFlight
  <1> QED
    BY <1>3, <1>4 DEF ParallelismBounded

\* Never more than max_parallel_tasks coroutines are inside _execute_task, and a rollback
\* task runs alone, in every plan and under every policy.
THEOREM Parallelism == Spec => []ParallelismBounded
  BY Invariance, FlightBounded, PTL

LEMMA PublishedHonestly == ASSUME IInv PROVE CompletionIsHonest
  BY DEF IInv, Honest, AllSucceeded, CompletionIsHonest

\* WORKFLOW_COMPLETED is never published of a plan with a task that did not succeed,
\* through every pause, cancellation, crash, resume, restart and fault.
THEOREM HonestCompletion == Spec => []CompletionIsHonest
  BY Invariance, PublishedHonestly, PTL

-----------------------------------------------------------------------------
(* Lists of completed tasks                                                *)

\* _mark adds a task to the list, once.
LEMMA MarkRange ==
  ASSUME NEW s \in Seq(Ids), NEW t \in Ids
  PROVE  Range(Mark(s, t)) = Range(s) \cup {t}
  <1>1. CASE t \in Range(s)
    BY <1>1 DEF Mark
  <1>2. CASE t \notin Range(s)
    BY <1>2, AppendProperties, LenProperties DEF Mark, Range
  <1> QED
    BY <1>1, <1>2

Distinct(s) == \A i, j \in 1..Len(s) : s[i] = s[j] => i = j

LEMMA MarkDistinct ==
  ASSUME NEW s \in Seq(Ids), NEW t \in Ids, Distinct(s)
  PROVE  Distinct(Mark(s, t))
  <1>1. CASE t \in Range(s)
    BY <1>1 DEF Mark
  <1>2. CASE t \notin Range(s)
    <2>1. \A i \in 1..Len(s) : s[i] # t
      BY <1>2, LenProperties DEF Range
    <2> QED
      BY <1>2, <2>1, AppendProperties, LenProperties DEF Mark, Distinct
  <1> QED
    BY <1>1, <1>2

\* A prefix of a list that _mark extends is kept.
LEMMA MarkPrefix ==
  ASSUME NEW s \in Seq(Ids), NEW t \in Ids, NEW i \in 1..Len(s)
  PROVE  Mark(s, t)[i] = s[i] /\ i \in 1..Len(Mark(s, t))
  BY AppendProperties, LenProperties DEF Mark

-----------------------------------------------------------------------------
(* The invariant of the lists and of the DAG                               *)

\* An execute_plan of the workflow is at work on it.
Executing == pc[Main] \notin {"down", "restarting", "leaked", "returned", "raised"}

\* The task that t generates depends on one that the submitted plan does not have.
Rejectable(t) == t \in Generators /\ ~(Deps[Generated[t]] \subseteq InitialPlan)

\* What has completed or was skipped is in the plan, and is listed once.
Planned(s) ==
  /\ InitialPlan \subseteq s.plan /\ s.skipped \subseteq s.plan
  /\ Range(s.completed) \cap Tasks \subseteq s.plan
  /\ Distinct(s.completed)

\* The DAG and the snapshot agree on what is done while the plan is executed.
InDag == Executing => dagDone = MarkedInDag(snap)

\* A batch was ready when it was dispatched, and no task of it is a dependency of another.
BatchReady ==
  pc[Main] = "batch" =>
    /\ snap.current \subseteq snap.plan /\ snap.current \cap snap.skipped = {}
    /\ \A t \in snap.current : Deps[t] \subseteq dagDone /\ Deps[t] \cap snap.current = {}

\* A task of the batch that has completed has no reason to run again but a fault or the
\* rejection of the task it generated.
Once ==
  pc[Main] = "batch" =>
    \A t \in snap.current \cap Range(snap.completed) :
      pc[t] \in {"saving", "done"} \/ used["fault"] > 0 \/ Rejectable(t)

Recorded ==
  Planned(snap) /\ Planned(disk) /\ InDag /\ BatchReady /\ Once

LEMMA InitRecorded == Init => Recorded
  <1> SUFFICES ASSUME Init PROVE Recorded
    OBVIOUS
  <1>1. Range(<<>>) = {} /\ Distinct(<<>>)
    BY DEF Range, Distinct
  <1>2. InitialSnapshot.completed = <<>> /\ InitialSnapshot.skipped = {}
          /\ InitialSnapshot.plan = InitialPlan
    BY DEF InitialSnapshot
  <1> QED
    BY <1>1, <1>2, MainNotId
       DEF Init, Recorded, Planned, InDag, MarkedInDag, BatchReady, Once

SameLists(s, r) == s.plan = r.plan /\ s.completed = r.completed /\ s.skipped = r.skipped

\* A step after which nothing more has completed, been skipped or been dispatched.
Steady ==
  /\ SameLists(snap', snap) /\ (SameLists(disk', disk) \/ SameLists(disk', snap))
  /\ dagDone' = dagDone /\ (Executing' => Executing)
  /\ pc'[Main] = "batch" => pc[Main] = "batch" /\ snap'.current = snap.current
  /\ used["fault"] > 0 => used'["fault"] > 0
  /\ \/ pc'[Main] # "batch" \/ used'["fault"] > 0
     \/ \A t \in Ids : pc[t] \in {"saving", "done"} => pc'[t] = pc[t]

LEMMA SteadyRecorded ==
  ASSUME IInv, Recorded, Steady
  PROVE  Recorded'
  <1>1. Planned(snap') /\ Planned(disk')
    BY DEF Recorded, Steady, SameLists, Planned
  <1>2. InDag' /\ BatchReady'
    BY DEF Recorded, Steady, SameLists, InDag, MarkedInDag, BatchReady
  <1>3. Once'
    <2> SUFFICES ASSUME pc'[Main] = "batch", NEW t \in snap.current \cap Range(snap.completed)
                 PROVE  pc'[t] \in {"saving", "done"} \/ used'["fault"] > 0 \/ Rejectable(t)
      BY DEF Once, Steady, SameLists, Rejectable
    <2>1. t \in Ids
      BY DEF IInv, TypeOK, WorkflowSnapshot, Ids
    <2>2. pc[t] \in {"saving", "done"} \/ used["fault"] > 0 \/ Rejectable(t)
      BY DEF Recorded, Once, Steady
    <2> QED
      BY <2>1, <2>2 DEF Steady
  <1> QED
    BY <1>1, <1>2, <1>3 DEF Recorded

\* One coroutine goes from an await to the next and changes no list.
LEMMA HopSteady ==
  ASSUME IInv, NEW c \in Coroutines, NEW point, Goto(c, point),
         pc[c] \notin {"saving", "done"}, c = Main => Executing /\ point # "batch",
         SameLists(snap', snap), snap'.current = snap.current,
         SameLists(disk', disk) \/ SameLists(disk', snap), dagDone' = dagDone,
         used["fault"] > 0 => used'["fault"] > 0
  PROVE  Steady
  <1>1. CASE c = Main
    <2>1. pc'[Main] = point /\ \A t \in Ids : pc'[t] = pc[t]
      BY <1>1, MainNotId DEF IInv, TypeOK, Goto
    <2> QED
      BY <1>1, <2>1 DEF Steady
  <1>2. CASE c # Main
    <2>1. pc'[Main] = pc[Main] /\ \A t \in Ids : pc'[t] = IF t = c THEN point ELSE pc[t]
      BY <1>2, MainNotId DEF IInv, TypeOK, Goto
    <2> QED
      BY <1>2, <2>1 DEF Steady, Executing
  <1> QED
    BY <1>1, <1>2

LEMMA ContinueSteady ==
  ASSUME IInv, NEW c \in Coroutines, pc[c] \in ControlPoints, Continue(c)
  PROVE  Steady
  <1> TypeOK /\ pc[c] \notin {"saving", "done"} /\ (c = Main => Executing)
    BY DEF IInv, ControlPoints, Executing
  <1>1. SameLists(snap', snap) /\ snap'.current = snap.current
    BY DEF Continue, AttemptRefused, AttemptStarted, LoopLeft, LoopContinued,
           TypeOK, WorkflowSnapshot, SameLists
  <1>2. \E point : Goto(c, point) /\ (c = Main => point # "batch")
    BY MainNotId DEF Continue, AttemptRefused, AttemptStarted, LoopLeft, LoopContinued
  <1> QED
    BY <1>1, <1>2, HopSteady DEF Continue, SameLists

LEMMA BoundarySteady ==
  ASSUME IInv, NEW c \in Coroutines, Boundary(c)
  PROVE  Steady
  <1> TypeOK
    BY DEF IInv
  <1>1. CASE pc[c] \in ControlPoints /\ Continue(c)
    BY <1>1, ContinueSteady
  <1>2. CASE ControlsCancel(c) \/ ControlsPause(c) \/ PauseWait(c) \/ PauseLeft(c)
    <2>1. /\ SameLists(snap', snap) /\ snap'.current = snap.current
          /\ SameLists(disk', disk) \/ SameLists(disk', snap)
      <3>1. CASE ControlsCancel(c)
        BY <3>1 DEF ControlsCancel, Save, TypeOK, WorkflowSnapshot, SameLists
      <3>2. CASE ControlsPause(c) \/ PauseLeft(c)
        BY <3>2 DEF ControlsPause, PauseLeft, Save, TypeOK, WorkflowSnapshot, SameLists
      <3>3. CASE PauseWait(c)
        BY <3>3 DEF PauseWait, SameLists
      <3> QED
        BY <1>2, <3>1, <3>2, <3>3
    <2>2. /\ \E point : Goto(c, point) /\ point # "batch"
          /\ pc[c] \in ControlPoints /\ dagDone' = dagDone /\ used' = used
      BY <1>2 DEF ControlsCancel, ControlsPause, PauseWait, PauseLeft, AtBoundary, ControlPoints
    <2>3. pc[c] \notin {"saving", "done"} /\ (c = Main => Executing)
      BY <2>2 DEF ControlPoints, Executing
    <2> QED
      BY <2>1, <2>2, <2>3, HopSteady
  <1> QED
    BY <1>1, <1>2
       DEF Boundary, ControlsPass, CancelCheckpointed, PauseCancelled, ResumeCheckpointed,
           AtBoundary, ControlPoints

\* Steps of _execute_task that complete nothing.
LEMMA TaskStepSteady ==
  ASSUME IInv, NEW t \in Ids, TaskStep(t), ~AgentSucceeds(t), ~SuccessSaved(t)
  PROVE  Steady
  <1> TypeOK /\ t \in Coroutines /\ t # Main
    BY MainNotId DEF IInv
  <1>1. /\ SameLists(snap', snap) /\ snap'.current = snap.current
        /\ SameLists(disk', disk) \/ SameLists(disk', snap)
    <2> USE DEF TypeOK, WorkflowSnapshot, SameLists
    <2>1. CASE AgentFails(t) \/ RetryReleased(t) \/ FailureSaved(t)
      BY <2>1 DEF AgentFails, RetryReleased, FailureSaved
    <2>2. CASE FailureRecorded(t) \/ RetryScheduled(t) \/ LoopExhausted(t)
      BY <2>2 DEF FailureRecorded, RetryScheduled, LoopExhausted, Save, Keep
    <2> QED
      BY <2>1, <2>2 DEF TaskStep
  <1>2. /\ \E point : Goto(t, point)
        /\ pc[t] \notin {"saving", "done"} /\ dagDone' = dagDone /\ used' = used
    BY DEF TaskStep, AgentFails, FailureRecorded, RetryScheduled, RetryReleased, LoopExhausted,
           FailureSaved
  <1> QED
    BY <1>1, <1>2, HopSteady

\* Steps of the main loop that neither plan, dispatch nor gather a batch.
LEMMA MainStepSteady ==
  ASSUME IInv, MainStep, ~PlanBatch, ~Dispatch, ~BatchGathered, ~UndoNext, ~UndoDone
  PROVE  Steady
  <1> TypeOK /\ Main \in Coroutines
    BY MainNotId DEF IInv
  <1>1. /\ SameLists(snap', snap) /\ snap'.current = snap.current
        /\ SameLists(disk', disk) \/ SameLists(disk', snap)
    <2> USE DEF TypeOK, WorkflowSnapshot, SameLists
    <2>1. CASE Started \/ BatchSettled \/ RollbackStarted \/ Ended
      BY <2>1 DEF Started, BatchSettled, RollbackStarted, Ended
    <2>2. CASE BatchFailed \/ RolledBack \/ FailurePropagated
      BY <2>2 DEF BatchFailed, RolledBack, FailurePropagated, Save
    <2> QED
      BY <2>1, <2>2 DEF MainStep
  <1>2. /\ \E point : Goto(Main, point) /\ point # "batch"
        /\ pc[Main] \notin {"saving", "done"} /\ Executing /\ dagDone' = dagDone /\ used' = used
    BY DEF MainStep, Started, BatchSettled, BatchFailed, RollbackStarted, RolledBack,
           FailurePropagated, Ended, Executing
  <1> QED
    BY <1>1, <1>2, HopSteady

LEMMA GatherSteady ==
  ASSUME IInv, BatchGathered \/ UndoNext \/ UndoDone
  PROVE  Steady
  <1> TypeOK
    BY DEF IInv
  <1>1. SameLists(snap', snap) /\ (SameLists(disk', disk) \/ SameLists(disk', snap))
    <2> USE DEF TypeOK, WorkflowSnapshot, SameLists
    <2>1. CASE BatchGathered
      BY <2>1 DEF BatchGathered, Save
    <2>2. CASE UndoNext
      BY <2>2 DEF UndoNext
    <2>3. CASE UndoDone
      BY <2>3 DEF UndoDone
    <2> QED
      BY <2>1, <2>2, <2>3
  <1>2. pc'[Main] # "batch" /\ Executing /\ dagDone' = dagDone /\ used' = used
    <2>1. CASE BatchGathered
      <3>1. Main \notin snap.current
        BY MainNotId DEF TypeOK, WorkflowSnapshot, Ids
      <3> QED
        BY <2>1, <3>1, MainNotId DEF BatchGathered, Executing
    <2>2. CASE UndoNext
      BY <2>2, MainNotId DEF UndoNext, Executing, Goto, TypeOK
    <2>3. CASE UndoDone
      BY <2>3, MainNotId DEF UndoDone, Executing, TypeOK
    <2> QED
      BY <2>1, <2>2, <2>3
  <1> QED
    BY <1>1, <1>2 DEF Steady

\* pause, resume_paused, cancel and the faults change neither the lists nor the DAG.
LEMMA OutsideSteady ==
  ASSUME IInv,
         \/ Pause \/ ResumePaused \/ (\E k \in Clients : Cancel(k))
         \/ (\E t \in Ids : TaskFault(t)) \/ MainFault \/ (\E k \in Clients : ClientFault(k))
  PROVE  Steady
  <1> TypeOK
    BY DEF IInv
  <1>1. snap' = snap /\ dagDone' = dagDone /\ (SameLists(disk', disk) \/ SameLists(disk', snap))
    <2>1. CASE \E k \in Clients : Cancel(k)
      <3>1. snap' = snap /\ dagDone' = dagDone /\ disk' \in {disk, Requested(Loaded)}
        BY <2>1 DEF Cancel
      <3>2. Loaded \in {snap, disk} /\ SameLists(Requested(Loaded), Loaded)
        BY LoadedType, RequestedSame DEF Loaded, SameLists
      <3> QED
        BY <3>1, <3>2 DEF SameLists
    <2>2. CASE ~\E k \in Clients : Cancel(k)
      BY <2>2 DEF Pause, ResumePaused, TaskFault, MainFault, ClientFault, Dropped, SameLists
    <2> QED
      BY <2>1, <2>2
  <1>2. CASE Pause \/ ResumePaused \/ (\E k \in Clients : Cancel(k))
    <2>1. used' = used \/ \E e \in Events : used' = [used EXCEPT ![e] = @ + 1]
      BY <1>2 DEF Pause, ResumePaused, Cancel, Spend, Events
    <2>2. used["fault"] > 0 => used'["fault"] > 0
      <3>1. ASSUME NEW e \in Events, used' = [used EXCEPT ![e] = @ + 1]
            PROVE  used'["fault"] \in {used["fault"], used["fault"] + 1}
        BY <3>1 DEF TypeOK, Events
      <3>2. used["fault"] \in Nat
        BY DEF TypeOK, Events
      <3> QED
        BY <2>1, <3>1, <3>2
    <2>3. pc' = pc \/ pc' = Wake
      BY <1>2 DEF Pause, ResumePaused, Cancel
    <2>4. \A c \in Coroutines : pc'[c] = pc[c] \/ (pc[c] = "waiting" /\ pc'[c] = "woken")
      BY <2>3 DEF Wake
    <2> QED
      BY <1>1, <2>2, <2>4, MainNotId DEF Steady, SameLists, Executing
  <1>3. ASSUME NEW t \in Ids, TaskFault(t) PROVE Steady
    <2>1. used'["fault"] > 0
      BY <1>3 DEF TaskFault, Spend, TypeOK, Events
    <2>2. pc'[Main] \in {pc[Main], "raised"}
      BY <1>3, MainNotId DEF TaskFault, Goto, TypeOK
    <2> QED
      BY <1>1, <2>1, <2>2 DEF Steady, SameLists, Executing
  <1>4. CASE MainFault
    <2>1. used'["fault"] > 0
      BY <1>4 DEF MainFault, Spend, TypeOK, Events
    <2>2. pc'[Main] \in {"leaked", "raised"}
      BY <1>4, MainNotId DEF MainFault, Goto, TypeOK
    <2> QED
      BY <1>1, <2>1, <2>2 DEF Steady, SameLists, Executing
  <1>5. ASSUME NEW k \in Clients, ClientFault(k) PROVE Steady
    <2>1. used'["fault"] > 0
      BY <1>5 DEF ClientFault, Spend, TypeOK, Events
    <2> QED
      BY <1>1, <1>5, <2>1 DEF ClientFault, Steady, SameLists, Executing
  <1> QED
    BY <1>2, <1>3, <1>4, <1>5

-----------------------------------------------------------------------------
(* The steps that complete, skip, dispatch or forget                       *)

LEMMA AgentSucceedsRecorded ==
  ASSUME IInv, Recorded, NEW t \in Ids, AgentSucceeds(t)
  PROVE  Recorded'
  <1> TypeOK /\ snap.completed \in Seq(Ids)
    BY DEF IInv, TypeOK, WorkflowSnapshot
  <1>1. /\ snap'.completed = Mark(snap.completed, t)
        /\ snap'.plan = snap.plan /\ snap'.skipped = snap.skipped /\ snap'.current = snap.current
    BY DEF AgentSucceeds, Save, TypeOK, WorkflowSnapshot
  <1>2. Range(snap'.completed) = Range(snap.completed) \cup {t} /\ Distinct(snap'.completed)
    BY <1>1, MarkRange, MarkDistinct DEF Recorded, Planned
  <1>3. pc'[Main] = pc[Main] /\ \A u \in Ids : pc'[u] = IF u = t THEN "saving" ELSE pc[u]
    BY MainNotId DEF AgentSucceeds, Save, Goto, TypeOK
  <1>4. t \in Tasks => pc[Main] = "batch" /\ t \in snap.plan
    <2>1. pc[t] # "idle"
      BY DEF AgentSucceeds
    <2>2. CASE pc[Main] = "undoing"
      BY <2>1, <2>2, GraphAssumption DEF IInv, Flight
    <2> QED
      BY <2>1, <2>2 DEF IInv, Flight, Recorded, BatchReady
  <1>6. Planned(snap') /\ Planned(disk')
    BY <1>1, <1>2, <1>4 DEF AgentSucceeds, Save, Recorded, Planned
  <1>7. InDag' /\ BatchReady'
    BY <1>1, <1>2, <1>3 DEF AgentSucceeds, Save, Recorded, InDag, MarkedInDag, Executing, BatchReady
  <1>8. Once'
    <2> SUFFICES ASSUME pc'[Main] = "batch", NEW u \in snap'.current \cap Range(snap'.completed)
                 PROVE  pc'[u] \in {"saving", "done"} \/ used'["fault"] > 0 \/ Rejectable(u)
      BY DEF Once, Rejectable
    <2>1. u \in Ids
      BY <1>1 DEF TypeOK, WorkflowSnapshot, Ids
    <2>2. CASE u = t
      BY <1>3, <2>1, <2>2
    <2>3. CASE u # t
      BY <1>1, <1>2, <1>3, <2>1, <2>3 DEF AgentSucceeds, Save, Recorded, Once
    <2> QED
      BY <2>2, <2>3
  <1> QED
    BY <1>6, <1>7, <1>8 DEF Recorded

\* A rejected task was not in the submitted plan, because plans only grow.
LEMMA SuccessSavedRecorded ==
  ASSUME IInv, Recorded, NEW t \in Ids, SuccessSaved(t)
  PROVE  Recorded'
  <1> TypeOK
    BY DEF IInv
  <1>1. /\ snap'.completed = snap.completed /\ snap'.skipped = snap.skipped
        /\ snap'.current = snap.current /\ snap.plan \subseteq snap'.plan
    BY DEF SuccessSaved, DynamicTasks, TypeOK, WorkflowSnapshot
  <1>2. Goto(t, "done") \/ (Goto(t, "failing") /\ Rejectable(t))
    BY DEF SuccessSaved, DynamicTasks, Recorded, Planned, Rejectable
  <1>3. pc'[Main] = pc[Main] /\ \A u \in Ids : pc'[u] = pc[u] \/ u = t
    BY <1>2, MainNotId DEF Goto, TypeOK
  <1>4. pc'[t] = "done" \/ Rejectable(t)
    BY <1>2, MainNotId DEF Goto, TypeOK
  <1>5. Planned(snap') /\ Planned(disk')
    BY <1>1 DEF SuccessSaved, Recorded, Planned
  <1>6. InDag' /\ BatchReady'
    BY <1>1, <1>3 DEF SuccessSaved, Recorded, InDag, MarkedInDag, Executing, BatchReady
  <1>7. Once'
    <2> SUFFICES ASSUME pc'[Main] = "batch", NEW u \in snap.current \cap Range(snap.completed)
                 PROVE  pc'[u] \in {"saving", "done"} \/ used'["fault"] > 0 \/ Rejectable(u)
      BY <1>1 DEF Once, Rejectable
    <2>1. u \in Ids
      BY <1>1 DEF TypeOK, WorkflowSnapshot, Ids
    <2> QED
      BY <1>3, <1>4, <2>1 DEF SuccessSaved, Recorded, Once
  <1> QED
    BY <1>5, <1>6, <1>7 DEF Recorded

LEMMA PlanBatchRecorded ==
  ASSUME IInv, Recorded, PlanBatch
  PROVE  Recorded'
  <1> TypeOK
    BY DEF IInv
  <1>1. PICK S \in SUBSET snap.plan :
          /\ dagDone' = dagDone \cup ((snap.skipped \cup S) \cap snap.plan)
          /\ \E s : snap' = [WithSkipped(S) EXCEPT !.status = s]
          /\ disk' \in {disk, snap'} /\ \E point \in {"ending", "scheduling"} : Goto(Main, point)
    BY DEF PlanBatch, Save
  <1>2. /\ snap'.completed = snap.completed /\ snap'.plan = snap.plan
        /\ snap'.skipped = snap.skipped \cup S
    BY <1>1 DEF WithSkipped, TypeOK, WorkflowSnapshot
  <1>3. pc'[Main] # "batch" /\ Executing
    BY <1>1, MainNotId DEF PlanBatch, Goto, TypeOK, Executing
  <1>4. Planned(snap') /\ Planned(disk')
    BY <1>1, <1>2 DEF Recorded, Planned
  <1>5. InDag'
    BY <1>1, <1>2, <1>3 DEF Recorded, InDag, MarkedInDag, Planned
  <1> QED
    BY <1>3, <1>4, <1>5 DEF Recorded, BatchReady, Once

LEMMA DispatchRecorded ==
  ASSUME IInv, Recorded, Dispatch
  PROVE  Recorded'
  <1> TypeOK
    BY DEF IInv
  <1>1. PICK batch \in Batches(ReadyTasks(dagDone)) :
          snap' = [snap EXCEPT !.status = "running", !.current = batch]
    BY DEF Dispatch
  <1>2. batch \subseteq ReadyTasks(dagDone)
    BY DEF Batches
  <1>3. SameLists(snap', snap) /\ snap'.current = batch
    BY <1>1 DEF TypeOK, WorkflowSnapshot, SameLists
  <1>4. Executing /\ dagDone = Range(snap.completed) \cup snap.skipped
    BY DEF Dispatch, Executing, Recorded, InDag, MarkedInDag
  <1>5. Planned(snap') /\ Planned(disk')
    BY <1>3 DEF Dispatch, Recorded, Planned, SameLists
  <1>6. InDag'
    BY <1>3, <1>4 DEF Dispatch, InDag, MarkedInDag, SameLists
  <1>7. BatchReady'
    BY <1>2, <1>3, <1>4 DEF Dispatch, BatchReady, ReadyTasks, SameLists
  <1>8. Once'
    BY <1>2, <1>3, <1>4 DEF Once, ReadyTasks, SameLists
  <1> QED
    BY <1>5, <1>6, <1>7, <1>8 DEF Recorded

\* execute_plan marks in the DAG it rebuilds what the snapshot it starts from lists.
LEMMA LaunchRecorded ==
  ASSUME IInv, Recorded, NEW s \in WorkflowSnapshot, Planned(s), Launch(s)
  PROVE  Recorded'
  <1>1. SameLists(snap', s) /\ disk' \in {disk, snap'} /\ dagDone' = MarkedInDag(s)
    BY DEF Launch, Save, WorkflowSnapshot, SameLists
  <1>2. pc'[Main] = "starting"
    BY MainNotId DEF Launch, Goto, IInv, TypeOK
  <1> QED
    BY <1>1, <1>2
       DEF Recorded, Planned, InDag, MarkedInDag, BatchReady, Once, SameLists

LEMMA RelaunchRecorded ==
  ASSUME IInv, Recorded, Resume \/ Restarted \/ Restart \/ Crash
  PROVE  Recorded'
  <1> TypeOK /\ Loaded \in WorkflowSnapshot /\ Planned(Loaded)
    BY LoadedType DEF IInv, Recorded, Loaded
  <1>1. CASE Resume
    BY <1>1, LaunchRecorded DEF Resume
  <1>2. CASE Restarted
    BY <1>2, LaunchRecorded DEF Restarted, Recorded, TypeOK
  <1>3. CASE Restart
    <2>1. /\ snap'.completed = <<>> /\ snap'.skipped = {} /\ snap'.plan = Loaded.plan
          /\ disk' \in {disk, snap'}
      BY <1>3 DEF Restart, Save, Reset, WorkflowSnapshot
    <2>2. Range(<<>>) = {} /\ Distinct(<<>>)
      BY DEF Range, Distinct
    <2>3. pc'[Main] = "restarting"
      BY <1>3, MainNotId DEF Restart, Goto, TypeOK
    <2> QED
      BY <2>1, <2>2, <2>3
         DEF Recorded, Planned, InDag, Executing, BatchReady, Once
  <1>4. CASE Crash
    <2>1. snap' = disk /\ disk' = disk /\ pc'[Main] = "down"
      BY <1>4, MainNotId DEF Crash, Recovered
    <2> QED
      BY <2>1 DEF Recorded, Planned, InDag, Executing, BatchReady, Once
  <1> QED
    BY <1>1, <1>2, <1>3, <1>4

\* What is on its way to the store lists tasks as soundly as what is live or stored.
CopiesPlanned == \A w \in writes : Planned(w.what)

LEMMA StoreRecorded ==
  ASSUME IInv, Recorded, CopiesPlanned, NEW c \in Writers, StoreStep(c)
  PROVE  Recorded'
  <1>1. /\ UNCHANGED <<snap, dagDone, pc, used>>
        /\ disk' = disk \/ \E w \in writes : disk' = w.what
    BY DEF StoreStep, Dumped, Landed
  <1>2. Planned(snap') /\ Planned(disk')
    BY <1>1 DEF Recorded, CopiesPlanned, Planned
  <1> QED
    BY <1>1, <1>2 DEF Recorded, InDag, Executing, MarkedInDag, BatchReady, Once

LEMMA StepCopiesPlanned ==
  ASSUME IInv, Recorded, CopiesPlanned, [Next]_vars
  PROVE  CopiesPlanned'
  <1> SUFFICES ASSUME NEW w \in writes' PROVE Planned(w.what)
    BY DEF CopiesPlanned
  <1> TypeOK /\ snap \in WorkflowSnapshot /\ disk \in WorkflowSnapshot
    BY DEF IInv, TypeOK
  <1>1. ASSUME NEW s \in {snap, disk} PROVE Planned(Requested(s))
    BY RequestedSame DEF Recorded, Planned
  <1> QED
    BY <1>1, WritesStep DEF Recorded, CopiesPlanned

LEMMA StepRecorded ==
  IInv /\ Recorded /\ CopiesPlanned /\ [Next]_vars => Recorded' /\ CopiesPlanned'
  <1> SUFFICES ASSUME IInv, Recorded, CopiesPlanned, [Next]_vars PROVE Recorded'
    BY StepCopiesPlanned
  <1>1. CASE UNCHANGED vars
    <2>1. Steady
      BY <1>1 DEF vars, Steady, SameLists, Executing
    <2> QED
      BY <2>1, SteadyRecorded
  <1>2. CASE \E c \in Coroutines : Boundary(c)
    BY <1>2, BoundarySteady, SteadyRecorded
  <1>3. ASSUME NEW t \in Ids, TaskStep(t) PROVE Recorded'
    BY <1>3, TaskStepSteady, SteadyRecorded, AgentSucceedsRecorded, SuccessSavedRecorded
  <1>4. CASE MainStep
    BY <1>4, MainStepSteady, GatherSteady, SteadyRecorded, PlanBatchRecorded, DispatchRecorded
  <1>5. CASE Restarted \/ Environment
    BY <1>5, OutsideSteady, SteadyRecorded, RelaunchRecorded DEF Environment
  <1>6. CASE \E c \in Writers : StoreStep(c)
    BY <1>6, StoreRecorded
  <1> QED
    BY <1>1, <1>2, <1>3, <1>4, <1>5, <1>6 DEF Next, Engine

\* In every run the DAG, the live and the persisted snapshot agree on what is done.
THEOREM Record == Spec => []Recorded
  <1>1. Init => CopiesPlanned
    BY DEF Init, CopiesPlanned
  <1> QED
    BY <1>1, InitRecorded, StepRecorded, Invariance, PTL DEF Spec

-----------------------------------------------------------------------------
(* What follows from it                                                    *)

\* While an agent runs for a task of the plan, the task is in the batch.
LEMMA AgentInBatch ==
  ASSUME IInv, NEW t \in Tasks, pc[t] # "idle"
  PROVE  pc[Main] = "batch" /\ t \in snap.current
  BY GraphAssumption DEF IInv, Flight, Ids

\* Through crashes, resumes and faults too, an agent only runs once the run has completed
\* or skipped all its task depends on (execute_plan marks them in the DAG it rebuilds).
DependenciesDone ==
  \A t \in Tasks : AgentRuns(t) => Deps[t] \subseteq Range(snap.completed) \cup snap.skipped

\* No agent starts before the run has completed or skipped all its task depends on,
\* whichever process of a crashed and resumed workflow did so.
THEOREM DependenciesAreDone == Spec => []DependenciesDone
  <1>1. IInv /\ Recorded => DependenciesDone
    <2> SUFFICES ASSUME IInv, Recorded, NEW t \in Tasks, AgentRuns(t)
                 PROVE  Deps[t] \subseteq Range(snap.completed) \cup snap.skipped
      BY DEF DependenciesDone
    <2>1. pc[Main] = "batch" /\ t \in snap.current
      BY AgentInBatch DEF AgentRuns
    <2> QED
      BY <2>1 DEF Recorded, BatchReady, InDag, MarkedInDag, Executing
  <1> QED
    BY <1>1, Invariance, Record, PTL

LEMMA StartsFromControls ==
  ASSUME IInv, NEW t \in Ids, Starts(t), [Next]_vars
  PROVE  pc[t] \in ControlPoints /\ Continue(t)
  <1> TypeOK /\ pc[t] # "agent" /\ pc'[t] = "agent"
    BY DEF IInv, Ids, Starts, AgentRuns
  <1>1. ASSUME NEW c \in Coroutines, Boundary(c)
        PROVE  pc[t] \in ControlPoints /\ Continue(t)
    <2>1. CASE pc[c] \in ControlPoints /\ Continue(c)
      <3>1. \E point : Goto(c, point)
        BY <2>1 DEF Continue, AttemptRefused, AttemptStarted, LoopLeft, LoopContinued
      <3>2. c = t
        BY <3>1, MainNotId DEF Goto, TypeOK
      <3> QED
        BY <2>1, <3>2
    <2>2. CASE ControlsCancel(c) \/ ControlsPause(c) \/ PauseWait(c) \/ PauseLeft(c)
      <3>1. \E point : Goto(c, point) /\ point # "agent"
        BY <2>2 DEF ControlsCancel, ControlsPause, PauseWait, PauseLeft
      <3> QED
        BY <3>1, MainNotId DEF Goto, TypeOK
    <2> QED
      BY <1>1, <2>1, <2>2
         DEF Boundary, ControlsPass, CancelCheckpointed, PauseCancelled, ResumeCheckpointed,
             AtBoundary, ControlPoints
  <1>2. ASSUME NEW u \in Ids, TaskStep(u) \/ TaskFault(u) PROVE FALSE
    <2>1. \/ \E point \in TaskPoints \ {"agent"} : Goto(u, point)
          \/ pc' = [pc EXCEPT ![u] = "idle", ![Main] = "raised"]
      <3>1. CASE TaskFault(u)
        BY <3>1 DEF TaskFault, TaskPoints
      <3>2. CASE AgentSucceeds(u) \/ AgentFails(u) \/ SuccessSaved(u) \/ FailureRecorded(u)
        BY <3>2 DEF AgentSucceeds, AgentFails, SuccessSaved, DynamicTasks, FailureRecorded,
                    TaskPoints, ControlPoints
      <3>3. CASE RetryScheduled(u) \/ RetryReleased(u) \/ LoopExhausted(u) \/ FailureSaved(u)
        BY <3>3 DEF RetryScheduled, RetryReleased, LoopExhausted, FailureSaved,
                    TaskPoints, ControlPoints
      <3> QED
        BY <1>2, <3>1, <3>2, <3>3 DEF TaskStep
    <2> QED
      BY <2>1, MainNotId DEF Goto, TypeOK
  <1>3. CASE MainStep
    <2>1. CASE Dispatch \/ BatchGathered
      BY <2>1, MainNotId DEF Dispatch, BatchGathered
    <2>2. CASE UndoNext \/ UndoDone
      BY <2>2, MainNotId, GraphAssumption DEF UndoNext, UndoDone, Goto, TypeOK
    <2>3. CASE ~(Dispatch \/ BatchGathered \/ UndoNext \/ UndoDone)
      <3>1. \E point : Goto(Main, point)
        BY <1>3, <2>3
           DEF MainStep, Started, PlanBatch, BatchSettled, BatchFailed, RollbackStarted,
               RolledBack, FailurePropagated, Ended
      <3> QED
        BY <3>1, MainNotId DEF Goto, TypeOK
    <2> QED
      BY <2>1, <2>2, <2>3
  <1>4. CASE Restarted \/ Resume \/ Restart \/ MainFault
    <2>1. \E point : Goto(Main, point)
      BY <1>4 DEF Restarted, Resume, Restart, MainFault, Launch
    <2> QED
      BY <2>1, MainNotId DEF Goto, TypeOK
  <1>5. CASE Pause \/ ResumePaused \/ (\E k \in Clients : Cancel(k)) \/ Crash \/ UNCHANGED vars
    BY <1>5, MainNotId DEF Pause, ResumePaused, Cancel, Wake, Crash, vars
  <1>6. CASE (\E c \in Writers : StoreStep(c)) \/ (\E k \in Clients : ClientFault(k))
    BY <1>6 DEF StoreStep, Dumped, Landed, ClientFault
  <1> QED
    BY <1>1, <1>2, <1>3, <1>4, <1>5, <1>6 DEF Next, Engine, Environment

\* A completed task is not run again in any run, unless a fault or the rejection of the
\* task it generated sent it back.
THEOREM NotRerun == Spec => CompletedNotRerun
  <1>1. ASSUME IInv, Recorded, [Next]_vars, NEW t \in Tasks, Starts(t), t \in Range(snap.completed)
        PROVE  used["fault"] > 0 \/ Rejectable(t)
    <2>1. pc[t] \in ControlPoints
      BY <1>1, StartsFromControls DEF Ids
    <2>2. pc[Main] = "batch" /\ t \in snap.current
      BY <1>1, <2>1, AgentInBatch DEF ControlPoints
    <2> QED
      BY <1>1, <2>1, <2>2 DEF Recorded, Once, ControlPoints
  <1>2. IInv /\ Recorded /\ [Next]_vars =>
          [\A t \in Tasks : Starts(t) /\ t \in Range(snap.completed) =>
             \/ used["fault"] > 0
             \/ t \in Generators /\ ~(Deps[Generated[t]] \subseteq InitialPlan)]_vars
    BY <1>1 DEF Rejectable
  <1> QED
    BY <1>2, Invariance, Record, PTL DEF Spec, CompletedNotRerun

-----------------------------------------------------------------------------
(* What the store holds                                                    *)

\* Where the coroutine that has called _checkpoint waits for it.
SavePoints == {"restarting", "starting", "cancelling", "pausing", "resuming", "saving",
               "retrying", "closing", "scheduling", "settling", "rollback", "ending"}

\* Where the main loop has just stored the snapshot, or has not changed it since.
RestPoints == {"starting", "top", "cancelling", "pausing", "waiting", "woken", "resuming",
               "scheduling", "settling", "ending", "returned"}

\* A coroutine that the store has still to answer is parked at a checkpoint.
Parked == \A c \in Coroutines : ~Free(c) => pc[c] \in SavePoints

\* While the checkpoint of the main loop is under way nobody changes the snapshot, and
\* cancel stores nothing but requests.
Signed ==
  \A w \in writes : /\ w.by = Main => w.what = snap
                    /\ w.by \in Clients => w.what.status = "cancel_requested"

\* The main loop goes on from a checkpoint with what it has stored, unless cancel came after.
Resting ==
  pc[Main] \in RestPoints /\ Free(Main) => disk = snap \/ disk.status = "cancel_requested"

Stored == Parked /\ Signed /\ Resting

LEMMA InitStored == Init => Stored
  BY DEF Init, Stored, Parked, Signed, Resting, Free

\* A step of c, which waits for nothing and at most calls _checkpoint.
LEMMA ParkedFrame ==
  ASSUME Parked, NEW c \in Coroutines, Free(c), writes' = writes,
         opening' = opening \/ (opening' = opening \cup {c} /\ pc'[c] \in SavePoints),
         \A d \in Coroutines \ {c} : pc[d] \in SavePoints => pc'[d] = pc[d]
  PROVE  Parked'
  <1> SUFFICES ASSUME NEW d \in Coroutines, ~Free(d)' PROVE pc'[d] \in SavePoints
    BY DEF Parked
  <1>1. CASE d = c
    BY <1>1 DEF Free
  <1>2. CASE d # c
    BY <1>2 DEF Free, Parked
  <1> QED
    BY <1>1, <1>2

\* While a task is inside _execute_task the main loop is at gather, or at the await of a
\* rollback task, and has no checkpoint under way.
LEMMA TaskStored ==
  ASSUME IInv, Stored, NEW t \in Ids, pc[t] # "idle", Parked',
         pc'[Main] \in {pc[Main], "raised"},
         \A w \in writes' : w \in writes \/ w.by = t
  PROVE  Stored'
  <1>1. pc[Main] \in {"batch", "undoing"} /\ pc'[Main] \notin RestPoints
    BY DEF IInv, Flight, RestPoints
  <1>2. \A w \in writes : w.by # Main
    BY <1>1, MainNotId DEF Stored, Parked, Free, SavePoints
  <1>3. t # Main /\ t \notin Clients
    BY MainNotId, GraphAssumption
  <1> QED
    BY <1>1, <1>2, <1>3 DEF Stored, Signed, Resting

LEMMA MainStored ==
  ASSUME IInv, Stored, Free(Main), Parked', writes' = writes,
         \/ Save(Main, snap')
         \/ /\ UNCHANGED <<disk, opening>>
            /\ pc'[Main] \in RestPoints => pc[Main] \in RestPoints /\ snap' = snap
  PROVE  Stored'
  <1>1. Signed'
    BY DEF Stored, Signed, Free
  <1>2. Resting'
    <2>1. CASE Save(Main, snap')
      BY <2>1 DEF Save, Resting, Free
    <2>2. CASE /\ UNCHANGED <<disk, opening>>
               /\ pc'[Main] \in RestPoints => pc[Main] \in RestPoints /\ snap' = snap
      BY <2>2 DEF Stored, Resting
    <2> QED
      BY <2>1, <2>2
  <1> QED
    BY <1>1, <1>2 DEF Stored

LEMMA BoundaryStored ==
  ASSUME IInv, Stored, NEW c \in Coroutines, Free(c), Boundary(c)
  PROVE  Stored'
  <1> TypeOK /\ Parked
    BY DEF IInv, Stored
  <1>1. /\ pc[c] \in ControlPoints /\ writes' = writes
        /\ \E point : /\ Goto(c, point)
                      /\ \/ Save(c, snap') /\ point \in SavePoints
                         \/ UNCHANGED <<disk, opening>> /\ (c = Main => snap' = snap)
    <2>1. CASE pc[c] \in ControlPoints /\ Continue(c)
      BY <2>1, MainNotId
         DEF Continue, AttemptRefused, AttemptStarted, LoopLeft, LoopContinued
    <2>2. CASE ControlsCancel(c) \/ ControlsPause(c) \/ PauseWait(c) \/ PauseLeft(c)
      BY <2>2 DEF ControlsCancel, ControlsPause, PauseWait, PauseLeft, Save, AtBoundary,
                  ControlPoints, SavePoints
    <2> QED
      BY <2>1, <2>2
         DEF Boundary, ControlsPass, CancelCheckpointed, PauseCancelled, ResumeCheckpointed,
             AtBoundary, ControlPoints
  <1>2. PICK point : /\ Goto(c, point)
                     /\ \/ Save(c, snap') /\ point \in SavePoints
                        \/ UNCHANGED <<disk, opening>> /\ (c = Main => snap' = snap)
    BY <1>1
  <1>3. pc'[c] = point /\ \A d \in Coroutines \ {c} : pc'[d] = pc[d]
    BY <1>2 DEF Goto, TypeOK
  <1>4. Parked'
    <2>1. opening' = opening \/ (opening' = opening \cup {c} /\ pc'[c] \in SavePoints)
      BY <1>2, <1>3 DEF Save
    <2> QED
      BY <1>1, <1>3, <2>1, ParkedFrame
  <1>5. CASE c \in Ids
    <2>1. pc[c] # "idle" /\ pc'[Main] = pc[Main]
      BY <1>1, <1>3, <1>5, MainNotId DEF ControlPoints
    <2> QED
      BY <1>1, <1>4, <1>5, <2>1, TaskStored
  <1>6. CASE c = Main
    <2>1. pc[Main] \in RestPoints
      BY <1>1, <1>6 DEF ControlPoints, RestPoints
    <2> QED
      BY <1>1, <1>2, <1>4, <1>6, <2>1, MainStored
  <1> QED
    BY <1>5, <1>6 DEF Coroutines

LEMMA TaskStepStored ==
  ASSUME IInv, Stored, NEW t \in Ids, Free(t), TaskStep(t)
  PROVE  Stored'
  <1> TypeOK /\ Parked /\ t \in Coroutines /\ t # Main
    BY MainNotId DEF IInv, Stored
  <1>1. /\ pc[t] # "idle" /\ writes' = writes
        /\ \E point : /\ Goto(t, point)
                      /\ \/ opening' = opening
                         \/ opening' = opening \cup {t} /\ point \in SavePoints
    <2>1. CASE AgentSucceeds(t) \/ RetryScheduled(t) \/ LoopExhausted(t)
      BY <2>1 DEF AgentSucceeds, RetryScheduled, LoopExhausted, Save, Keep, SavePoints
    <2>2. CASE AgentFails(t) \/ SuccessSaved(t) \/ FailureRecorded(t) \/ RetryReleased(t)
                 \/ FailureSaved(t)
      BY <2>2 DEF AgentFails, SuccessSaved, DynamicTasks, FailureRecorded, RetryReleased,
                  FailureSaved
    <2> QED
      BY <2>1, <2>2 DEF TaskStep
  <1>2. pc'[Main] = pc[Main] /\ \A d \in Coroutines \ {t} : pc'[d] = pc[d]
    BY <1>1, MainNotId DEF Goto, TypeOK
  <1>3. opening' = opening \/ (opening' = opening \cup {t} /\ pc'[t] \in SavePoints)
    BY <1>1 DEF Goto, TypeOK
  <1>4. Parked'
    BY <1>1, <1>2, <1>3, ParkedFrame
  <1> QED
    BY <1>1, <1>2, <1>4, TaskStored

LEMMA MainStepStored ==
  ASSUME IInv, Stored, Free(Main), MainStep
  PROVE  Stored'
  <1> TypeOK /\ Parked /\ Main \in Coroutines
    BY MainNotId DEF IInv, Stored
  <1>1. writes' = writes
    BY DEF MainStep, Started, PlanBatch, Dispatch, BatchGathered, BatchSettled, BatchFailed,
           RollbackStarted, UndoNext, UndoDone, RolledBack, FailurePropagated, Ended, Save
  <1>2. \A d \in Coroutines \ {Main} : pc[d] \in SavePoints => pc'[d] = pc[d]
    <2>1. CASE Dispatch
      <3>1. \A d \in Ids : pc[d] = "idle"
        BY <2>1 DEF Dispatch, IInv, Flight
      <3> QED
        BY <3>1 DEF Coroutines, SavePoints
    <2>2. CASE BatchGathered
      BY <2>2 DEF BatchGathered, SavePoints
    <2>3. CASE UndoNext \/ UndoDone
      <3>1. \A d \in Coroutines \ {Main} :
              pc'[d] # pc[d] => pc[d] = "done" \/ pc[Main] = "undoNext"
        BY <2>3 DEF UndoNext, UndoDone, TypeOK
      <3>2. pc[Main] = "undoNext" => \A d \in Ids : pc[d] = "idle"
        BY DEF IInv, Flight
      <3> QED
        BY <3>1, <3>2 DEF Coroutines, SavePoints
    <2>4. CASE ~(Dispatch \/ BatchGathered \/ UndoNext \/ UndoDone)
      <3>1. \E point : Goto(Main, point)
        BY <2>4
           DEF MainStep, Started, PlanBatch, BatchSettled, BatchFailed, RollbackStarted,
               RolledBack, FailurePropagated, Ended
      <3> QED
        BY <3>1 DEF Goto, TypeOK
    <2> QED
      BY <2>1, <2>2, <2>3, <2>4
  <1>3. CASE PlanBatch \/ BatchGathered \/ BatchFailed \/ FailurePropagated
    <2>1. Save(Main, snap')
      BY <1>3 DEF PlanBatch, BatchGathered, BatchFailed, FailurePropagated, Save
    <2>2. pc'[Main] \in SavePoints
      <3>1. CASE BatchGathered
        <4>1. Main \notin snap.current
          BY MainNotId DEF TypeOK, WorkflowSnapshot, Ids
        <4> QED
          BY <3>1, <4>1 DEF BatchGathered, SavePoints
      <3>2. CASE ~BatchGathered
        BY <1>3, <3>2 DEF PlanBatch, BatchFailed, FailurePropagated, Goto, TypeOK, SavePoints
      <3> QED
        BY <3>1, <3>2
    <2>3. opening' = opening \/ opening' = opening \cup {Main}
      BY <2>1 DEF Save
    <2>4. Parked'
      BY <1>1, <1>2, <2>2, <2>3, ParkedFrame
    <2> QED
      BY <1>1, <2>1, <2>4, MainStored
  <1>4. CASE Started \/ BatchSettled \/ Ended
    <2>1. /\ UNCHANGED <<snap, disk, opening>>
          /\ pc[Main] \in {"starting", "settling", "ending"}
      BY <1>4 DEF Started, BatchSettled, Ended
    <2>2. Parked' /\ pc[Main] \in RestPoints
      BY <1>1, <1>2, <2>1, ParkedFrame DEF RestPoints
    <2> QED
      BY <1>1, <2>1, <2>2, MainStored
  <1>5. CASE Dispatch \/ RollbackStarted \/ UndoNext \/ UndoDone \/ RolledBack
    <2>1. UNCHANGED <<disk, opening>>
      BY <1>5 DEF Dispatch, RollbackStarted, UndoNext, UndoDone, RolledBack
    <2>2. pc'[Main] \notin RestPoints
      <3>1. CASE Dispatch
        <4>1. PICK batch \in SUBSET Ids :
                pc' = [c \in Coroutines |-> IF c \in batch THEN "top"
                                            ELSE IF c = Main THEN "batch" ELSE pc[c]]
          BY <3>1 DEF Dispatch, Batches, ReadyTasks, TypeOK, WorkflowSnapshot, Ids
        <4> QED
          BY <4>1, MainNotId DEF RestPoints
      <3>2. CASE RollbackStarted \/ RolledBack
        BY <3>2 DEF RollbackStarted, RolledBack, Goto, TypeOK, RestPoints
      <3>3. CASE UndoNext \/ UndoDone
        BY <3>3, MainNotId DEF UndoNext, UndoDone, Goto, TypeOK, RestPoints
      <3> QED
        BY <1>5, <3>1, <3>2, <3>3
    <2>3. Parked'
      BY <1>1, <1>2, <2>1, ParkedFrame
    <2> QED
      BY <1>1, <2>1, <2>2, <2>3, MainStored
  <1> QED
    BY <1>3, <1>4, <1>5 DEF MainStep

\* A run is only taken up when the main loop of the former one waits for nothing.
LEMMA RelaunchStored ==
  ASSUME IInv, Stored, Resume \/ Restart \/ (Restarted /\ Free(Main))
  PROVE  Stored'
  <1> TypeOK /\ Parked /\ Main \in Coroutines
    BY MainNotId DEF IInv, Stored
  <1>1. Free(Main)
    BY DEF Resume, Restart, Quiescent, Parked, SavePoints
  <1>2. /\ Save(Main, snap') /\ writes' = writes
        /\ \E point \in {"starting", "restarting"} : Goto(Main, point)
    BY DEF Resume, Restart, Restarted, Launch, Save
  <1>3. pc'[Main] \in SavePoints /\ \A d \in Coroutines \ {Main} : pc'[d] = pc[d]
    BY <1>2 DEF Goto, TypeOK, SavePoints
  <1>4. opening' = opening \/ opening' = opening \cup {Main}
    BY <1>2 DEF Save
  <1>5. Parked'
    BY <1>1, <1>2, <1>3, <1>4, ParkedFrame
  <1> QED
    BY <1>1, <1>2, <1>5, MainStored

LEMMA RequestStored ==
  ASSUME IInv, Stored, Pause \/ ResumePaused \/ \E k \in Clients : Cancel(k)
  PROVE  Stored'
  <1> TypeOK /\ Main \in Coroutines
    BY MainNotId DEF IInv
  <1>1. /\ snap' = snap /\ opening \subseteq opening' /\ opening' \subseteq opening \cup Clients
        /\ writes \subseteq writes'
        /\ \A w \in writes' :
             \/ w \in writes
             \/ w.by \in Clients /\ \E s \in WorkflowSnapshot : w.what = Requested(s)
        /\ disk' = disk \/ \E s \in WorkflowSnapshot : disk' = Requested(s)
    <2>1. CASE Pause \/ ResumePaused
      BY <2>1 DEF Pause, ResumePaused
    <2>2. ASSUME NEW k \in Clients, Cancel(k)
          PROVE  /\ snap' = snap /\ opening' \in {opening, opening \cup {k}}
                 /\ disk' \in {disk, Requested(Loaded)}
                 /\ writes' \in {writes, writes \cup {[by |-> k, what |-> Requested(snap)]}}
      BY <2>2 DEF Cancel
    <2>3. Loaded \in WorkflowSnapshot /\ snap \in WorkflowSnapshot
      BY LoadedType DEF TypeOK
    <2> QED
      BY <2>1, <2>2, <2>3
  <1>2. \A s \in WorkflowSnapshot : Requested(s).status = "cancel_requested"
    BY DEF Requested, WorkflowSnapshot
  <1>3. \A c \in Coroutines : pc'[c] = pc[c] \/ (pc[c] = "waiting" /\ pc'[c] = "woken")
    BY DEF Pause, ResumePaused, Cancel, Wake
  <1>4. \A c \in Coroutines : c \notin Clients
    BY GraphAssumption
  <1>5. \A c \in Coroutines : Free(c)' <=> Free(c)
    BY <1>1, <1>4 DEF Free
  <1>6. Parked'
    BY <1>3, <1>5 DEF Stored, Parked, SavePoints
  <1>7. Signed'
    BY <1>1, <1>2, <1>4 DEF Stored, Signed
  <1>8. Resting'
    BY <1>1, <1>2, <1>3, <1>5 DEF Stored, Resting, RestPoints
  <1> QED
    BY <1>6, <1>7, <1>8 DEF Stored

LEMMA FaultStored ==
  ASSUME IInv, Stored,
         (\E t \in Ids : TaskFault(t)) \/ MainFault \/ (\E k \in Clients : ClientFault(k))
  PROVE  Stored'
  <1> TypeOK /\ Parked /\ Main \in Coroutines
    BY MainNotId DEF IInv, Stored
  <1>1. ASSUME NEW c \in Writers, Dropped(c)
        PROVE  \A d \in Coroutines : IF d = c THEN Free(d)' ELSE Free(d)' <=> Free(d)
    BY <1>1 DEF Dropped, Free
  <1>2. ASSUME NEW t \in Ids, TaskFault(t) PROVE Stored'
    <2>1. /\ Dropped(t) /\ pc[t] # "idle" /\ t # Main
          /\ \/ \E point : Goto(t, point)
             \/ t \in UndoIds /\ pc' = [pc EXCEPT ![t] = "idle", ![Main] = "raised"]
      BY <1>2, MainNotId DEF TaskFault
    <2>2. pc[Main] \in {"batch", "undoing"}
      BY <2>1 DEF IInv, Flight
    <2>3. /\ pc'[Main] \in {pc[Main], "raised"}
          /\ \A d \in Coroutines \ {t, Main} : pc'[d] = pc[d]
      BY <2>1, MainNotId DEF Goto, TypeOK
    <2>4. Free(Main)
      BY <2>2 DEF Parked, SavePoints
    <2>5. Parked'
      <3>1. t \in Writers
        BY DEF Writers, Coroutines
      <3> QED
        BY <1>1, <2>1, <2>3, <2>4, <3>1 DEF Parked
    <2>6. \A w \in writes' : w \in writes
      BY <2>1 DEF Dropped
    <2> QED
      BY <2>1, <2>3, <2>5, <2>6, TaskStored
  <1>3. CASE MainFault
    <2>1. Dropped(Main) /\ snap' = snap /\ \E point \in {"leaked", "raised"} : Goto(Main, point)
      BY <1>3 DEF MainFault
    <2>2. pc'[Main] \in {"leaked", "raised"} /\ \A d \in Coroutines \ {Main} : pc'[d] = pc[d]
      BY <2>1 DEF Goto, TypeOK
    <2>3. Parked'
      BY <1>1, <2>1, <2>2 DEF Parked, Writers
    <2> QED
      BY <2>1, <2>2, <2>3 DEF Stored, Signed, Resting, Dropped, RestPoints
  <1>4. ASSUME NEW k \in Clients, ClientFault(k) PROVE Stored'
    <2>1. Dropped(k) /\ UNCHANGED <<snap, pc, disk>> /\ k \in Writers
      BY <1>4 DEF ClientFault, Dropped, Writers
    <2>2. \A d \in Coroutines : d # k
      BY GraphAssumption
    <2>3. \A d \in Coroutines : Free(d)' <=> Free(d)
      BY <1>1, <2>1, <2>2
    <2> QED
      BY <2>1, <2>3 DEF Stored, Parked, Signed, Resting, Dropped
  <1> QED
    BY <1>2, <1>3, <1>4

LEMMA StoreStored ==
  ASSUME IInv, Stored, NEW c \in Writers, StoreStep(c)
  PROVE  Stored'
  <1> TypeOK /\ Main \in Coroutines /\ UNCHANGED <<snap, pc>>
    BY MainNotId DEF IInv, StoreStep, Dumped, Landed
  <1>1. \A d \in Coroutines : d # c => (Free(d)' <=> Free(d))
    BY DEF StoreStep, Dumped, Landed, Free
  <1>2. ~Free(c)
    BY DEF StoreStep, Dumped, Landed, Free
  <1>3. Parked'
    BY <1>1, <1>2 DEF Stored, Parked
  <1>4. CASE Dumped(c)
    <2>1. Requested(disk).status = "cancel_requested" /\ disk' = disk
      BY <1>4 DEF Dumped, Requested, TypeOK, WorkflowSnapshot
    <2>2. Main \notin Clients
      BY GraphAssumption
    <2>3. Signed'
      BY <1>4, <2>1, <2>2 DEF Dumped, Stored, Signed
    <2>4. ~Free(c)'
      <3>1. [by |-> c, what |-> IF c \in Clients THEN Requested(disk) ELSE snap] \in writes'
        BY <1>4 DEF Dumped
      <3>2. \E w \in writes' : w.by = c
        BY <3>1
      <3> QED
        BY <3>2 DEF Free
    <2> QED
      BY <1>1, <1>3, <2>1, <2>3, <2>4 DEF Stored, Resting
  <1>5. CASE Landed(c)
    <2>1. PICK w \in writes : w.by = c /\ disk' = w.what /\ writes' = writes \ {w}
      BY <1>5 DEF Landed
    <2>2. Signed'
      BY <2>1 DEF Stored, Signed
    <2>3. CASE c \in Ids
      <3>1. pc[c] # "idle"
        BY <1>2, <2>3 DEF Stored, Parked, SavePoints, Coroutines
      <3>2. pc[Main] \notin RestPoints
        BY <2>3, <3>1 DEF IInv, Flight, RestPoints
      <3> QED
        BY <1>3, <2>2, <3>2 DEF Stored, Resting
    <2>4. CASE c = Main \/ c \in Clients
      BY <1>3, <2>1, <2>2, <2>4 DEF Stored, Signed, Resting
    <2> QED
      BY <2>3, <2>4 DEF Writers, Coroutines
  <1> QED
    BY <1>4, <1>5 DEF StoreStep

LEMMA StepStored == IInv /\ Stored /\ [Next]_vars => Stored'
  <1> SUFFICES ASSUME IInv, Stored, [Next]_vars PROVE Stored'
    OBVIOUS
  <1>1. CASE UNCHANGED vars
    BY <1>1 DEF vars, Stored, Parked, Signed, Resting, Free
  <1>2. CASE Crash
    <2>1. opening' = {} /\ writes' = {} /\ pc'[Main] = "down"
      BY <1>2, MainNotId DEF Crash
    <2> QED
      BY <2>1 DEF Stored, Parked, Signed, Resting, Free, RestPoints
  <1>3. CASE Resume \/ Restart \/ (Free(Main) /\ Restarted)
    BY <1>3, RelaunchStored
  <1>4. CASE Pause \/ ResumePaused \/ \E k \in Clients : Cancel(k)
    BY <1>4, RequestStored
  <1>5. CASE (\E t \in Ids : TaskFault(t)) \/ MainFault \/ (\E k \in Clients : ClientFault(k))
    BY <1>5, FaultStored
  <1> QED
    BY <1>1, <1>2, <1>3, <1>4, <1>5, BoundaryStored, TaskStepStored, MainStepStored, StoreStored
       DEF Next, Engine, Environment

LEMMA StoredAlways == Spec => []Stored
  BY InitStored, StepStored, Invariance, PTL DEF Spec

\* What the store holds when execute_plan returns is what it returned, or a request of cancel
\* that landed after the last checkpoint: no checkpoint of a task, of the loop or of an
\* earlier run is written later, through crashes, faults, resumes and restarts.
THEOREM ResultIsStored == Spec => []ResultStored
  <1>1. IInv /\ Stored => ResultStored
    <2> SUFFICES ASSUME IInv, Stored, pc[Main] = "returned"
                 PROVE  disk = snap \/ disk.status = "cancel_requested"
      BY DEF ResultStored
    <2>1. Free(Main)
      BY MainNotId DEF Stored, Parked, SavePoints
    <2> QED
      BY <2>1 DEF Stored, Resting, RestPoints
  <1> QED
    BY <1>1, StoredAlways, Invariance, PTL

-----------------------------------------------------------------------------
(* Rollback                                                                *)

Over(t) == snap.tstatus[t] \in {"success", "failed"}

\* Every task that the loop of _rollback has passed has had its rollback task run to an
\* end, or is the one whose rollback task is under way.
Unwound ==
  \A i \in 1..Len(snap.completed) :
    pc[Main] \in {"undoNext", "undoing"} /\ i > cursor /\ snap.completed[i] \in Undoable =>
      \/ Over(UndoOf[snap.completed[i]])
      \/ pc[Main] = "undoing" /\ pc[UndoOf[snap.completed[i]]] # "idle"

\* A rollback task leaves _execute_task with an outcome.
UndoPoints ==
  \A u \in UndoIds :
    /\ pc[u] = "saving" => snap.tstatus[u] = "success"
    /\ pc[u] = "closing" => snap.tstatus[u] = "failed"
    /\ pc[u] = "done" => Over(u)

\* ROLLED_BACK is never stored: execute_plan replaces it before the next checkpoint.
RolledBackBriefly ==
  /\ disk.status # "rolled_back"
  /\ snap.status = "rolled_back" => pc[Main] \in {"rolledBack", "raised"}

Rollback == Unwound /\ UndoPoints /\ RolledBackBriefly /\ RollbackComplete

LEMMA InitRollback == Init => Rollback
  <1> SUFFICES ASSUME Init PROVE Rollback
    OBVIOUS
  <1>1. snap.status = "running" /\ disk.status = "running" /\ Len(snap.completed) = 0
    BY DEF Init, InitialSnapshot
  <1>2. pc[Main] = "starting" /\ \A u \in UndoIds : pc[u] = "idle"
    BY MainNotId DEF Init, Ids
  <1> QED
    BY <1>1, <1>2 DEF Rollback, Unwound, UndoPoints, RolledBackBriefly, RollbackComplete

\* Steps while no task is being undone, by which none is: the rollback has nothing to keep.
LEMMA RollbackFrame ==
  ASSUME IInv, Rollback, pc'[Main] \notin {"undoNext", "undoing"},
         \A u \in UndoIds : pc'[u] = "idle",
         disk' = disk \/ disk'.status # "rolled_back",
         snap'.status # "rolled_back" \/
           (snap' = snap /\ pc'[Main] \in {"rolledBack", "raised"})
  PROVE  Rollback'
  BY DEF Rollback, Unwound, UndoPoints, RolledBackBriefly, RollbackComplete

\* A step during which no rollback task moves, unless the whole of the rollback is left.
LEMMA UndoUntouched ==
  ASSUME IInv, Rollback,
         \A u \in UndoIds : pc'[u] = pc[u] /\ snap'.tstatus[u] = snap.tstatus[u],
         snap'.completed = snap.completed, cursor' = cursor,
         pc'[Main] \in {"undoNext", "undoing"} => pc'[Main] = pc[Main],
         disk' = disk \/ disk'.status # "rolled_back", snap'.status # "rolled_back"
  PROVE  Rollback'
  <1>1. \A t \in Undoable : UndoOf[t] \in UndoIds
    BY GraphAssumption
  <1> QED
    BY <1>1 DEF Rollback, Unwound, Over, UndoPoints, RolledBackBriefly, RollbackComplete

\* A step of a coroutine inside _execute_task, for a task of the batch or for the rollback
\* task under way.
LEMMA TaskMoveRollback ==
  ASSUME IInv, Rollback, NEW t \in Ids, NEW point, Goto(t, point),
         pc[t] # "idle", point # "idle", cursor' = cursor,
         snap'.completed \in {snap.completed, Mark(snap.completed, t)},
         \A u \in UndoIds \ {t} : snap'.tstatus[u] = snap.tstatus[u],
         t \in UndoIds =>
           /\ point = "saving" => snap'.tstatus[t] = "success"
           /\ point = "closing" => snap'.tstatus[t] = "failed"
           /\ point = "done" => snap'.tstatus[t] \in {"success", "failed"},
         disk' = disk \/ disk'.status # "rolled_back", snap'.status # "rolled_back"
  PROVE  Rollback'
  <1> TypeOK /\ snap.completed \in Seq(Ids)
    BY DEF IInv, TypeOK, WorkflowSnapshot
  <1>1. pc'[Main] = pc[Main] /\ \A u \in Ids : pc'[u] = IF u = t THEN point ELSE pc[u]
    BY MainNotId DEF TypeOK, Goto
  <1>2. UndoPoints'
    BY <1>1 DEF Rollback, UndoPoints, Over, Ids
  <1>3. Unwound'
    <2> SUFFICES ASSUME pc[Main] \in {"undoNext", "undoing"}, NEW i \in 1..Len(snap'.completed),
                        i > cursor, snap'.completed[i] \in Undoable
                 PROVE  \/ snap'.tstatus[UndoOf[snap'.completed[i]]] \in {"success", "failed"}
                        \/ pc'[Main] = "undoing" /\ pc'[UndoOf[snap'.completed[i]]] # "idle"
      BY <1>1 DEF Unwound, Over
    <2>1. pc[Main] = "undoing" /\ t \in UndoIds
      BY DEF IInv, Flight
    <2>2. t \notin Undoable
      BY <2>1, GraphAssumption
    <2>3. i \in 1..Len(snap.completed) /\ snap'.completed[i] = snap.completed[i]
      <3>1. CASE snap'.completed = snap.completed \/ t \in Range(snap.completed)
        BY <3>1 DEF Mark
      <3>2. CASE snap'.completed = Append(snap.completed, t)
        <4>1. i # Len(snap.completed) + 1
          BY <2>2, <3>2, AppendProperties
        <4> QED
          BY <3>2, <4>1, AppendProperties, LenProperties
      <3> QED
        BY <3>1, <3>2 DEF Mark
    <2>4. UndoOf[snap.completed[i]] \in UndoIds /\ UndoOf[snap.completed[i]] \in Ids
      BY <2>3, GraphAssumption DEF Ids
    <2>5. \/ Over(UndoOf[snap.completed[i]]) \/ pc[UndoOf[snap.completed[i]]] # "idle"
      BY <2>3 DEF Rollback, Unwound
    <2> QED
      BY <1>1, <2>1, <2>3, <2>4, <2>5 DEF Over
  <1> QED
    BY <1>2, <1>3 DEF Rollback, RolledBackBriefly, RollbackComplete

LEMMA NotRolledBack ==
  ASSUME IInv, Rollback, NEW c \in Ids, pc[c] # "idle"
  PROVE  snap.status # "rolled_back" /\ disk.status # "rolled_back"
  BY DEF IInv, Flight, Rollback, RolledBackBriefly

LEMMA ContinueRollback ==
  ASSUME IInv, Rollback, NEW c \in Coroutines, pc[c] \in ControlPoints, Continue(c)
  PROVE  Rollback'
  <1> TypeOK /\ pc[c] # "idle" /\ disk' = disk /\ cursor' = cursor
    BY DEF IInv, ControlPoints, Continue
  <1>1. CASE c \in Ids /\ (AttemptRefused(c) \/ AttemptStarted(c))
    <2>1. /\ snap'.completed = snap.completed /\ snap'.status = snap.status
          /\ \A u \in UndoIds \ {c} : snap'.tstatus[u] = snap.tstatus[u]
          /\ \/ Goto(c, "done") /\ snap'.tstatus[c] = "failed"
             \/ Goto(c, "agent")
      <3>1. CASE AttemptRefused(c)
        BY <1>1, <3>1 DEF AttemptRefused, TypeOK, WorkflowSnapshot
      <3>2. CASE AttemptStarted(c)
        BY <1>1, <3>2 DEF AttemptStarted, TypeOK, WorkflowSnapshot
      <3> QED
        BY <1>1, <3>1, <3>2
    <2> QED
      BY <1>1, <2>1, NotRolledBack, TaskMoveRollback
  <1>2. CASE c = Main /\ (LoopLeft \/ LoopContinued)
    <2>1. pc[Main] \notin {"batch", "undoing"} /\ snap' = snap
            /\ pc[Main] \notin {"rolledBack", "raised"}
      BY <1>2 DEF ControlPoints, LoopLeft, LoopContinued
    <2>2. \E point \in {"returned", "planning"} : Goto(Main, point)
      BY <1>2 DEF LoopLeft, LoopContinued
    <2>3. pc'[Main] \notin {"undoNext", "undoing"} /\ \A u \in UndoIds : pc'[u] = "idle"
      BY <2>1, <2>2, MainNotId DEF Goto, TypeOK, IInv, Flight, Ids
    <2> QED
      BY <2>1, <2>3, RollbackFrame DEF Rollback, RolledBackBriefly
  <1> QED
    BY <1>1, <1>2 DEF Continue

LEMMA BoundaryRollback ==
  ASSUME IInv, Rollback, NEW c \in Coroutines, Boundary(c)
  PROVE  Rollback'
  <1> TypeOK
    BY DEF IInv
  <1>1. CASE pc[c] \in ControlPoints /\ Continue(c)
    BY <1>1, ContinueRollback
  <1>2. CASE ControlsCancel(c) \/ ControlsPause(c) \/ PauseWait(c) \/ PauseLeft(c)
    <2>1. /\ snap'.completed = snap.completed
          /\ \A u \in UndoIds : snap'.tstatus[u] = snap.tstatus[u]
      <3>1. CASE ControlsCancel(c)
        <4>1. \A u \in UndoIds : u \in Ids /\ u \notin Unfinished
          BY GraphAssumption DEF TypeOK, WorkflowSnapshot, Unfinished, Ids
        <4> QED
          BY <3>1, <4>1 DEF ControlsCancel, Save, TypeOK, WorkflowSnapshot
      <3>2. CASE ControlsPause(c) \/ PauseLeft(c)
        BY <3>2 DEF ControlsPause, PauseLeft, Save, TypeOK, WorkflowSnapshot
      <3>3. CASE PauseWait(c)
        BY <3>3 DEF PauseWait
      <3> QED
        BY <1>2, <3>1, <3>2, <3>3
    <2>2. PICK point \in ControlPoints : Goto(c, point) /\ pc[c] \in ControlPoints
      BY <1>2 DEF ControlsCancel, ControlsPause, PauseWait, PauseLeft, AtBoundary, ControlPoints
    <2>3. snap.status # "rolled_back" /\ disk.status # "rolled_back"
      <3>1. CASE c \in Ids
        BY <2>2, <3>1, NotRolledBack DEF ControlPoints
      <3>2. CASE c = Main
        BY <2>2, <3>2 DEF ControlPoints, Rollback, RolledBackBriefly
      <3> QED
        BY <3>1, <3>2 DEF Coroutines
    <2>4. snap'.status # "rolled_back" /\ (disk' = disk \/ disk'.status # "rolled_back")
      <3>1. CASE ControlsCancel(c)
        BY <3>1 DEF ControlsCancel, Save, TypeOK, WorkflowSnapshot
      <3>2. CASE ControlsPause(c) \/ PauseLeft(c)
        BY <3>2 DEF ControlsPause, PauseLeft, Save, TypeOK, WorkflowSnapshot
      <3>3. CASE PauseWait(c)
        BY <2>3, <3>3 DEF PauseWait
      <3> QED
        BY <1>2, <3>1, <3>2, <3>3
    <2>5. cursor' = cursor
      BY <1>2 DEF ControlsCancel, ControlsPause, PauseWait, PauseLeft
    <2>6. CASE c \in Ids
      BY <2>1, <2>2, <2>4, <2>5, <2>6, TaskMoveRollback DEF ControlPoints
    <2>7. CASE c = Main
      <3>1. pc'[Main] = point /\ \A u \in UndoIds : pc'[u] = pc[u]
        BY <2>2, <2>7, MainNotId DEF Goto, TypeOK, Ids
      <3> QED
        BY <2>1, <2>2, <2>4, <2>5, <3>1, UndoUntouched DEF ControlPoints
    <2> QED
      BY <2>6, <2>7 DEF Coroutines
  <1> QED
    BY <1>1, <1>2
       DEF Boundary, ControlsPass, CancelCheckpointed, PauseCancelled, ResumeCheckpointed,
           AtBoundary, ControlPoints


LEMMA TaskStepRollback ==
  ASSUME IInv, Rollback, NEW t \in Ids, TaskStep(t)
  PROVE  Rollback'
  <1> TypeOK /\ t \in Coroutines /\ pc[t] # "idle"
    BY MainNotId
       DEF IInv, TaskStep, AgentSucceeds, AgentFails, SuccessSaved, FailureRecorded,
           RetryScheduled, RetryReleased, LoopExhausted, FailureSaved
  <1> snap.status # "rolled_back" /\ disk.status # "rolled_back" /\ t \notin UndoIds \ {t}
    BY NotRolledBack
  <1>1. cursor' = cursor /\ disk' \in {disk, snap, snap'}
    BY DEF TaskStep, AgentSucceeds, AgentFails, SuccessSaved, FailureRecorded, RetryScheduled,
           RetryReleased, LoopExhausted, FailureSaved, Save, Keep
  <1>2. CASE AgentSucceeds(t)
    <2>1. /\ snap'.completed = Mark(snap.completed, t) /\ snap'.status = snap.status
          /\ snap'.tstatus = [snap.tstatus EXCEPT ![t] = "success"]
          /\ Goto(t, "saving")
      BY <1>2 DEF AgentSucceeds, Save, TypeOK, WorkflowSnapshot
    <2>2. snap.tstatus \in [Ids -> TaskStatus] /\ UndoIds \subseteq Ids
      BY DEF TypeOK, WorkflowSnapshot, Ids
    <2> QED
      BY <1>1, <2>1, <2>2, TaskMoveRollback
  <1>3. CASE SuccessSaved(t)
    <2>1. /\ snap'.completed = snap.completed /\ snap'.status = snap.status
          /\ snap'.tstatus = snap.tstatus
      BY <1>3 DEF SuccessSaved, DynamicTasks, TypeOK, WorkflowSnapshot
    <2>2. \E point \in {"done", "failing"} : Goto(t, point)
      BY <1>3 DEF SuccessSaved, DynamicTasks
    <2>3. t \in UndoIds => snap.tstatus[t] = "success"
      BY <1>3 DEF SuccessSaved, Rollback, UndoPoints
    <2> QED
      BY <1>1, <2>1, <2>2, <2>3, TaskMoveRollback
  <1>4. CASE AgentFails(t) \/ RetryReleased(t)
    <2>1. snap' = snap /\ \E point \in {"failing", "top"} : Goto(t, point)
      BY <1>4 DEF AgentFails, RetryReleased
    <2> QED
      BY <1>1, <2>1, TaskMoveRollback
  <1>5. CASE FailureSaved(t)
    <2>1. snap' = snap /\ Goto(t, "done") /\ (t \in UndoIds => snap.tstatus[t] = "failed")
      BY <1>5 DEF FailureSaved, Rollback, UndoPoints
    <2> QED
      BY <1>1, <2>1, TaskMoveRollback
  <1>6. CASE FailureRecorded(t) \/ RetryScheduled(t) \/ LoopExhausted(t)
    <2>1. /\ snap'.completed = snap.completed /\ snap'.status = snap.status
          /\ \E s : snap'.tstatus \in {snap.tstatus, [snap.tstatus EXCEPT ![t] = s]}
      <3>1. CASE FailureRecorded(t)
        BY <1>6, <3>1 DEF FailureRecorded, TypeOK, WorkflowSnapshot
      <3>2. CASE RetryScheduled(t)
        BY <1>6, <3>2 DEF RetryScheduled, Save, TypeOK, WorkflowSnapshot
      <3>3. CASE LoopExhausted(t)
        <4>1. snap' = snap \/ snap' = [snap EXCEPT !.tstatus[t] = "failed", !.failed = @ \cup {t}]
          BY <3>3 DEF LoopExhausted, Save, Keep
        <4> QED
          BY <4>1 DEF TypeOK, WorkflowSnapshot
      <3> QED
        BY <1>6, <3>1, <3>2, <3>3
    <2>2. \/ \E point \in {"top", "retrying"} : Goto(t, point)
          \/ Goto(t, "closing") /\ snap'.tstatus[t] = "failed"
          \/ Goto(t, "done") /\ snap'.tstatus[t] = "success"
      <3>1. CASE FailureRecorded(t) \/ RetryScheduled(t)
        BY <3>1 DEF FailureRecorded, RetryScheduled
      <3>2. CASE LoopExhausted(t)
        <4>1. CASE snap.tstatus[t] = "success"
          BY <3>2, <4>1 DEF LoopExhausted, Keep
        <4>2. CASE snap.tstatus[t] # "success"
          <5>1. snap' = [snap EXCEPT !.tstatus[t] = "failed", !.failed = @ \cup {t}]
            BY <3>2, <4>2 DEF LoopExhausted, Save
          <5> QED
            BY <3>2, <4>2, <5>1 DEF LoopExhausted, TypeOK, WorkflowSnapshot
        <4> QED
          BY <4>1, <4>2
      <3> QED
        BY <1>6, <3>1, <3>2
    <2>3. \A u \in UndoIds \ {t} : snap'.tstatus[u] = snap.tstatus[u]
      BY <2>1 DEF TypeOK, WorkflowSnapshot, Ids
    <2> QED
      BY <1>1, <2>1, <2>2, <2>3, TaskMoveRollback
  <1> QED
    BY <1>2, <1>3, <1>4, <1>5, <1>6 DEF TaskStep

\* Before the next turn of the loop, all the tasks already passed have been undone.
LEMMA UnwoundBetween ==
  ASSUME Rollback, pc[Main] = "undoNext", NEW i \in 1..Len(snap.completed), i > cursor,
         snap.completed[i] \in Undoable
  PROVE  Over(UndoOf[snap.completed[i]])
  BY DEF Rollback, Unwound

LEMMA UndoNextRollback ==
  ASSUME IInv, Rollback, UndoNext
  PROVE  Rollback'
  <1> TypeOK /\ disk' = disk /\ pc[Main] = "undoNext"
    BY DEF IInv, UndoNext
  <1>1. cursor \in 1..Len(snap.completed) /\ cursor' = cursor - 1
    BY LenProperties DEF UndoNext, TypeOK, WorkflowSnapshot
  <1>2. \A u \in UndoIds : pc[u] = "idle" /\ u \in Ids
    BY DEF IInv, Flight, Ids
  <1>3. snap.status # "rolled_back" /\ disk.status # "rolled_back"
    BY DEF Rollback, RolledBackBriefly
  <1>4. CASE Goto(Main, "raised") /\ UNCHANGED snap
    <2>1. pc'[Main] = "raised" /\ \A u \in UndoIds : pc'[u] = "idle"
      BY <1>2, <1>4, MainNotId DEF Goto, TypeOK
    <2> QED
      BY <1>3, <1>4, <2>1, RollbackFrame
  <1>5. CASE Visited \in snap.plan \ Undoable /\ UNCHANGED <<snap, pc>>
    <2>1. \A i \in 1..Len(snap.completed) :
            i > cursor' /\ snap.completed[i] \in Undoable => i > cursor
      BY <1>1, <1>5 DEF Visited
    <2>2. Unwound'
      BY <1>5, <2>1, UnwoundBetween DEF Unwound, Over
    <2> QED
      BY <1>3, <1>5, <2>2 DEF Rollback, UndoPoints, Over, RolledBackBriefly, RollbackComplete
  <1>6. CASE /\ Visited \in snap.plan \cap Undoable
             /\ snap' = [snap EXCEPT !.tstatus[UndoOf[Visited]] = "pending",
                                     !.attempts[UndoOf[Visited]] = 0]
             /\ pc' = [pc EXCEPT ![UndoOf[Visited]] = "top", ![Main] = "undoing"]
    <2> DEFINE undo == UndoOf[Visited]
    <2>1. undo \in UndoIds /\ undo \in Ids /\ undo # Main
      BY <1>6, GraphAssumption DEF Ids
    <2>2. /\ snap'.completed = snap.completed /\ snap'.status = snap.status
          /\ \A u \in UndoIds : u # undo => snap'.tstatus[u] = snap.tstatus[u]
      BY <1>2, <1>6, <2>1 DEF TypeOK, WorkflowSnapshot
    <2>3. /\ pc'[Main] = "undoing" /\ pc'[undo] = "top"
          /\ \A u \in UndoIds : u # undo => pc'[u] = "idle"
      BY <1>2, <1>6, <2>1, MainNotId DEF TypeOK
    <2>4. Unwound'
      <3> SUFFICES ASSUME NEW i \in 1..Len(snap.completed), i > cursor',
                          snap.completed[i] \in Undoable
                   PROVE  \/ snap'.tstatus[UndoOf[snap.completed[i]]] \in {"success", "failed"}
                          \/ pc'[UndoOf[snap.completed[i]]] # "idle"
        BY <2>2, <2>3 DEF Unwound, Over
      <3>1. CASE UndoOf[snap.completed[i]] = undo
        BY <2>3, <3>1
      <3>2. CASE UndoOf[snap.completed[i]] # undo
        <4>1. i > cursor
          BY <1>1, <3>2 DEF Visited
        <4>2. Over(UndoOf[snap.completed[i]])
          BY <4>1, UnwoundBetween
        <4> QED
          BY <2>2, <3>2, <4>2, GraphAssumption DEF Over
      <3> QED
        BY <3>1, <3>2
    <2>5. UndoPoints'
      BY <2>3 DEF UndoPoints
    <2> QED
      BY <1>3, <2>2, <2>4, <2>5 DEF Rollback, RolledBackBriefly, RollbackComplete
  <1> QED
    BY <1>4, <1>5, <1>6 DEF UndoNext

LEMMA UndoDoneRollback ==
  ASSUME IInv, Rollback, UndoDone
  PROVE  Rollback'
  <1> TypeOK /\ snap' = snap /\ disk' = disk /\ cursor' = cursor /\ pc[Main] = "undoing"
    BY DEF IInv, UndoDone
  <1>1. PICK u \in UndoIds :
          pc[u] = "done" /\ pc' = [pc EXCEPT ![u] = "idle", ![Main] = "undoNext"]
    BY DEF UndoDone
  <1>2. u \in Ids /\ Over(u) /\ \A t \in Ids : pc[t] # "idle" => t = u
    BY <1>1 DEF Rollback, UndoPoints, IInv, Flight, Ids
  <1>3. pc'[Main] = "undoNext" /\ \A t \in Ids : pc'[t] = "idle"
    BY <1>1, <1>2, MainNotId DEF TypeOK
  <1>4. Unwound'
    <2> SUFFICES ASSUME NEW i \in 1..Len(snap.completed), i > cursor, snap.completed[i] \in Undoable
                 PROVE  Over(UndoOf[snap.completed[i]])
      BY DEF Unwound, Over
    <2>1. UndoOf[snap.completed[i]] \in Ids
      BY GraphAssumption DEF Ids
    <2> QED
      BY <1>2, <2>1 DEF Rollback, Unwound
  <1>5. UndoPoints' /\ snap.status # "rolled_back"
    BY <1>3 DEF UndoPoints, Ids, Rollback, RolledBackBriefly
  <1> QED
    BY <1>4, <1>5 DEF Rollback, RolledBackBriefly, RollbackComplete


LEMMA MainStepRollback ==
  ASSUME IInv, Rollback, MainStep
  PROVE  Rollback'
  <1> TypeOK /\ \A u \in UndoIds : u \in Ids
    BY DEF IInv, Ids
  <1>1. CASE Started \/ BatchSettled \/ Ended
    <2>1. /\ snap' = snap /\ disk' = disk /\ cursor' = cursor
          /\ pc[Main] \in {"starting", "settling", "ending"}
          /\ \E point \in {"top", "returned"} : Goto(Main, point)
      BY <1>1 DEF Started, BatchSettled, Ended
    <2>2. pc'[Main] \notin {"undoNext", "undoing"} /\ \A u \in UndoIds : pc'[u] = pc[u]
      BY <2>1, MainNotId DEF Goto, TypeOK
    <2> QED
      BY <2>1, <2>2, UndoUntouched DEF Rollback, RolledBackBriefly
  <1>2. CASE PlanBatch
    <2>1. PICK S \in SUBSET snap.plan, s \in WorkflowRunStatus \ {"rolled_back"} :
            snap' = [WithSkipped(S) EXCEPT !.status = s] /\ disk' \in {disk, snap'} /\ cursor' = cursor
      BY <1>2, FinalRunStatusType DEF PlanBatch, Save, WorkflowRunStatus
    <2>2. pc'[Main] \in {"ending", "scheduling"} /\ \A u \in UndoIds : pc'[u] = "idle"
      BY <1>2, MainNotId DEF PlanBatch, Goto, TypeOK, IInv, Flight
    <2>3. snap'.status = s
      BY <2>1 DEF WithSkipped, TypeOK, WorkflowSnapshot
    <2> QED
      BY <2>1, <2>2, <2>3, RollbackFrame
  <1>3. CASE Dispatch
    <2>1. PICK batch \in SUBSET Tasks :
            /\ snap' = [snap EXCEPT !.status = "running", !.current = batch] /\ disk' = disk
            /\ pc' = [c \in Coroutines |-> IF c \in batch THEN "top"
                                           ELSE IF c = Main THEN "batch" ELSE pc[c]]
      <3>1. \A batch \in Batches(ReadyTasks(dagDone)) : batch \in SUBSET Tasks
        BY DEF Batches, ReadyTasks, TypeOK, WorkflowSnapshot
      <3> QED
        BY <1>3, <3>1 DEF Dispatch
    <2>2. Main \notin batch /\ \A u \in UndoIds : u \notin batch
      BY MainNotId, GraphAssumption DEF Ids
    <2>3. pc'[Main] = "batch" /\ \A u \in UndoIds : pc'[u] = "idle"
      BY <1>3, <2>1, <2>2, MainNotId DEF Dispatch, IInv, Flight
    <2>4. snap'.status = "running" /\ disk'.status # "rolled_back"
      BY <2>1 DEF TypeOK, WorkflowSnapshot, Rollback, RolledBackBriefly
    <2> QED
      BY <2>3, <2>4, RollbackFrame
  <1>4. CASE BatchGathered
    <2>1. snap' = [snap EXCEPT !.current = {}] /\ disk' \in {disk, snap'} /\ pc[Main] = "batch"
      BY <1>4 DEF BatchGathered, Save
    <2>2. snap'.status # "rolled_back"
      BY <2>1 DEF TypeOK, WorkflowSnapshot, Rollback, RolledBackBriefly
    <2>3. pc'[Main] = "settling" /\ \A u \in UndoIds : pc'[u] = "idle"
      BY <1>4, MainNotId DEF BatchGathered, IInv, TypeOK, WorkflowSnapshot, Flight, Ids
    <2> QED
      BY <2>1, <2>2, <2>3, RollbackFrame
  <1>5. CASE BatchFailed \/ FailurePropagated
    <2>1. /\ \E s \in WorkflowRunStatus \ {"rolled_back"} :
               snap' = [snap EXCEPT !.status = s] /\ disk' \in {disk, snap'}
          /\ \E point \in {"rollback", "ending"} : Goto(Main, point)
          /\ pc[Main] \in {"settling", "rolledBack"}
      BY <1>5, FinalRunStatusType DEF BatchFailed, FailurePropagated, Save, WorkflowRunStatus
    <2>2. snap'.status # "rolled_back" /\ (disk' = disk \/ disk'.status # "rolled_back")
      BY <2>1 DEF TypeOK, WorkflowSnapshot
    <2>3. pc'[Main] \in {"rollback", "ending"} /\ \A u \in UndoIds : pc'[u] = "idle"
      BY <2>1, MainNotId DEF Goto, TypeOK, IInv, Flight
    <2> QED
      BY <2>2, <2>3, RollbackFrame
  <1>6. CASE RollbackStarted
    <2>1. /\ snap' = snap /\ disk' = disk /\ cursor' = Len(snap.completed)
          /\ pc[Main] = "rollback" /\ Goto(Main, "undoNext")
      BY <1>6 DEF RollbackStarted
    <2>2. pc'[Main] = "undoNext" /\ \A u \in UndoIds : pc'[u] = "idle"
      BY <2>1, MainNotId DEF Goto, TypeOK, IInv, Flight
    <2>3. ~(\E i \in 1..Len(snap.completed) : i > cursor')
      BY <2>1, LenProperties DEF TypeOK, WorkflowSnapshot
    <2> QED
      BY <2>1, <2>2, <2>3
         DEF Rollback, Unwound, UndoPoints, RolledBackBriefly, RollbackComplete
  <1>7. CASE RolledBack
    <2>1. /\ snap' = [snap EXCEPT !.status = "rolled_back"] /\ disk' = disk
          /\ pc[Main] = "undoNext" /\ cursor = 0 /\ Goto(Main, "rolledBack")
      BY <1>7 DEF RolledBack
    <2>2. pc'[Main] = "rolledBack" /\ \A u \in UndoIds : pc'[u] = "idle"
      BY <2>1, MainNotId DEF Goto, TypeOK, IInv, Flight
    <2>3. snap'.completed = snap.completed /\ snap'.tstatus = snap.tstatus
      BY <2>1 DEF TypeOK, WorkflowSnapshot
    <2>4. \A t \in Range(snap.completed) \cap Undoable : Over(UndoOf[t])
      <3>1. \A i \in 1..Len(snap.completed) : i > cursor
        BY <2>1
      <3>2. \A t \in Range(snap.completed) : \E i \in 1..Len(snap.completed) : snap.completed[i] = t
        BY LenProperties DEF Range, TypeOK, WorkflowSnapshot
      <3> QED
        BY <2>1, <3>1, <3>2, UnwoundBetween
    <2>5. RollbackComplete'
      BY <2>3, <2>4 DEF RollbackComplete, Over
    <2> QED
      BY <2>1, <2>2, <2>5 DEF Rollback, Unwound, UndoPoints, RolledBackBriefly
  <1> QED
    BY <1>1, <1>2, <1>3, <1>4, <1>5, <1>6, <1>7, UndoNextRollback, UndoDoneRollback DEF MainStep

LEMMA OutsideRollback ==
  ASSUME IInv, Rollback, Restarted \/ Environment
  PROVE  Rollback'
  <1> TypeOK /\ \A u \in UndoIds : u \in Ids
    BY DEF IInv, Ids
  <1>1. CASE Pause \/ ResumePaused \/ (\E k \in Clients : Cancel(k))
    <2>1. pc' = pc \/ pc' = Wake
      BY <1>1 DEF Pause, ResumePaused, Cancel
    <2>2. \A c \in Coroutines : pc'[c] = pc[c] \/ (pc[c] = "waiting" /\ pc'[c] = "woken")
      BY <2>1 DEF Wake
    <2>3. snap' = snap /\ cursor' = cursor
      BY <1>1 DEF Pause, ResumePaused, Cancel
    <2>4. disk'.status # "rolled_back"
      <3>1. disk' = disk \/ disk' = Requested(Loaded)
        BY <1>1 DEF Pause, ResumePaused, Cancel
      <3> QED
        BY <3>1, LoadedType DEF Requested, WorkflowSnapshot, Rollback, RolledBackBriefly
    <2>5. Unwound' /\ UndoPoints'
      <3>1. \A t \in Undoable : UndoOf[t] \in Coroutines
        BY GraphAssumption, MainNotId
      <3> QED
        BY <2>2, <2>3, <3>1, MainNotId DEF Rollback, Unwound, Over, UndoPoints
    <2> QED
      BY <2>2, <2>3, <2>4, <2>5, MainNotId DEF Rollback, RolledBackBriefly, RollbackComplete
  <1>2. ASSUME NEW s \in WorkflowSnapshot, Launch(s), pc[Main] \notin {"batch", "undoing"}
        PROVE  Rollback'
    <2>1. snap'.status = "running" /\ disk' \in {disk, snap'}
      BY <1>2 DEF Launch, Save, WorkflowSnapshot
    <2>2. pc'[Main] = "starting" /\ \A u \in UndoIds : pc'[u] = "idle"
      BY <1>2, MainNotId DEF Launch, Goto, TypeOK, IInv, Flight
    <2> QED
      BY <2>1, <2>2, RollbackFrame
  <1>3. CASE Resume
    BY <1>2, <1>3, LoadedType DEF Resume, Quiescent
  <1>4. CASE Restarted
    BY <1>2, <1>4 DEF Restarted, TypeOK
  <1>5. CASE Restart
    <2>1. pc'[Main] = "restarting" /\ \A u \in UndoIds : pc'[u] = "idle"
      BY <1>5, MainNotId DEF Restart, Quiescent, Goto, TypeOK, IInv, Flight
    <2>2. snap'.status = Loaded.status /\ disk' \in {disk, snap'}
      BY <1>5, LoadedType DEF Restart, Save, Reset, WorkflowSnapshot
    <2>3. Loaded.status # "rolled_back"
      BY <1>5 DEF Restart, Quiescent, Loaded, Active, Rollback, RolledBackBriefly
    <2> QED
      BY <2>1, <2>2, <2>3, RollbackFrame
  <1>6. CASE Crash
    <2>1. snap' = disk /\ disk' = disk /\ pc'[Main] = "down" /\ \A u \in UndoIds : pc'[u] = "idle"
      BY <1>6, MainNotId DEF Crash, Recovered
    <2> QED
      BY <2>1, RollbackFrame DEF Rollback, RolledBackBriefly
  <1>7. ASSUME NEW t \in Ids, TaskFault(t) PROVE Rollback'
    <2>1. snap' = snap /\ disk' = disk /\ cursor' = cursor /\ pc[t] # "idle"
      BY <1>7 DEF TaskFault, Dropped
    <2>2. CASE Goto(t, "failing") \/ (t \in Tasks /\ Goto(t, "done"))
      <3>1. t \in Tasks => t \notin UndoIds
        BY GraphAssumption
      <3> QED
        BY <2>1, <2>2, <3>1, NotRolledBack, TaskMoveRollback
    <2>3. CASE t \in UndoIds /\ pc' = [pc EXCEPT ![t] = "idle", ![Main] = "raised"]
      <3>1. pc[Main] = "undoing" /\ \A u \in UndoIds : pc[u] # "idle" => u = t
        <4>1. t \notin snap.current
          BY <2>3, GraphAssumption DEF TypeOK, WorkflowSnapshot
        <4> QED
          BY <2>1, <4>1 DEF IInv, Flight
      <3>2. pc'[Main] = "raised" /\ \A u \in UndoIds : pc'[u] = "idle"
        BY <2>3, <3>1, MainNotId DEF TypeOK
      <3> QED
        BY <2>1, <3>2, NotRolledBack, RollbackFrame
    <2> QED
      BY <1>7, <2>2, <2>3 DEF TaskFault
  <1>8. CASE MainFault
    <2>1. snap' = snap /\ disk' = disk /\ pc[Main] \notin {"batch", "undoing", "raised"}
      BY <1>8 DEF MainFault, Dropped
    <2>2. PICK point \in {"leaked", "raised"} :
            Goto(Main, point) /\ (point = "leaked" => pc[Main] = "starting")
      BY <1>8 DEF MainFault
    <2>3. pc'[Main] = point /\ \A u \in UndoIds : pc'[u] = "idle"
      BY <2>1, <2>2, MainNotId DEF Goto, TypeOK, IInv, Flight
    <2> QED
      BY <2>1, <2>2, <2>3, RollbackFrame DEF Rollback, RolledBackBriefly
  <1>9. ASSUME NEW k \in Clients, ClientFault(k) PROVE Rollback'
    BY <1>9 DEF ClientFault, Dropped, Rollback, Unwound, Over, UndoPoints, RolledBackBriefly,
                RollbackComplete
  <1> QED
    BY <1>1, <1>3, <1>4, <1>5, <1>6, <1>7, <1>8, <1>9 DEF Environment

\* No copy on its way to the store says ROLLED_BACK.
CopiesBrief == \A w \in writes : w.what.status # "rolled_back"

LEMMA StoreRollback ==
  ASSUME IInv, Rollback, CopiesBrief, NEW c \in Writers, StoreStep(c)
  PROVE  Rollback'
  <1>1. /\ UNCHANGED <<snap, pc, cursor>>
        /\ disk' = disk \/ \E w \in writes : disk' = w.what
    BY DEF StoreStep, Dumped, Landed
  <1>2. disk'.status # "rolled_back"
    BY <1>1 DEF Rollback, RolledBackBriefly, CopiesBrief
  <1> QED
    BY <1>1, <1>2 DEF Rollback, Unwound, Over, UndoPoints, RolledBackBriefly, RollbackComplete

LEMMA StepCopiesBrief ==
  ASSUME IInv, Stored, Rollback, CopiesBrief, [Next]_vars
  PROVE  CopiesBrief'
  <1> SUFFICES ASSUME NEW w \in writes' PROVE w.what.status # "rolled_back"
    BY DEF CopiesBrief
  <1>1. \A s \in {snap, disk} : Requested(s).status = "cancel_requested"
    BY DEF Requested, IInv, TypeOK, WorkflowSnapshot
  <1>2. ASSUME NEW c \in opening, c \notin Clients PROVE snap.status # "rolled_back"
    <2>1. c \in Coroutines /\ pc[c] \in SavePoints
      BY <1>2 DEF IInv, TypeOK, Writers, Stored, Parked, Free
    <2>2. CASE c \in Ids
      BY <2>1, <2>2, NotRolledBack DEF SavePoints
    <2>3. CASE c = Main
      BY <2>1, <2>3 DEF SavePoints, Rollback, RolledBackBriefly
    <2> QED
      BY <2>1, <2>2, <2>3 DEF Coroutines
  <1>3. TypeOK
    BY DEF IInv
  <1> QED
    BY <1>1, <1>2, <1>3, WritesStep DEF CopiesBrief

LEMMA StepRollback ==
  IInv /\ Stored /\ Rollback /\ CopiesBrief /\ [Next]_vars => Rollback' /\ CopiesBrief'
  <1> SUFFICES ASSUME IInv, Stored, Rollback, CopiesBrief, [Next]_vars PROVE Rollback'
    BY StepCopiesBrief
  <1>1. CASE UNCHANGED vars
    BY <1>1 DEF vars, Rollback, Unwound, Over, UndoPoints, RolledBackBriefly, RollbackComplete
  <1> QED
    BY <1>1, BoundaryRollback, TaskStepRollback, MainStepRollback, OutsideRollback,
       StoreRollback
       DEF Next, Engine

LEMMA RollbackAlways == Spec => []Rollback
  <1>1. Init => CopiesBrief
    BY DEF Init, CopiesBrief
  <1> QED
    BY <1>1, InitRollback, StepRollback, Invariance, StoredAlways, PTL DEF Spec

\* When a rollback says it is through, every completed task with a rollback task has had it
\* run to an end, whatever faults, crashes and requests met the rollback on its way.
THEOREM RollbackIsComplete == Spec => []RollbackComplete
  <1>1. IInv /\ Rollback => RollbackComplete
    BY DEF Rollback
  <1> QED
    BY <1>1, RollbackAlways, Invariance, PTL


\* Only the loop of _rollback starts a rollback task.
LEMMA UndoStart ==
  ASSUME IInv, [Next]_vars, NEW u \in UndoIds, pc[u] = "idle", pc'[u] = "top"
  PROVE  UndoNext /\ Visited \in Undoable /\ u = UndoOf[Visited] /\ cursor > 0
  <1> TypeOK /\ u \in Ids /\ u # Main /\ u \in Coroutines /\ u \notin Tasks
    BY MainNotId, GraphAssumption DEF IInv, Ids
  <1>1. ASSUME NEW c \in Coroutines, Boundary(c) PROVE FALSE
    <2>1. pc[c] \in ControlPoints /\ \E point : Goto(c, point)
      BY <1>1 DEF Boundary, ControlsPass, CancelCheckpointed, PauseCancelled, ResumeCheckpointed,
                  ControlsCancel, ControlsPause, PauseWait, PauseLeft, AtBoundary, ControlPoints,
                  Continue, AttemptRefused, AttemptStarted, LoopLeft, LoopContinued
    <2> QED
      BY <2>1, MainNotId DEF Goto, TypeOK, ControlPoints
  <1>2. ASSUME NEW t \in Ids, TaskStep(t) \/ TaskFault(t) PROVE FALSE
    <2>1. /\ pc[t] # "idle"
          /\ \/ \E point : Goto(t, point)
             \/ pc' = [pc EXCEPT ![t] = "idle", ![Main] = "raised"]
      BY <1>2 DEF TaskStep, AgentSucceeds, AgentFails, SuccessSaved, DynamicTasks, FailureRecorded,
                  RetryScheduled, RetryReleased, LoopExhausted, FailureSaved, TaskFault
    <2> QED
      BY <2>1, MainNotId DEF Goto, TypeOK
  <1>3. CASE MainStep
    <2>1. CASE Dispatch \/ BatchGathered
      <3>1. u \notin snap.current /\ \A b \in Batches(ReadyTasks(dagDone)) : u \notin b
        BY DEF Batches, ReadyTasks, TypeOK, WorkflowSnapshot
      <3> QED
        BY <2>1, <3>1 DEF Dispatch, BatchGathered
    <2>2. CASE UndoDone
      BY <2>2, MainNotId DEF UndoDone, TypeOK
    <2>3. CASE UndoNext
      <3>1. ~Goto(Main, "raised") /\ pc' # pc
        BY MainNotId DEF Goto, TypeOK
      <3>2. /\ Visited \in Undoable
            /\ pc' = [pc EXCEPT ![UndoOf[Visited]] = "top", ![Main] = "undoing"]
        BY <2>3, <3>1 DEF UndoNext
      <3> QED
        BY <2>3, <3>2 DEF UndoNext, TypeOK
    <2>4. CASE ~(Dispatch \/ BatchGathered \/ UndoNext \/ UndoDone)
      <3>1. \E point : Goto(Main, point)
        BY <1>3, <2>4
           DEF MainStep, Started, PlanBatch, BatchSettled, BatchFailed, RollbackStarted,
               RolledBack, FailurePropagated, Ended
      <3> QED
        BY <3>1, MainNotId DEF Goto, TypeOK
    <2> QED
      BY <2>1, <2>2, <2>3, <2>4
  <1>4. CASE Restarted \/ Resume \/ Restart \/ MainFault
    <2>1. \E point : Goto(Main, point)
      BY <1>4 DEF Restarted, Resume, Restart, MainFault, Launch
    <2> QED
      BY <2>1, MainNotId DEF Goto, TypeOK
  <1>5. CASE Pause \/ ResumePaused \/ (\E k \in Clients : Cancel(k)) \/ Crash \/ UNCHANGED vars
    BY <1>5, MainNotId DEF Pause, ResumePaused, Cancel, Wake, Crash, vars
  <1>6. CASE (\E c \in Writers : StoreStep(c)) \/ (\E k \in Clients : ClientFault(k))
    BY <1>6 DEF StoreStep, Dumped, Landed, ClientFault
  <1> QED
    BY <1>1, <1>2, <1>3, <1>4, <1>5, <1>6 DEF Next, Engine, Environment

\* When every task has a rollback task of its own, which the default id "rollback-" and the
\* id of the task gives it, tasks are undone in the reverse of the order they completed in.
THEOREM RollbackInReverse ==
  ASSUME \A s, t \in Undoable : UndoOf[s] = UndoOf[t] => s = t
  PROVE  Spec => RollbackReversed
  <1>1. ASSUME IInv, Recorded, Rollback, [Next]_vars,
               NEW i \in 1..Len(snap.completed), NEW j \in 1..(i - 1),
               snap.completed[i] \in Undoable, snap.completed[j] \in Undoable,
               pc[UndoOf[snap.completed[j]]] = "idle", pc'[UndoOf[snap.completed[j]]] = "top"
        PROVE  Over(UndoOf[snap.completed[i]])
    <2>1. UndoOf[snap.completed[j]] \in UndoIds
      BY <1>1, GraphAssumption
    <2>2. /\ pc[Main] = "undoNext" /\ cursor > 0
          /\ Visited \in Undoable /\ UndoOf[snap.completed[j]] = UndoOf[Visited]
      BY <1>1, <2>1, UndoStart DEF UndoNext
    <2>3. snap.completed[j] = snap.completed[cursor]
      BY <1>1, <2>2 DEF Visited
    <2>4. Len(snap.completed) \in Nat /\ cursor \in 1..Len(snap.completed)
      BY <1>1, <2>2, LenProperties DEF IInv, TypeOK, WorkflowSnapshot
    <2>5. j \in 1..Len(snap.completed) /\ j < i
      BY <2>4
    <2>6. j = cursor
      BY <1>1, <2>3, <2>4, <2>5 DEF Recorded, Planned, Distinct
    <2> QED
      BY <1>1, <2>2, <2>5, <2>6, UnwoundBetween
  <1>2. IInv /\ Recorded /\ Rollback /\ [Next]_vars =>
          [\A i \in 1..Len(snap.completed) : \A j \in 1..(i - 1) :
             snap.completed[i] \in Undoable /\ snap.completed[j] \in Undoable
               /\ pc[UndoOf[snap.completed[j]]] = "idle" /\ pc'[UndoOf[snap.completed[j]]] = "top"
               => snap.tstatus[UndoOf[snap.completed[i]]] \in {"success", "failed"}]_vars
    BY <1>1 DEF Over
  <1> QED
    BY <1>2, RollbackAlways, Invariance, Record, PTL DEF Spec, RollbackReversed


=============================================================================
