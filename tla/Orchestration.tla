--------------------------- MODULE Orchestration ---------------------------
(***************************************************************************)
(* The workflow service around the execution engine: the HTTP routes       *)
(* (api/routes/workflows.py), OrchestratorAgent (agent/orchestrator.py)    *)
(* with its planner and learning pass, the engine's control calls and its  *)
(* checkpoints (workflow/engine.py), WorkflowPersistence over the memory   *)
(* store (workflow/persistence.py) and the JSON StateManager               *)
(* (core/state.py).                                                        *)
(*                                                                         *)
(* A process is a coroutine: a workflow w stands for the POST that submits *)
(* it and the background task that runs it, a caller for the later calls.  *)
(* Coroutines are switched at every await on the memory store or on an     *)
(* agent.  What a run does between two checkpoints is module               *)
(* WorkflowEngine's matter; here it is a number of batches and an outcome. *)
(***************************************************************************)
EXTENDS Integers, Sequences, SequencesExt

CONSTANTS Workflows,  \* submitted workflows; w is also its background task
          Callers,    \* clients that control workflows already accepted
          None,       \* no process
          Outcomes,   \* how a run that is not controlled can end
          Batches,    \* bound: checkpoints of a run between start and end
          Metrics,    \* records a learning pass writes into the category
          Limit,      \* records of the category a lookup reads (10_000)
          MaxCalls,   \* bound: control calls
          MaxFaults   \* bound: crashes and store operations that raise

Procs == Workflows \cup Callers

ASSUME OrchestrationAssumption ==
    /\ Workflows \cap Callers = {} /\ None \notin Procs
    /\ {Batches, Metrics, MaxCalls, MaxFaults} \subseteq Nat
    /\ Limit \in Nat \ {0}
    /\ Outcomes # {} /\ Outcomes \subseteq {"SUCCESS", "FAILED", "ESCALATED"}

VARIABLES pc,       \* where each coroutine is
          save,     \* which await of _checkpoint it is in, "no" outside
          on,       \* the workflow it works for
          copy,     \* status of the snapshot object it holds
          found,    \* record its _find_snapshot_record_id returned, 0 for none
          step,     \* batches or metrics it still has to do
          records,  \* active EXECUTION_METRIC records, last updated first
          state,    \* the state file: status per workflow
          active,   \* _active_snapshots: the run whose object is served
          cancels, pauses,  \* _cancel_requests, _pause_requests
          accepted, \* workflows whose POST was answered 202
          history,  \* workflow history: outcome stored per workflow
          lost,     \* accepted workflows a call answered "not found"
          calls, faults

controls == <<cancels, pauses>>
answers == <<accepted, history, lost>>
budget == <<calls, faults>>
vars == <<pc, save, on, copy, found, step, records, state, active, cancels,
          pauses, accepted, history, lost, calls, faults>>

Terminal == {"SUCCESS", "FAILED", "ESCALATED", "CANCELLED"}
Statuses == Terminal \cup {"INITIALIZED", "RUNNING", "PAUSED", "CANCEL_REQUESTED"}
Missing == "missing"

Metric == [id |-> 0, of |-> None, status |-> Missing]
Points == {"new", "seeded", "planning", "start", "turn", "pausing", "waiting",
           "woken", "ending", "learning", "remember", "idle"}
Operations == {"get", "pause", "resume", "cancel"}

-----------------------------------------------------------------------------
(* WorkflowPersistence and StateManager.                                   *)

(* The lookups read the newest Limit records of the category, of any kind, *)
(* and pick the workflow's snapshot among them.                            *)
Window == {i \in DOMAIN records : i <= Limit}
Snapshots(w) == {i \in Window : records[i].of = w}
Latest(w) == records[CHOOSE i \in Snapshots(w) : \A j \in Snapshots(w) : i <= j]

FindRecord(w) == IF Snapshots(w) = {} THEN 0 ELSE Latest(w).id

(* An id nobody has: records are not deleted here.                         *)
NewId == Len(records) + 1

(* store.create, and store.update, which also renews updated_at.           *)
Created(r) == <<r>> \o records
Rewritten(id, status) ==
    LET k == CHOOSE i \in DOMAIN records : records[i].id = id
    IN  <<[records[k] EXCEPT !.status = status]>> \o RemoveAt(records, k)

(* Mutant of Stored: only the state file is read.                          *)
StoredInFile(w) == state[w]

(* load_snapshot: the run's own object, else the record, else the file.    *)
Stored(w) == IF Snapshots(w) # {} THEN Latest(w).status ELSE state[w]

-----------------------------------------------------------------------------
Init ==
    /\ pc = [p \in Procs |-> IF p \in Workflows THEN "new" ELSE "idle"]
    /\ save = [p \in Procs |-> "no"]
    /\ on \in [Procs -> Workflows] /\ \A w \in Workflows : on[w] = w
    /\ \A c \in Callers : on[c] = CHOOSE w \in Workflows : TRUE
    /\ copy = [p \in Procs |-> "INITIALIZED"]
    /\ found = [p \in Procs |-> 0]
    /\ step = [p \in Procs |-> 0]
    /\ records = <<>>
    /\ state = [w \in Workflows |-> Missing]
    /\ active = [w \in Workflows |-> None]
    /\ cancels = {} /\ pauses = {} /\ accepted = {} /\ lost = {}
    /\ history = [w \in Workflows |-> Missing]
    /\ calls = MaxCalls /\ faults = MaxFaults

(* Coroutine p runs from point a; it is not inside _checkpoint.            *)
At(p, a) == pc[p] = a /\ save[p] = "no"
Goto(p, a) == pc' = [pc EXCEPT ![p] = a]

(* _checkpoint is called with p's snapshot in the given status.            *)
Checkpoint(p, status) ==
    /\ copy' = [copy EXCEPT ![p] = status]
    /\ save' = [save EXCEPT ![p] = "find"]

Find(p) ==
    /\ save[p] = "find"
    /\ found' = [found EXCEPT ![p] = FindRecord(on[p])]
    /\ save' = [save EXCEPT ![p] = "store"]
    /\ UNCHANGED <<pc, on, copy, step, records, state, active, controls, answers, budget>>

Store(p) ==
    /\ save[p] = "store"
    /\ records' = IF found[p] = 0
                  THEN Created([id |-> NewId, of |-> on[p], status |-> copy[p]])
                  ELSE Rewritten(found[p], copy[p])
    /\ found' = [found EXCEPT ![p] = 0]
    /\ save' = [save EXCEPT ![p] = "state"]
    /\ UNCHANGED <<pc, on, copy, step, state, active, controls, answers, budget>>

(* The state file is rewritten in place.                                   *)
Flush(p) ==
    /\ save[p] = "state"
    /\ state' = [state EXCEPT ![on[p]] = copy[p]]
    /\ save' = [save EXCEPT ![p] = "no"]
    /\ UNCHANGED <<pc, on, copy, found, step, records, active, controls, answers, budget>>

(* The store raises out of _checkpoint.  Only the first checkpoint of a    *)
(* run ("start") is outside the try whose finally drops the snapshot.      *)
StoreRaises(p) ==
    /\ faults > 0 /\ save[p] \in {"find", "store"}
    /\ faults' = faults - 1
    /\ active' = IF pc[p] \in {"turn", "pausing", "ending"}
                 THEN [active EXCEPT ![on[p]] = None] ELSE active
    /\ Goto(p, "idle")
    /\ save' = [save EXCEPT ![p] = "no"]
    /\ found' = [found EXCEPT ![p] = 0]
    /\ step' = [step EXCEPT ![p] = 0]
    /\ UNCHANGED <<on, copy, records, state, controls, answers, calls>>

-----------------------------------------------------------------------------
(* Mutant of Submit: the task is created before the seed is stored.        *)
SubmitUnseeded(w) ==
    /\ At(w, "new") /\ Goto(w, "planning")
    /\ accepted' = accepted \cup {w}
    /\ UNCHANGED <<save, on, copy, found, step, records, state, active,
                   controls, history, lost, budget>>

(* POST /workflows: the seed is stored before the task exists.             *)
Submit(w) ==
    /\ At(w, "new") /\ Goto(w, "seeded") /\ Checkpoint(w, "INITIALIZED")
    /\ UNCHANGED <<on, found, step, records, state, active, controls, answers, budget>>

Accept(w) ==
    /\ At(w, "seeded") /\ Goto(w, "planning")
    /\ accepted' = accepted \cup {w}
    /\ UNCHANGED <<save, on, copy, found, step, records, state, active,
                   controls, history, lost, budget>>

(* execute_plan up to its first checkpoint.                                *)
Execute(p, w) ==
    /\ active' = [active EXCEPT ![w] = p]
    /\ step' = [step EXCEPT ![p] = Batches]
    /\ Checkpoint(p, "RUNNING")

(* create_plan returns, and the engine is given the plan.                  *)
Planned(w) ==
    /\ At(w, "planning") /\ Goto(w, "start") /\ Execute(w, w)
    /\ UNCHANGED <<on, found, records, state, controls, answers, budget>>

(* It raises: the exception stays in the task nobody awaits.               *)
PlanningFails(w) ==
    /\ At(w, "planning") /\ Goto(w, "idle")
    /\ UNCHANGED <<save, on, copy, found, step, records, state, active,
                   controls, answers, budget>>

-----------------------------------------------------------------------------
(* The engine's loop: controls first, then a batch or the outcome.         *)
Boundary(p) == At(p, "start") \/ At(p, "turn")

(* Mutant of Controlled: a cancelled run keeps the status of the request.  *)
ControlledUnsettled(p) ==
    /\ Boundary(p)
    /\ \/ /\ on[p] \in cancels
          /\ Goto(p, "ending") /\ Checkpoint(p, "CANCEL_REQUESTED")
       \/ /\ on[p] \in pauses \ cancels
          /\ Goto(p, "pausing") /\ Checkpoint(p, "PAUSED")
    /\ UNCHANGED <<on, found, step, records, state, active, controls, answers, budget>>

Controlled(p) ==
    /\ Boundary(p)
    /\ \/ /\ on[p] \in cancels
          /\ Goto(p, "ending") /\ Checkpoint(p, "CANCELLED")
       \/ /\ on[p] \in pauses \ cancels
          /\ Goto(p, "pausing") /\ Checkpoint(p, "PAUSED")
    /\ UNCHANGED <<on, found, step, records, state, active, controls, answers, budget>>

RunBatch(p) ==
    /\ Boundary(p) /\ on[p] \notin cancels \cup pauses
    /\ step[p] > 0 /\ step' = [step EXCEPT ![p] = step[p] - 1]
    /\ Goto(p, "turn") /\ Checkpoint(p, "RUNNING")
    /\ UNCHANGED <<on, found, records, state, active, controls, answers, budget>>

Finish(p) ==
    /\ Boundary(p) /\ on[p] \notin cancels \cup pauses
    /\ \E outcome \in Outcomes : Checkpoint(p, outcome)
    /\ Goto(p, "ending")
    /\ UNCHANGED <<on, found, step, records, state, active, controls, answers, budget>>

(* The resume event is cleared after the checkpoint, then awaited.         *)
Wait(p) ==
    /\ At(p, "pausing") /\ Goto(p, "waiting")
    /\ UNCHANGED <<save, on, copy, found, step, records, state, active,
                   controls, answers, budget>>

(* Mutant of Woken: a run that is cancelled while it waits never returns.  *)
WokenUncancelled(p) ==
    /\ At(p, "woken") /\ on[p] \notin cancels
    /\ Goto(p, "turn") /\ Checkpoint(p, "RUNNING")
    /\ UNCHANGED <<on, found, step, records, state, active, controls, answers, budget>>

(* Woken by a cancel, the run returns as it is: PAUSED.                    *)
Woken(p) ==
    /\ At(p, "woken")
    /\ \/ /\ on[p] \in cancels
          /\ Goto(p, "ending") /\ UNCHANGED <<copy, save>>
       \/ /\ on[p] \notin cancels
          /\ Goto(p, "turn") /\ Checkpoint(p, "RUNNING")
    /\ UNCHANGED <<on, found, step, records, state, active, controls, answers, budget>>

(* Whichever run ends drops the workflow's active snapshot.  Only the      *)
(* orchestrator's own run goes on to learn and to write the history.       *)
End(p) ==
    /\ At(p, "ending")
    /\ active' = [active EXCEPT ![on[p]] = None]
    /\ Goto(p, IF p \in Workflows THEN "learning" ELSE "idle")
    /\ step' = [step EXCEPT ![p] = IF p \in Workflows THEN Metrics ELSE 0]
    /\ UNCHANGED <<save, on, copy, found, records, state, controls, answers, budget>>

(* One record of persist_workflow_evaluation after the other.              *)
Learn(w) ==
    /\ At(w, "learning") /\ step[w] > 0
    /\ records' = Created(Metric)
    /\ step' = [step EXCEPT ![w] = step[w] - 1]
    /\ UNCHANGED <<pc, save, on, copy, found, state, active, controls, answers, budget>>

(* All are written, or one raised and the rest is given up.                *)
Learned(w) ==
    /\ At(w, "learning") /\ Goto(w, "remember")
    /\ \/ step[w] = 0 /\ UNCHANGED faults
       \/ step[w] > 0 /\ faults > 0 /\ faults' = faults - 1
    /\ step' = [step EXCEPT ![w] = 0]
    /\ UNCHANGED <<save, on, copy, found, records, state, active, controls,
                   answers, calls>>

(* _persist_workflow_memory, whose errors are swallowed too.               *)
Remember(w) ==
    /\ At(w, "remember") /\ Goto(w, "idle")
    /\ \/ history' = [history EXCEPT ![w] = copy[w]] /\ UNCHANGED faults
       \/ faults > 0 /\ faults' = faults - 1 /\ UNCHANGED history
    /\ UNCHANGED <<save, on, copy, found, step, records, state, active,
                   controls, accepted, lost, calls>>

-----------------------------------------------------------------------------
(* The control calls.  load_snapshot answers from the active snapshot in   *)
(* the same step, or has to await the store.                               *)
Requested(w, op) ==
    /\ cancels' = IF op = "cancel" THEN cancels \cup {w} ELSE cancels
    /\ pauses' = IF op = "pause" THEN pauses \cup {w} ELSE pauses

(* Caller c goes to point a; setting the event wakes the waiting runs of w. *)
Moved(c, a, w, wakes) ==
    pc' = [q \in Procs |->
             CASE q = c -> a
               [] q # c /\ wakes /\ pc[q] = "waiting" /\ on[q] = w -> "woken"
               [] OTHER -> pc[q]]

(* What the call does with the copy it loaded, whose status is given.      *)
Loaded(c, op, w, status) ==
    \/ /\ status # Missing /\ op \in {"get", "pause"}
       /\ Moved(c, "idle", w, FALSE) /\ Requested(w, op)
       /\ UNCHANGED <<save, copy, step, active, lost>>
    \/ /\ status # Missing /\ op = "cancel"
       /\ Moved(c, "idle", w, TRUE) /\ Requested(w, op)
       /\ Checkpoint(c, "CANCEL_REQUESTED")
       /\ UNCHANGED <<step, active, lost>>
    \/ /\ status \in Terminal /\ op = "resume"
       /\ Moved(c, "idle", w, FALSE)
       /\ UNCHANGED <<save, copy, step, active, lost, controls>>
    \/ /\ status \in Statuses \ Terminal /\ op = "resume"
       /\ cancels' = cancels \ {w} /\ pauses' = pauses \ {w}
       /\ Moved(c, "start", w, TRUE) /\ Execute(c, w) /\ UNCHANGED lost
    \/ /\ status = Missing
       /\ Moved(c, "idle", w, FALSE) /\ Requested(w, op)
       /\ lost' = lost \cup {w} /\ UNCHANGED <<save, copy, step, active>>

Call(c, op, w) ==
    /\ At(c, "idle") /\ calls > 0 /\ w \in accepted
    /\ calls' = calls - 1
    /\ on' = [on EXCEPT ![c] = w]
    /\ \/ active[w] # None /\ Loaded(c, op, w, copy[active[w]])
       \/ /\ active[w] = None
          /\ Moved(c, op, w, op = "cancel") /\ Requested(w, op)
          /\ UNCHANGED <<save, copy, step, active, lost>>
    /\ UNCHANGED <<found, records, state, accepted, history, faults>>

(* The await of the store is over.                                         *)
Read(c) ==
    /\ pc[c] \in Operations
    /\ Loaded(c, pc[c], on[c], Stored(on[c]))
    /\ UNCHANGED <<on, found, records, state, accepted, history, budget>>

-----------------------------------------------------------------------------
(* The server is killed.  A state file torn by it must be removed before   *)
(* the StateManager starts again; nothing restarts the runs.               *)
Crash ==
    /\ faults > 0 /\ faults' = faults - 1
    /\ pc' = [p \in Procs |-> IF pc[p] = "new" THEN "new" ELSE "idle"]
    /\ save' = [p \in Procs |-> "no"]
    /\ copy' = [p \in Procs |-> "INITIALIZED"]
    /\ found' = [p \in Procs |-> 0] /\ step' = [p \in Procs |-> 0]
    /\ active' = [w \in Workflows |-> None]
    /\ cancels' = {} /\ pauses' = {}
    /\ \/ UNCHANGED state
       \/ /\ \E p \in Procs : save[p] = "state"
          /\ state' = [w \in Workflows |-> Missing]
    /\ UNCHANGED <<on, records, answers, calls>>

CheckpointStep(p) == Find(p) \/ Store(p) \/ Flush(p)
RunStep(p) == Controlled(p) \/ RunBatch(p) \/ Finish(p) \/ Wait(p) \/ Woken(p) \/ End(p)
TaskStep(w) == Accept(w) \/ Planned(w) \/ PlanningFails(w) \/ Learn(w)
               \/ Learned(w) \/ Remember(w)

(* What the event loop does on its own once p was started.                 *)
Step(p) ==
    \/ CheckpointStep(p) \/ RunStep(p)
    \/ p \in Workflows /\ TaskStep(p)
    \/ p \in Callers /\ Read(p)

Next ==
    \/ \E p \in Procs : Step(p) \/ StoreRaises(p)
    \/ \E w \in Workflows : Submit(w)
    \/ \E c \in Callers, op \in Operations, w \in Workflows : Call(c, op, w)
    \/ Crash

Spec == Init /\ [][Next]_vars
FairSpec == Spec /\ \A p \in Procs : WF_vars(Step(p))

-----------------------------------------------------------------------------
Records == [id : Nat, of : Workflows \cup {None}, status : Statuses \cup {Missing}]

(* Every coroutine is at a point it can be resumed from, and a stored      *)
(* snapshot carries a status of the engine.                                *)
OrchestrationTypeOK ==
    /\ pc \in [Procs -> Points \cup Operations]
    /\ save \in [Procs -> {"no", "find", "store", "state"}]
    /\ on \in [Procs -> Workflows] /\ copy \in [Procs -> Statuses]
    /\ found \in [Procs -> Nat] /\ step \in [Procs -> Nat]
    /\ records \in Seq(Records)
    /\ \A i \in DOMAIN records : records[i].of # None => records[i].status \in Statuses
    /\ state \in [Workflows -> Statuses \cup {Missing}]
    /\ history \in [Workflows -> Terminal \cup {"PAUSED", Missing}]
    /\ active \in [Workflows -> Procs \cup {None}]
    /\ UNION {cancels, pauses, accepted, lost} \subseteq Workflows
    /\ calls \in 0..MaxCalls /\ faults \in 0..MaxFaults

(* A workflow never has two snapshot records, although every checkpoint    *)
(* looks for the record in one transaction and creates it in another, and  *)
(* a run, a resumed second run and cancel calls checkpoint at once: the    *)
(* seed is stored before anyone else knows the workflow's id.              *)
OneRecord ==
    \A i, j \in DOMAIN records :
        records[i].of = records[j].of /\ records[i].of # None => i = j

(* An accepted workflow is always found again, by every call, across       *)
(* crashes, torn state files and failed writes.                            *)
AcceptedFindable == lost = {}

(* Every coroutine that was started comes to rest: the calls are answered, *)
(* the submitted workflow is run and learned from; only a paused run may   *)
(* wait for ever.                                                          *)
Settles == \A p \in Procs : pc[p] # "new" ~> At(p, "idle") \/ At(p, "waiting")
=============================================================================
