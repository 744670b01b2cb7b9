----------------------------- MODULE Delivery -----------------------------
(* From generation to deployment: the engineer, verifier and deployment tasks of    *)
(* workflows that share a process and a force-app directory, with the artifacts the *)
(* engine passes between them, retries, faults of the store and restarts.           *)
(*                                                                                  *)
(* A plan is what the planner makes of a request: any tasks of the three agents in  *)
(* any order without a cycle.  Nothing makes it verify what it deploys.  Pausing,   *)
(* conditions and crashes are in WorkflowEngine, the deployment itself in           *)
(* Deployment.                                                                      *)
EXTENDS SalesforceEngineer

CONSTANTS
  Workflows,
  Plans,         \* the plans each workflow may have
  Texts,         \* the artifacts the planner may write into the input of a task
  MaxParallel,   \* the tasks of a batch
  MaxAttempts,   \* the attempts of a task
  MaxRestarts,   \* bound: restarts of a workflow
  MaxFaults      \* bound: files that cannot be written, stores and handlers that raise

\* work: what an engineer task generates, or the agent of another one; after: its
\* dependencies; raising: the tasks whose input the generator cannot use; component: the
\* name of the LWC; given: the texts in the input of each task.
PlanFields == {"work", "after", "raising", "component", "given"}

Artifact == DOMAIN Generated \cup DOMAIN Texts
Kinds == Artifact \cup {"placeholder"}

\* _ensure_acyclic: some task of every set of tasks waits for none of the others.
Acyclic(after) ==
  \A S \in SUBSET DOMAIN after : S # {} => \E t \in S : after[t] \cap S = {}

ASSUME DeliveryAssumption ==
  /\ MaxParallel \in Nat \ {0} /\ MaxAttempts \in Nat \ {0} /\ MaxRestarts \in Nat /\ MaxFaults \in Nat
  /\ \A w \in Workflows : \A p \in Plans[w] :
       /\ DOMAIN p = PlanFields
       /\ DOMAIN p.after = DOMAIN p.work /\ DOMAIN p.given = DOMAIN p.work
       /\ \A t \in DOMAIN p.work : /\ p.work[t] \in DOMAIN Generated \cup {"verifier", "deployment"}
                                 /\ p.after[t] \subseteq DOMAIN p.work
                                 /\ p.given[t] \subseteq DOMAIN Texts
       /\ Acyclic(p.after)

VARIABLES
  plan,        \* the plan of each workflow
  run,         \* ExecutionPlan and snapshot: "running", "success", "failed"
  phase,       \* of each task: "pending", "batched", "started", "writing", "success", "failed"
  attempts,    \* task.attempts
  input,       \* task.input["artifacts"]
  output,      \* task.output["artifacts"]; while the phase is "writing", those to report
  toWrite,     \* the files of those artifacts that are not dealt with yet
  serial,      \* per workflow: how many generations there have been
  forceApp,    \* the files under force-app: who wrote them last
  approved,    \* per workflow: what the approving reports of this run were about
  requests,    \* per workflow: the deployment requests of this run, [task, artifacts]
  restarts,    \* per workflow, bounded
  faults

vars == <<plan, run, phase, attempts, input, output, toWrite, serial, forceApp,
          approved, requests, restarts, faults>>

Nothing == << >>

Describe(kind) == IF kind \in DOMAIN Generated THEN Generated[kind] ELSE Texts[kind]

\* The results of the artifacts a strategy can read.
Results == [kind \in {k \in Artifact : Readable(Describe(k))} |-> FileResult(Describe(kind))]

Tasks(w) == DOMAIN plan[w].work
Engineers(w) == {t \in Tasks(w) : plan[w].work[t] \in DOMAIN Generated}
Verifiers(w) == {t \in Tasks(w) : plan[w].work[t] = "verifier"}
Deployments(w) == {t \in Tasks(w) : plan[w].work[t] = "deployment"}
Deps(w, t) == plan[w].after[t]

\* The texts that come with a plan have their names for keys.
TextKey(name) == KeyOf(<<"plan", name>>, 0, "text")
AsTexts(names) == [k \in {TextKey(n) : n \in names} |-> Content(k[2], 0)]

PerTask(w, value) == [t \in Tasks(w) |-> value]
Set(f, w, t, value) == [f EXCEPT ![w][t] = value]

-----------------------------------------------------------------------------
(* The batches of the engine                                               *)

InFlight(w, t) == phase[w][t] \in {"batched", "started", "writing"}
Idle(w) == run[w] = "running" /\ \A t \in Tasks(w) : ~InFlight(w, t)
Ready(w, t) == phase[w][t] = "pending" /\ \A d \in Deps(w, t) : phase[w][d] = "success"

\* A dict updated by another one.
Merged(winning, other) ==
  [k \in DOMAIN winning \cup DOMAIN other |->
     IF k \in DOMAIN winning THEN winning[k] ELSE other[k]]

\* _collect_workflow_artifacts, _inject_upstream_artifacts: what the input of the task
\* already has wins over what was generated upstream.
Upstream(w) ==
  LET outputs == {output[w][t] : t \in {u \in Tasks(w) : phase[w][u] = "success"}}
      keys == UNION {DOMAIN o : o \in outputs}
  IN [k \in keys |-> (CHOOSE o \in outputs : k \in DOMAIN o)[k]]
Injected(w, t) == Merged(input[w][t], Upstream(w))

\* The first MaxParallel of the ready tasks, or all of them; which are first is left open.
StartBatch(w) ==
  LET ready == {t \in Tasks(w) : Ready(w, t)}
  IN /\ Idle(w) /\ \A t \in Tasks(w) : phase[w][t] # "failed"
     /\ \E batch \in SUBSET ready :
          /\ batch # {} /\ (batch = ready \/ Cardinality(batch) = MaxParallel)
          /\ Cardinality(batch) <= MaxParallel
          /\ phase' = [phase EXCEPT ![w] = [t \in Tasks(w) |-> IF t \in batch THEN "batched" ELSE @[t]]]
     /\ UNCHANGED <<plan, run, attempts, input, output, toWrite, serial, forceApp, approved,
                    requests, restarts, faults>>

\* A task of the batch that never has to wait is done before another one starts.
Starts(w, t) ==
  /\ phase[w][t] = "batched"
  /\ phase' = Set(phase, w, t, "started")
  /\ input' = Set(input, w, t, Injected(w, t))
  /\ UNCHANGED <<plan, run, attempts, output, toWrite, serial, forceApp, approved, requests,
                 restarts, faults>>

EndRunOnceAllDone(w) ==
  /\ Idle(w) /\ \A t \in Tasks(w) : phase[w][t] \in {"success", "failed"}
  /\ run' = [run EXCEPT ![w] = "success"]
  /\ UNCHANGED <<plan, phase, attempts, input, output, toWrite, serial, forceApp, approved,
                 requests, restarts, faults>>

\* A failed task ends the run (fail_fast).
EndRun(w) ==
  /\ Idle(w)
  /\ \/ \E t \in Tasks(w) : phase[w][t] = "failed" /\ run' = [run EXCEPT ![w] = "failed"]
     \/ /\ \A t \in Tasks(w) : phase[w][t] = "success"
        /\ run' = [run EXCEPT ![w] = "success"]
  /\ UNCHANGED <<plan, phase, attempts, input, output, toWrite, serial, forceApp, approved,
                 requests, restarts, faults>>

\* restart forgets the outputs of the tasks and keeps their inputs.
Restart(w) ==
  /\ run[w] # "running" /\ restarts[w] < MaxRestarts
  /\ restarts' = [restarts EXCEPT ![w] = @ + 1]
  /\ run' = [run EXCEPT ![w] = "running"]
  /\ phase' = [phase EXCEPT ![w] = PerTask(w, "pending")]
  /\ attempts' = [attempts EXCEPT ![w] = PerTask(w, 0)]
  /\ output' = [output EXCEPT ![w] = PerTask(w, Nothing)]
  /\ approved' = [approved EXCEPT ![w] = {}]
  /\ requests' = [requests EXCEPT ![w] = {}]
  /\ UNCHANGED <<plan, input, toWrite, serial, forceApp, faults>>

-----------------------------------------------------------------------------
(* The attempts of a task                                                  *)

Attempt(w, t) == phase[w][t] = "started" /\ attempts' = Set(attempts, w, t, attempts[w][t] + 1)

Succeeds(w, t) == phase' = Set(phase, w, t, "success")

FailsLate(w, t) ==
  \/ attempts'[w][t] <= MaxAttempts /\ UNCHANGED phase
  \/ phase' = Set(phase, w, t, "failed")

\* _handle_task_failure: a retry if the recovery agent says so and an attempt is left.
Fails(w, t) ==
  \/ attempts'[w][t] < MaxAttempts /\ UNCHANGED phase
  \/ phase' = Set(phase, w, t, "failed")

Fault == faults < MaxFaults /\ faults' = faults + 1

Raises(w, t) ==
  \/ t \in plan[w].raising
  \/ SecurityRaises(plan[w].work[t], {Describe(input[w][t][k].kind) : k \in DOMAIN input[w][t]})

\* Only _handle_apex_task stores what it has done, and the store may raise.
EngineerFails(w, t) ==
  /\ t \in Engineers(w) /\ Attempt(w, t)
  /\ \/ Raises(w, t) /\ UNCHANGED faults
     \/ plan[w].work[t] \in {"apex_class", "batch_class"} /\ ~Raises(w, t) /\ Fault
  /\ Fails(w, t)
  /\ UNCHANGED <<plan, run, input, output, toWrite, serial, forceApp, approved, requests, restarts>>

Generates(w, t) ==
  LET artifacts == Generate(<<w, t>>, serial[w] + 1, plan[w].work[t])
  IN /\ t \in Engineers(w) /\ ~Raises(w, t) /\ Attempt(w, t)
     /\ serial' = [serial EXCEPT ![w] = @ + 1]
     /\ output' = Set(output, w, t, artifacts)
     /\ toWrite' = Set(toWrite, w, t, AllFiles(artifacts, plan[w].component))
     /\ phase' = Set(phase, w, t, "writing")
     /\ UNCHANGED <<plan, run, input, forceApp, approved, requests, restarts, faults>>

\* write_artifacts_to_force_app: a file that cannot be written is left out.  The tools are
\* waited for, and meanwhile the rest of the batch has started.
WriteFile(w, t, file) ==
  /\ phase[w][t] = "writing" /\ file \in toWrite[w][t]
  /\ \A s \in Tasks(w) : phase[w][s] # "batched"
  /\ toWrite' = Set(toWrite, w, t, toWrite[w][t] \ {file})
  /\ \/ forceApp' = Merged([f \in {file} |-> w], forceApp) /\ UNCHANGED faults
     \/ Fault /\ UNCHANGED forceApp
  /\ UNCHANGED <<plan, run, phase, attempts, input, output, serial, approved, requests, restarts>>

Written(w, t) ==
  /\ phase[w][t] = "writing" /\ toWrite[w][t] = {}
  /\ Succeeds(w, t)
  /\ UNCHANGED <<plan, run, attempts, input, output, toWrite, serial, forceApp, approved, requests,
                 restarts, faults>>

-----------------------------------------------------------------------------
(* Verification and deployment                                             *)

\* verify_plan: an artifact that its strategy cannot read fails the verification of all.
VerdictOf(w, t) ==
  LET artifacts == input[w][t]
  IN IF \E k \in DOMAIN artifacts : artifacts[k].kind \notin DOMAIN Results THEN "raises"
     ELSE IF ApprovedForDeployment([k \in DOMAIN artifacts |-> Results[artifacts[k].kind]])
     THEN "approved" ELSE "rejected"

VerificationSucceedsAnyway(w, t) == VerdictOf(w, t) # "raises"
VerificationSucceeds(w, t) == VerdictOf(w, t) = "approved"

Approves(w, t) ==
  /\ t \in Verifiers(w) /\ Attempt(w, t) /\ VerificationSucceeds(w, t)
  /\ Succeeds(w, t)
  /\ approved' = [approved EXCEPT ![w] =
                    IF VerdictOf(w, t) = "approved" THEN @ \cup {input[w][t]} ELSE @]
  /\ UNCHANGED <<plan, run, input, output, toWrite, serial, forceApp, requests, restarts, faults>>

\* A strategy that raises, a store or a handler that raises, and a rejection fail the task.
VerificationFails(w, t) ==
  /\ t \in Verifiers(w) /\ Attempt(w, t)
  /\ \/ ~VerificationSucceeds(w, t) /\ UNCHANGED faults
     \/ VerificationSucceeds(w, t) /\ Fault
  /\ Fails(w, t)
  /\ UNCHANGED <<plan, run, input, output, toWrite, serial, forceApp, approved, requests, restarts>>

\* The artifacts of the request; without any, the description of the task.
Requested(w, t) ==
  IF input[w][t] = Nothing THEN AsTexts({"placeholder"}) ELSE input[w][t]

\* The deployment agent may report either way, or raise.
Deploys(w, t) ==
  /\ t \in Deployments(w) /\ Attempt(w, t)
  /\ requests' = [requests EXCEPT ![w] = @ \cup {[task |-> t, artifacts |-> Requested(w, t)]}]
  /\ Succeeds(w, t) \/ Fails(w, t)
  /\ UNCHANGED <<plan, run, input, output, toWrite, serial, forceApp, approved, restarts, faults>>

-----------------------------------------------------------------------------
Init ==
  /\ plan \in {f \in [Workflows -> UNION {Plans[w] : w \in Workflows}] :
                 \A w \in Workflows : f[w] \in Plans[w]}
  /\ run = [w \in Workflows |-> "running"]
  /\ phase = [w \in Workflows |-> PerTask(w, "pending")]
  /\ attempts = [w \in Workflows |-> PerTask(w, 0)]
  /\ input = [w \in Workflows |-> [t \in Tasks(w) |-> AsTexts(plan[w].given[t])]]
  /\ output = [w \in Workflows |-> PerTask(w, Nothing)]
  /\ toWrite = [w \in Workflows |-> PerTask(w, {})]
  /\ serial = [w \in Workflows |-> 0]
  /\ forceApp = Nothing
  /\ approved = [w \in Workflows |-> {}]
  /\ requests = [w \in Workflows |-> {}]
  /\ restarts = [w \in Workflows |-> 0]
  /\ faults = 0

TaskStep(w, t) ==
  \/ Starts(w, t)
  \/ EngineerFails(w, t) \/ Generates(w, t) \/ Written(w, t)
  \/ \E file \in toWrite[w][t] : WriteFile(w, t, file)
  \/ Approves(w, t) \/ VerificationFails(w, t) \/ Deploys(w, t)

Step(w) == StartBatch(w) \/ EndRun(w) \/ \E t \in Tasks(w) : TaskStep(w, t)

Next == \E w \in Workflows : Step(w) \/ Restart(w)

Spec == Init /\ [][Next]_vars

\* The event loop and the agents get on; nobody has to restart anything.
FairSpec == Spec /\ \A w \in Workflows : WF_vars(Step(w))

-----------------------------------------------------------------------------
(* Properties                                                              *)

AllKeys(w) ==
  {TextKey(n) : n \in Kinds} \cup
  {KeyOf(<<w, t>>, n, p) : t \in Engineers(w), n \in 1..serial[w],
                           p \in {"js", "html", "css", "js-meta.xml", "whole"}}
Artifacts(w, f) ==
  DOMAIN f \subseteq AllKeys(w) /\ \A k \in DOMAIN f : f[k].kind \in Kinds /\ f[k].generation \in 0..serial[w]

\* Types, and: a task has at most MaxAttempts attempts, has files to write only while it
\* is writing, and only a workflow that is running has one in flight.
DeliveryTypeOK ==
  /\ \A w \in Workflows : plan[w] \in Plans[w]
  /\ run \in [Workflows -> {"running", "success", "failed"}]
  /\ \A file \in DOMAIN forceApp : forceApp[file] \in Workflows
  /\ serial \in [Workflows -> Nat] /\ faults \in 0..MaxFaults
  /\ restarts \in [Workflows -> 0..MaxRestarts]
  /\ \A w \in Workflows :
       /\ \A f \in approved[w] : Artifacts(w, f)
       /\ \A r \in requests[w] : r.task \in Deployments(w) /\ Artifacts(w, r.artifacts)
       /\ \A t \in Tasks(w) :
            /\ phase[w][t] \in {"pending", "batched", "started", "writing", "success", "failed"}
            /\ attempts[w][t] \in 0..MaxAttempts
            /\ Artifacts(w, input[w][t]) /\ Artifacts(w, output[w][t])
            /\ toWrite[w][t] # {} => phase[w][t] = "writing"
            /\ InFlight(w, t) => run[w] = "running"

\* The tasks that t waits for, and those these wait for: what is in every set of tasks
\* that holds its dependencies and theirs.
Holds(w, S, names) == names \subseteq S /\ \A s \in S : Deps(w, s) \subseteq S
Before(w, t) ==
  {u \in Tasks(w) : \A S \in SUBSET Tasks(w) : Holds(w, S, Deps(w, t)) => u \in S}

\* The plan makes v check what d deploys: d waits for v and v for every engineer, and the
\* planner gives d no text that v is not given.
Gates(w, v, d) ==
  /\ v \in Verifiers(w) \cap Before(w, d) /\ Engineers(w) \subseteq Before(w, v)
  /\ plan[w].given[d] \subseteq plan[w].given[v]
Gated(w, d) == \E v \in Tasks(w) : Gates(w, v, d)

\* r asks for nothing that f does not have, the description for no artifacts apart.
Covered(r, f) == \A k \in DOMAIN r \ {TextKey("placeholder")} : k \in DOMAIN f /\ f[k] = r[k]

\* A deployment behind a verifier asks for nothing that was not approved in the same run,
\* whatever the inputs of the tasks still hold of earlier ones (VerifierTaskAdapter,
\* DeploymentTaskAdapter, _inject_upstream_artifacts, restart).  It takes a verifier that
\* waits for all engineers, not only for those the deployment waits for: the engine hands
\* on what any task has generated.
DeployedWasApproved ==
  \A w \in Workflows : \A r \in requests[w] :
    Gated(w, r.task) => \E f \in approved[w] : Covered(r.artifacts, f)

\* What is verified is what was generated: a verifier at work has in its input every
\* artifact that the engineers before it have generated in this run, and none of an
\* earlier run stands in for one (_inject_upstream_artifacts lets the input win; the keys
\* are fresh).
GeneratedIsVerified ==
  \A w \in Workflows : \A v \in Verifiers(w) : phase[w][v] = "started" =>
    \A t \in Engineers(w) \cap Before(w, v) : \A k \in DOMAIN output[w][t] :
      k \in DOMAIN input[w][v] /\ input[w][v][k] = output[w][t][k]

\* Every delivery ends, rejected or deployed.
DeliveriesEnd == \A w \in Workflows : run[w] = "running" ~> run[w] # "running"

-----------------------------------------------------------------------------
(* What a comment says and the code does not keep                          *)

\* A task at work has in its input what came with the plan and what tasks it depends on
\* have generated ("Pass generated artifacts from dependencies into the current task
\* input", _inject_upstream_artifacts).
OnlyFromDependencies ==
  \A w \in Workflows : \A t \in Tasks(w) : phase[w][t] = "started" =>
    \A k \in DOMAIN input[w][t] : k[4] = 0 \/ k[2] \in Before(w, t)
=============================================================================
