------------------------------- MODULE Recovery -------------------------------
(***************************************************************************)
(* recovery/: RecoveryAgent.handle_failure with its analyzer, strategies   *)
(* and executor, as the engine reaches it through WorkflowRecoveryAdapter. *)
(*                                                                         *)
(* A task that failed calls recover and is answered with RETRY or          *)
(* ESCALATE; after RETRY it may fail again, with one more attempt.  A      *)
(* plan that succeeds in part makes the agent call itself: the frames that *)
(* wait for the inner call are counted in depth.  The agent counts the     *)
(* failures of a key (category and artifact) in failure_counts, which      *)
(* every call of the process shares and nothing resets.                    *)
(*                                                                         *)
(* External: the memory manager (its answers do not matter: a record is    *)
(* never of the failure's category, and learning swallows every error) and *)
(* the handlers of the events, which may raise.                            *)
(***************************************************************************)
EXTENDS Integers, Sequences, FiniteSets

CONSTANTS
  Tasks,                  \* tasks that fail
  SeenCategories,         \* the categories of the failures
  Artifact,               \* the artifact each task's failures name
  Registered,             \* plans of the strategies given to register_strategy
  MaxAttempts,            \* attempts of a task: bounds a behaviour
  MaxRecoveryAttempts,    \* MAX_RECOVERY_ATTEMPTS
  FailureLoopThreshold    \* FAILURE_LOOP_THRESHOLD

Categories ==
  {"code_generation", "metadata", "deployment", "authentication", "networking",
   "dependency", "validation", "governor_limit", "security", "runtime", "filesystem",
   "configuration", "system"}

\* What running an action of a plan can come to: a handler that never waits succeeds,
\* one that sleeps may time out, an unknown type is an error that counts as
\* recoverable, a timeout of 0 has always passed, and only a registered strategy can
\* hold an action whose error is permanent.
Kinds == {"sure", "waits", "unknown", "expired", "refused"}
Outcomes(kind) ==
  CASE kind = "sure" -> {"success"}
    [] kind = "waits" -> {"success", "recoverable"}
    [] kind = "unknown" -> {"recoverable"}
    [] kind = "expired" -> {"recoverable"}
    [] kind = "refused" -> {"permanent"}

RecoveryAction == [kind: Kinds, retries: 0..2, goesOn: BOOLEAN]
Act(kind, retries) == [kind |-> kind, retries |-> retries, goesOn |-> FALSE]

ASSUME RecoveryAssumption ==
  /\ SeenCategories \subseteq Categories
  /\ Artifact \in [Tasks -> Tasks]
  /\ DOMAIN Registered \subseteq Categories
  /\ \A c \in DOMAIN Registered :
       Registered[c] \in Seq(RecoveryAction) /\ Registered[c] # <<>>
  /\ MaxAttempts \in Nat \ {0}
  /\ MaxRecoveryAttempts \in Nat /\ FailureLoopThreshold \in Nat

VARIABLES
  pc,           \* where each task's recovery is parked
  category,     \* the category of each task's failures
  attempts,     \* ExecutionTask.attempts
  retryCount,   \* retry_count of the innermost handle_failure
  depth,        \* outer handle_failure frames that wait for it
  step,         \* the executor: action at work, retries left, executed, failed
  status,       \* final_status of the result at hand
  decision,     \* what the adapter answered
  counts,       \* failure_counts
  built,        \* plans built per key
  succeeded     \* actions of the plan at work that have succeeded

taskVars == <<category, attempts>>
frameVars == <<retryCount, depth>>
countVars == <<counts, built>>
vars == <<pc, taskVars, frameVars, step, status, decision, countVars, succeeded>>

Keys == Categories \X Tasks
Key(t) == <<category[t], Artifact[t]>>

Points == {"working", "detected", "planned", "acting", "backoff", "learning",
           "completing", "escalating", "failing", "answered"}
RecoveryStatus == {"none", "in_progress", "succeeded", "partially_succeeded", "failed",
                   "escalated"}
Decisions == {"none", "retry", "escalate"}

\* build_plan of the strategies: what their actions can come to and how often each may
\* be retried.
RegeneratePlan == <<Act("sure", 2), Act("sure", 1)>>
RollbackPlan == <<Act("sure", 1), Act("sure", 1), Act("sure", 1)>>
EscalatePlan == <<Act("expired", 0)>>
RetryPlan == <<Act("waits", 1), Act("waits", 1), Act("waits", 1)>>
FallbackPlan == <<Act("unknown", 2), Act("unknown", 1)>>
ReconfigurePlan == <<Act("sure", 1), Act("sure", 2)>>

\* StrategyFactory.STRATEGY_MAP.
BuiltIn(kind) ==
  CASE kind \in {"code_generation", "metadata", "validation"} -> RegeneratePlan
    [] kind = "deployment" -> RollbackPlan
    [] kind \in {"authentication", "security"} -> EscalatePlan
    [] kind \in {"networking", "runtime", "system"} -> RetryPlan
    [] kind \in {"dependency", "governor_limit"} -> FallbackPlan
    [] kind \in {"filesystem", "configuration"} -> ReconfigurePlan

\* StrategyFactory.get_strategy and build_plan.
Plan(t) ==
  IF category[t] \in DOMAIN Registered THEN Registered[category[t]]
                                       ELSE BuiltIn(category[t])

RecoveryTypeOK ==
  /\ category \in [Tasks -> SeenCategories]
  /\ pc \in [Tasks -> Points] /\ attempts \in [Tasks -> 0..MaxAttempts]
  /\ retryCount \in [Tasks -> Nat] /\ depth \in [Tasks -> 0..MaxRecoveryAttempts]
  /\ step \in [Tasks -> [at: Nat, left: 0..2, executed: Nat, failed: Nat]]
  /\ \A t \in Tasks : step[t].at <= Len(Plan(t)) + 1
  /\ status \in [Tasks -> RecoveryStatus] /\ decision \in [Tasks -> Decisions]
  /\ counts \in [Keys -> Nat] /\ built \in [Keys -> Nat]
  /\ succeeded \in [Tasks -> SUBSET Nat]

Goto(t, point) == pc' = [pc EXCEPT ![t] = point]
FirstStep == [at |-> 1, left |-> 0, executed |-> 0, failed |-> 0]

-----------------------------------------------------------------------------
(* WorkflowRecoveryAdapter.recover and the head of handle_failure          *)

\* The task fails, at first or after RETRY, and the engine asks for a recovery.
Recover(t) ==
  /\ pc[t] = "working" \/ (pc[t] = "answered" /\ decision[t] = "retry")
  /\ attempts[t] < MaxAttempts
  /\ attempts' = [attempts EXCEPT ![t] = @ + 1]
  /\ retryCount' = [retryCount EXCEPT ![t] = attempts[t]]
  /\ depth' = [depth EXCEPT ![t] = 0]
  /\ decision' = [decision EXCEPT ![t] = "none"]
  /\ status' = [status EXCEPT ![t] = "none"]
  /\ Goto(t, "detected")
  /\ UNCHANGED <<category, step, countVars, succeeded>>

\* Mutant of LoopDetected: the count is compared before the failure at hand is added.
LoopDetectedLate(t) == counts[Key(t)] > FailureLoopThreshold

LoopDetected(t) == counts[Key(t)] + 1 > FailureLoopThreshold

\* FailureAnalyzer.assess_recoverability, with its own bound of 3.
Recoverable(t) ==
  /\ category[t] \notin {"authentication", "configuration", "security"}
  /\ retryCount[t] < 3

\* recovery.failure_detected is published: count the failure, then give up or plan.
Assess(t) ==
  /\ pc[t] = "detected"
  /\ counts' = [counts EXCEPT ![Key(t)] = @ + 1]
  /\ \/ /\ LoopDetected(t) \/ ~Recoverable(t)
        /\ Goto(t, "escalating")
        /\ UNCHANGED built
     \/ /\ ~LoopDetected(t) /\ Recoverable(t)
        /\ built' = [built EXCEPT ![Key(t)] = @ + 1]
        /\ Goto(t, "planned")
  /\ UNCHANGED <<taskVars, frameVars, step, status, decision, succeeded>>

\* recovery.plan_built is published: the executor starts on a context of its own.
StartPlan(t) ==
  /\ pc[t] = "planned"
  /\ step' = [step EXCEPT ![t] = FirstStep]
  /\ succeeded' = [succeeded EXCEPT ![t] = {}]
  /\ status' = [status EXCEPT ![t] = "in_progress"]
  /\ Goto(t, "acting")
  /\ UNCHANGED <<taskVars, frameVars, decision, countVars>>

-----------------------------------------------------------------------------
(* RecoveryExecutor.execute_plan                                           *)

Current(t) == Plan(t)[step[t].at]
Counted(t, executed, failed) ==
  step' = [step EXCEPT ![t].executed = @ + executed, ![t].failed = @ + failed,
                       ![t].at = @ + 1, ![t].left = 0]

ActionSucceeds(t) ==
  /\ pc[t] = "acting" /\ step[t].at <= Len(Plan(t))
  /\ "success" \in Outcomes(Current(t).kind)
  /\ Counted(t, 1, 0)
  /\ succeeded' = [succeeded EXCEPT ![t] = @ \cup {step[t].at}]
  /\ UNCHANGED <<pc, taskVars, frameVars, status, decision, countVars>>

\* Mutant of ActionFails: a failure that will be retried is not counted.
ActionFailsUncounted(t) ==
  /\ pc[t] = "acting" /\ step[t].at <= Len(Plan(t))
  /\ "recoverable" \in Outcomes(Current(t).kind)
  /\ \/ /\ Current(t).goesOn \/ Current(t).retries = 0
        /\ Counted(t, 0, 1) /\ UNCHANGED pc
     \/ /\ ~Current(t).goesOn /\ Current(t).retries > 0
        /\ step' = [step EXCEPT ![t].left = Current(t).retries]
        /\ Goto(t, "backoff")
  /\ UNCHANGED <<taskVars, frameVars, status, decision, countVars, succeeded>>

\* A recoverable failure is retried after a pause, unless the plan goes on.
ActionFails(t) ==
  /\ pc[t] = "acting" /\ step[t].at <= Len(Plan(t))
  /\ "recoverable" \in Outcomes(Current(t).kind)
  /\ \/ /\ Current(t).goesOn \/ Current(t).retries = 0
        /\ Counted(t, 0, 1) /\ UNCHANGED pc
     \/ /\ ~Current(t).goesOn /\ Current(t).retries > 0
        /\ step' = [step EXCEPT ![t].failed = @ + 1, ![t].left = Current(t).retries]
        /\ Goto(t, "backoff")
  /\ UNCHANGED <<taskVars, frameVars, status, decision, countVars, succeeded>>

\* A permanent failure leaves the loop, unless the plan goes on.
ActionRefused(t) ==
  /\ pc[t] = "acting" /\ step[t].at <= Len(Plan(t))
  /\ "permanent" \in Outcomes(Current(t).kind)
  /\ \/ /\ Current(t).goesOn
        /\ Counted(t, 0, 1) /\ UNCHANGED status
     \/ /\ ~Current(t).goesOn
        /\ step' = [step EXCEPT ![t].failed = @ + 1, ![t].at = Len(Plan(t)) + 1]
        /\ status' = [status EXCEPT ![t] = "failed"]
  /\ UNCHANGED <<pc, taskVars, frameVars, decision, countVars, succeeded>>

\* A retry that succeeds takes the failure back.
RetrySucceeds(t) ==
  /\ pc[t] = "backoff"
  /\ "success" \in Outcomes(Current(t).kind)
  /\ Counted(t, 1, -1)
  /\ succeeded' = [succeeded EXCEPT ![t] = @ \cup {step[t].at}]
  /\ Goto(t, "acting")
  /\ UNCHANGED <<taskVars, frameVars, status, decision, countVars>>

\* Mutant of RetryFails: the retries left are not counted down.
RetryFailsAgain(t) ==
  /\ pc[t] = "backoff"
  /\ \E outcome \in Outcomes(Current(t).kind) : outcome # "success"
  /\ UNCHANGED vars

RetryFails(t) ==
  /\ pc[t] = "backoff"
  /\ \E outcome \in Outcomes(Current(t).kind) : outcome # "success"
  /\ \/ /\ step[t].left > 1
        /\ step' = [step EXCEPT ![t].left = @ - 1] /\ UNCHANGED pc
     \/ /\ step[t].left <= 1
        /\ Counted(t, 0, 0) /\ Goto(t, "acting")
  /\ UNCHANGED <<taskVars, frameVars, status, decision, countVars, succeeded>>

-----------------------------------------------------------------------------
(* The tail of handle_failure                                              *)

AttemptStatus(t) ==
  IF step[t].failed = 0 THEN "succeeded"
  ELSE IF step[t].executed > 0 THEN "partially_succeeded" ELSE status[t]

\* Mutant of Recurses: the agent calls itself only once.
RecursesOnce(t) == AttemptStatus(t) = "partially_succeeded" /\ retryCount[t] < 1

\* A plan that succeeded in part makes the agent call itself for the same failure.
Recurses(t) ==
  AttemptStatus(t) = "partially_succeeded" /\ retryCount[t] < MaxRecoveryAttempts

PlanDone(t) ==
  /\ pc[t] = "acting" /\ step[t].at > Len(Plan(t))
  /\ status' = [status EXCEPT ![t] = AttemptStatus(t)]
  /\ step' = [step EXCEPT ![t] = FirstStep]
  /\ \/ /\ Recurses(t)
        /\ retryCount' = [retryCount EXCEPT ![t] = @ + 1]
        /\ depth' = [depth EXCEPT ![t] = @ + 1]
        /\ Goto(t, "detected")
     \/ /\ ~Recurses(t)
        /\ Goto(t, "learning")
        /\ UNCHANGED <<retryCount, depth>>
  /\ UNCHANGED <<taskVars, decision, countVars, succeeded>>

\* _learn_from_success or _learn_from_failure: the store is awaited, errors swallowed.
Learn(t) ==
  /\ pc[t] = "learning"
  /\ Goto(t, "completing")
  /\ UNCHANGED <<taskVars, frameVars, step, status, decision, countVars, succeeded>>

\* The adapter's answer to the result of the outermost frame.
Answer(t) ==
  /\ decision' = [decision EXCEPT ![t] =
                    IF status'[t] \in {"succeeded", "partially_succeeded"} THEN "retry"
                    ELSE "escalate"]
  /\ Goto(t, "answered")

\* A frame returns its result: the frame around it learns from the same result.
Return(t) ==
  IF depth[t] = 0 THEN Answer(t) /\ UNCHANGED depth
  ELSE /\ depth' = [depth EXCEPT ![t] = @ - 1]
       /\ Goto(t, "learning") /\ UNCHANGED decision

\* recovery.completed is published.
Complete(t) ==
  /\ pc[t] = "completing"
  /\ UNCHANGED status
  /\ Return(t)
  /\ UNCHANGED <<taskVars, retryCount, step, countVars, succeeded>>

\* _escalate_failure: recovery.escalated is published.
Escalate(t) ==
  /\ pc[t] = "escalating"
  /\ status' = [status EXCEPT ![t] = "escalated"]
  /\ Return(t)
  /\ UNCHANGED <<taskVars, retryCount, step, countVars, succeeded>>

\* A handler of an event that the frame publishes raises.
HandlerRaises(t) ==
  /\ pc[t] \in {"detected", "planned", "escalating", "completing"}
  /\ Goto(t, "failing")
  /\ UNCHANGED <<taskVars, frameVars, step, status, decision, countVars, succeeded>>

\* The except clause: recovery.failed is published, or its handler raises too; the
\* frame raises into the one around it, the outermost into the adapter.
Raise(t) ==
  /\ pc[t] = "failing"
  /\ IF depth[t] = 0
     THEN /\ decision' = [decision EXCEPT ![t] = "escalate"]
          /\ Goto(t, "answered") /\ UNCHANGED depth
     ELSE depth' = [depth EXCEPT ![t] = @ - 1] /\ UNCHANGED <<pc, decision>>
  /\ UNCHANGED <<taskVars, retryCount, step, status, countVars, succeeded>>

-----------------------------------------------------------------------------
Init ==
  /\ category \in [Tasks -> SeenCategories]
  /\ pc = [t \in Tasks |-> "working"] /\ attempts = [t \in Tasks |-> 0]
  /\ retryCount = [t \in Tasks |-> 0] /\ depth = [t \in Tasks |-> 0]
  /\ step = [t \in Tasks |-> FirstStep]
  /\ status = [t \in Tasks |-> "none"] /\ decision = [t \in Tasks |-> "none"]
  /\ counts = [k \in Keys |-> 0] /\ built = [k \in Keys |-> 0]
  /\ succeeded = [t \in Tasks |-> {}]

Step(t) ==
  \/ Assess(t) \/ StartPlan(t)
  \/ ActionSucceeds(t) \/ ActionFails(t) \/ ActionRefused(t)
  \/ RetrySucceeds(t) \/ RetryFails(t) \/ PlanDone(t)
  \/ Learn(t) \/ Complete(t) \/ Escalate(t) \/ HandlerRaises(t) \/ Raise(t)

Next == \E t \in Tasks : Recover(t) \/ Step(t)

Spec == Init /\ [][Next]_vars

\* The loop runs every ready coroutine: a call that can go on does.
FairSpec == Spec /\ \A t \in Tasks : WF_vars(Step(t))

-----------------------------------------------------------------------------
\* However often a key fails, however the calls interleave and however often the
\* agent calls itself, at most FAILURE_LOOP_THRESHOLD plans are run for it
\* (_check_failure_loop counts every call of the process).
LoopBroken == \A k \in Keys : built[k] <= FailureLoopThreshold

\* The adapter would answer RETRY to a plan that succeeded in part, but the agent
\* never lets one out: a task is only retried after a plan all of whose actions
\* succeeded (handle_failure recurses until the attempt is judged hopeless).
RetryEarned ==
  \A t \in Tasks : decision[t] = "retry" => succeeded[t] = 1..Len(Plan(t))

\* A failure that is reported is answered, whatever the actions come to and
\* whichever handlers raise: no retry loop or recursion goes on for ever.
FailuresAnswered == \A t \in Tasks : pc[t] = "detected" ~> pc[t] = "answered"
=============================================================================
