---------------------------- MODULE RecoveryProofs ----------------------------
(***************************************************************************)
(* The loop threshold bounds the plans that are run for a key, and a task  *)
(* is only retried after a plan that succeeded as a whole.                 *)
(***************************************************************************)
EXTENDS Recovery, SequenceTheorems, TLAPS

\* A plan is only built for a failure that has been counted.
PlansCounted == \A k \in Keys : built[k] <= counts[k]

\* The executor is at an action of the plan, and never backs off without a failure.
AtAction(t) ==
  /\ step[t].at >= 1
  /\ pc[t] = "backoff" => step[t].at <= Len(Plan(t)) /\ step[t].failed >= 1

\* Each frame around the innermost has used up one of its attempts, and the analyzer
\* has judged the failure at hand recoverable.
Frames(t) ==
  /\ depth[t] <= retryCount[t]
  /\ pc[t] \in {"planned", "acting", "backoff"} => retryCount[t] < 3

\* Where no failure is on the books, all actions so far have succeeded.
Earning(t) ==
  /\ pc[t] = "acting" /\ step[t].failed = 0 => succeeded[t] = 1..(step[t].at - 1)
  /\ pc[t] = "backoff" /\ step[t].failed = 1 => succeeded[t] = 1..(step[t].at - 1)
  /\ pc[t] \in {"acting", "backoff"} => status[t] \in {"in_progress", "failed"}

\* What the adapter will look at: a partial success has no way out as long as the agent
\* may call itself as often as the analyzer lets it.
Judged(t) ==
  pc[t] \in {"learning", "completing"} =>
    /\ status[t] = "succeeded" => succeeded[t] = 1..Len(Plan(t))
    /\ status[t] = "partially_succeeded" => MaxRecoveryAttempts < 3

Answered(t) ==
  /\ pc[t] # "answered" => decision[t] = "none"
  /\ decision[t] = "retry" => succeeded[t] = 1..Len(Plan(t)) \/ MaxRecoveryAttempts < 3

Coherent(t) == AtAction(t) /\ Frames(t) /\ Earning(t) /\ Judged(t) /\ Answered(t)

IInv == RecoveryTypeOK /\ PlansCounted /\ LoopBroken /\ \A t \in Tasks : Coherent(t)

-----------------------------------------------------------------------------
(* Plans                                                                   *)

\* Every plan of a strategy has an action, and its actions are retried at most twice.
LEMMA BuiltInType ==
  ASSUME NEW c \in Categories
  PROVE  BuiltIn(c) \in Seq(RecoveryAction) /\ Len(BuiltIn(c)) >= 1
  <1>1. \A kind \in Kinds, n \in 0..2 : Act(kind, n) \in RecoveryAction
    BY DEF Act, RecoveryAction
  <1>2. /\ RegeneratePlan \in Seq(RecoveryAction) /\ Len(RegeneratePlan) >= 1
        /\ RollbackPlan \in Seq(RecoveryAction) /\ Len(RollbackPlan) >= 1
        /\ EscalatePlan \in Seq(RecoveryAction) /\ Len(EscalatePlan) >= 1
    BY <1>1 DEF RegeneratePlan, RollbackPlan, EscalatePlan, Kinds
  <1>3. /\ RetryPlan \in Seq(RecoveryAction) /\ Len(RetryPlan) >= 1
        /\ FallbackPlan \in Seq(RecoveryAction) /\ Len(FallbackPlan) >= 1
        /\ ReconfigurePlan \in Seq(RecoveryAction) /\ Len(ReconfigurePlan) >= 1
    BY <1>1 DEF RetryPlan, FallbackPlan, ReconfigurePlan, Kinds
  <1> QED
    BY <1>2, <1>3 DEF BuiltIn, Categories

LEMMA PlanType ==
  ASSUME RecoveryTypeOK, NEW t \in Tasks
  PROVE  Plan(t) \in Seq(RecoveryAction) /\ Len(Plan(t)) \in Nat /\ Len(Plan(t)) >= 1
  <1>1. category[t] \in Categories
    BY RecoveryAssumption DEF RecoveryTypeOK
  <1>2. CASE category[t] \in DOMAIN Registered
    BY <1>2, RecoveryAssumption, EmptySeq, LenProperties DEF Plan
  <1>3. CASE category[t] \notin DOMAIN Registered
    BY <1>1, <1>3, BuiltInType, LenProperties DEF Plan
  <1> QED
    BY <1>2, <1>3

\* Neither the categories nor the strategies change.
LEMMA PlanFixed ==
  ASSUME category' = category, NEW t \in Tasks
  PROVE  Plan(t)' = Plan(t)
  BY DEF Plan

\* A step of the executor keeps the record that counts its actions well typed.
StepRecord == [at: Nat, left: 0..2, executed: Nat, failed: Nat]

\* A failure is counted under a key.
LEMMA KeyType ==
  ASSUME RecoveryTypeOK, NEW t \in Tasks
  PROVE  Key(t) \in Keys
  <1>1. category[t] \in Categories /\ Artifact[t] \in Tasks
    BY RecoveryAssumption DEF RecoveryTypeOK
  <1> QED
    BY <1>1 DEF Key, Keys

\* The executor looks at an action of the plan.
LEMMA CurrentType ==
  ASSUME RecoveryTypeOK, NEW t \in Tasks, step[t].at >= 1, step[t].at <= Len(Plan(t))
  PROVE  Current(t) \in RecoveryAction
  <1>1. step[t].at \in 1..Len(Plan(t))
    BY PlanType DEF RecoveryTypeOK
  <1> QED
    BY <1>1, PlanType, ElementOfSeq DEF Current

-----------------------------------------------------------------------------
(* The inductive invariant                                                 *)

LEMMA InitInv == Init => IInv
  <1> SUFFICES ASSUME Init PROVE IInv
    OBVIOUS
  <1>1. \A t \in Tasks : category[t] \in Categories
    BY RecoveryAssumption DEF Init
  <1>2. \A t \in Tasks : Len(Plan(t)) \in Nat /\ Len(Plan(t)) >= 1
    BY <1>1, BuiltInType, RecoveryAssumption, EmptySeq, LenProperties DEF Plan
  <1>3. RecoveryTypeOK
    BY <1>2, RecoveryAssumption DEF Init, RecoveryTypeOK, FirstStep, Points, RecoveryStatus, Decisions
  <1>4. PlansCounted /\ LoopBroken
    BY RecoveryAssumption DEF Init, PlansCounted, LoopBroken
  <1>5. \A t \in Tasks : Coherent(t)
    BY DEF Init, FirstStep, Coherent, AtAction, Frames, Earning, Judged, Answered
  <1> QED
    BY <1>3, <1>4, <1>5 DEF IInv

\* A step leaves the recovery of task u alone.
Untouched(u) ==
  /\ category'[u] = category[u] /\ pc'[u] = pc[u] /\ step'[u] = step[u]
  /\ retryCount'[u] = retryCount[u] /\ depth'[u] = depth[u] /\ status'[u] = status[u]
  /\ decision'[u] = decision[u] /\ succeeded'[u] = succeeded[u]

LEMMA Frame ==
  ASSUME NEW u \in Tasks, Coherent(u), Untouched(u)
  PROVE  Coherent(u)'
  BY DEF Untouched, Coherent, AtAction, Frames, Earning, Judged, Answered, Plan

\* The two halves of the type invariant: what a call keeps, and what its executor keeps.
CallTyped ==
  /\ category \in [Tasks -> SeenCategories]
  /\ pc \in [Tasks -> Points] /\ attempts \in [Tasks -> 0..MaxAttempts]
  /\ retryCount \in [Tasks -> Nat] /\ depth \in [Tasks -> 0..MaxRecoveryAttempts]
  /\ status \in [Tasks -> RecoveryStatus] /\ decision \in [Tasks -> Decisions]

WorkTyped ==
  /\ step \in [Tasks -> StepRecord] /\ succeeded \in [Tasks -> SUBSET Nat]
  /\ counts \in [Keys -> Nat] /\ built \in [Keys -> Nat]

LEMMA Typed ==
  RecoveryTypeOK <=>
    CallTyped /\ WorkTyped /\ \A t \in Tasks : step[t].at <= Len(Plan(t)) + 1
  BY DEF RecoveryTypeOK, CallTyped, WorkTyped, StepRecord

\* A step of one task disturbs no other and, if it counts nothing, no counter.
LEMMA Move ==
  ASSUME IInv, NEW t \in Tasks, CallTyped', WorkTyped', category' = category,
         step'[t].at <= Len(Plan(t)) + 1, PlansCounted', LoopBroken', Coherent(t)',
         \A u \in Tasks \ {t} : Untouched(u)
  PROVE  IInv'
  <1>1. ASSUME NEW u \in Tasks PROVE Coherent(u)'
    BY Frame DEF IInv
  <1>2. ASSUME NEW u \in Tasks PROVE step'[u].at <= Len(Plan(u)') + 1
    BY PlanFixed DEF IInv, RecoveryTypeOK, Untouched
  <1>3. RecoveryTypeOK'
    BY <1>2 DEF RecoveryTypeOK, CallTyped, WorkTyped, StepRecord
  <1> QED
    BY <1>1, <1>3 DEF IInv

\* What an action that is through leaves in the record of the executor.
LEMMA CountedStep ==
  ASSUME WorkTyped, NEW t \in Tasks, NEW executed \in 0..1, NEW failed \in -1..1,
         step[t].failed + failed >= 0, Counted(t, executed, failed)
  PROVE  /\ step' \in [Tasks -> StepRecord]
         /\ step'[t].at = step[t].at + 1 /\ step'[t].failed = step[t].failed + failed
         /\ \A u \in Tasks \ {t} : step'[u] = step[u]
  BY DEF WorkTyped, StepRecord, Counted

LEMMA RecoverInv ==
  ASSUME IInv, NEW t \in Tasks, Recover(t)
  PROVE  IInv'
  <1> CallTyped /\ WorkTyped /\ RecoveryTypeOK /\ Coherent(t)
    BY Typed DEF IInv
  <1> category' = category /\ Plan(t)' = Plan(t)
    BY PlanFixed DEF Recover
  <1>1. CallTyped'
    BY RecoveryAssumption DEF CallTyped, Points, RecoveryStatus, Decisions, Recover, Goto, countVars
  <1>2. WorkTyped'
    BY DEF WorkTyped, StepRecord, Recover, Goto, countVars
  <1>3. step'[t].at <= Len(Plan(t)) + 1
    BY PlanType DEF RecoveryTypeOK, WorkTyped, StepRecord, Recover, Goto, countVars
  <1>4. PlansCounted' /\ LoopBroken'
    BY DEF IInv, PlansCounted, LoopBroken, Recover, countVars
  <1>6. AtAction(t)' /\ Frames(t)'
    BY DEF CallTyped, WorkTyped, StepRecord, Coherent, AtAction, Frames, Recover, Goto, countVars
  <1>7. Earning(t)' /\ Judged(t)' /\ Answered(t)'
    BY PlanType DEF CallTyped, WorkTyped, StepRecord, Coherent, AtAction, Earning, Judged, Answered, Recover, Goto, countVars
  <1>8. \A u \in Tasks \ {t} : Untouched(u)
    BY DEF CallTyped, WorkTyped, Untouched, Recover, Goto, countVars
  <1> QED
    BY <1>1, <1>2, <1>3, <1>4, <1>6, <1>7, <1>8, Move DEF Coherent

\* A plan is only built while the count, with the failure at hand, is within the bound.
LEMMA AssessInv ==
  ASSUME IInv, NEW t \in Tasks, Assess(t)
  PROVE  IInv'
  <1> CallTyped /\ WorkTyped /\ RecoveryTypeOK /\ Coherent(t)
    BY Typed DEF IInv
  <1> category' = category /\ Plan(t)' = Plan(t)
    BY PlanFixed DEF Assess, taskVars
  <1> Key(t) \in Keys
    BY KeyType
  <1>1. CallTyped'
    BY RecoveryAssumption DEF CallTyped, Points, RecoveryStatus, Decisions, Assess, Goto, taskVars, frameVars
  <1>2. WorkTyped'
    BY DEF WorkTyped, StepRecord, Assess, Goto, taskVars, frameVars
  <1>3. step'[t].at <= Len(Plan(t)) + 1
    BY PlanType DEF RecoveryTypeOK, WorkTyped, StepRecord, Assess, Goto, taskVars, frameVars
  <1>4. PlansCounted'
    BY DEF IInv, WorkTyped, PlansCounted, Assess, Goto, taskVars, frameVars
  <1>5. LoopBroken'
    <2> SUFFICES ASSUME NEW k \in Keys PROVE built'[k] <= FailureLoopThreshold
      BY DEF LoopBroken
    <2>1. built[k] <= FailureLoopThreshold /\ built[k] <= counts[k]
      BY DEF IInv, LoopBroken, PlansCounted
    <2>2. counts[k] \in Nat /\ built[k] \in Nat
      BY DEF WorkTyped
    <2>3. CASE k = Key(t) /\ ~LoopDetected(t)
      BY <2>1, <2>2, <2>3, RecoveryAssumption DEF WorkTyped, LoopDetected, Assess
    <2>4. CASE k # Key(t) \/ LoopDetected(t)
      BY <2>1, <2>4 DEF WorkTyped, Assess
    <2> QED
      BY <2>3, <2>4
  <1>6. AtAction(t)' /\ Frames(t)'
    BY DEF CallTyped, WorkTyped, StepRecord, Coherent, AtAction, Frames, Assess, Goto, taskVars, frameVars, Recoverable
  <1>7. Earning(t)' /\ Judged(t)' /\ Answered(t)'
    BY PlanType DEF CallTyped, WorkTyped, StepRecord, Coherent, AtAction, Earning, Judged, Answered, Assess, Goto, taskVars, frameVars
  <1>8. \A u \in Tasks \ {t} : Untouched(u)
    BY DEF CallTyped, WorkTyped, Untouched, Assess, Goto, taskVars, frameVars
  <1> QED
    BY <1>1, <1>2, <1>3, <1>4, <1>5, <1>6, <1>7, <1>8, Move DEF Coherent

LEMMA StartPlanInv ==
  ASSUME IInv, NEW t \in Tasks, StartPlan(t)
  PROVE  IInv'
  <1> CallTyped /\ WorkTyped /\ RecoveryTypeOK /\ Coherent(t)
    BY Typed DEF IInv
  <1> category' = category /\ Plan(t)' = Plan(t)
    BY PlanFixed DEF StartPlan, taskVars
  <1>1. CallTyped'
    BY RecoveryAssumption DEF CallTyped, Points, RecoveryStatus, Decisions, StartPlan, Goto, FirstStep, taskVars, frameVars, countVars
  <1>2. WorkTyped'
    BY PlanType DEF WorkTyped, StepRecord, StartPlan, Goto, FirstStep, taskVars, frameVars, countVars
  <1>3. step'[t].at <= Len(Plan(t)) + 1
    BY PlanType DEF RecoveryTypeOK, WorkTyped, StepRecord, StartPlan, Goto, FirstStep, taskVars, frameVars, countVars
  <1>4. PlansCounted' /\ LoopBroken'
    BY DEF IInv, PlansCounted, LoopBroken, StartPlan, countVars
  <1>6. AtAction(t)' /\ Frames(t)'
    BY DEF CallTyped, WorkTyped, StepRecord, Coherent, AtAction, Frames, StartPlan, Goto, FirstStep, taskVars, frameVars, countVars
  <1>7. Earning(t)' /\ Judged(t)' /\ Answered(t)'
    BY PlanType DEF CallTyped, WorkTyped, StepRecord, Coherent, AtAction, Earning, Judged, Answered, StartPlan, Goto, FirstStep, taskVars, frameVars, countVars
  <1>8. \A u \in Tasks \ {t} : Untouched(u)
    BY DEF CallTyped, WorkTyped, Untouched, StartPlan, Goto, FirstStep, taskVars, frameVars, countVars
  <1> QED
    BY <1>1, <1>2, <1>3, <1>4, <1>6, <1>7, <1>8, Move DEF Coherent

LEMMA ActionSucceedsInv ==
  ASSUME IInv, NEW t \in Tasks, ActionSucceeds(t)
  PROVE  IInv'
  <1> CallTyped /\ WorkTyped /\ RecoveryTypeOK /\ Coherent(t)
    BY Typed DEF IInv
  <1> category' = category /\ Plan(t)' = Plan(t)
    BY PlanFixed DEF ActionSucceeds, taskVars
  <1>1. CallTyped'
    BY RecoveryAssumption DEF CallTyped, Points, RecoveryStatus, Decisions, ActionSucceeds, Counted, taskVars, frameVars, countVars
  <1>2. WorkTyped'
    BY DEF WorkTyped, StepRecord, ActionSucceeds, Counted, taskVars, frameVars, countVars
  <1>3. step'[t].at <= Len(Plan(t)) + 1
    BY PlanType DEF RecoveryTypeOK, WorkTyped, StepRecord, ActionSucceeds, Counted, taskVars, frameVars, countVars
  <1>4. PlansCounted' /\ LoopBroken'
    BY DEF IInv, PlansCounted, LoopBroken, ActionSucceeds, countVars
  <1>6. AtAction(t)' /\ Frames(t)'
    BY DEF CallTyped, WorkTyped, StepRecord, Coherent, AtAction, Frames, ActionSucceeds, Counted, taskVars, frameVars, countVars
  <1>7. Earning(t)' /\ Judged(t)' /\ Answered(t)'
    BY PlanType DEF CallTyped, WorkTyped, StepRecord, Coherent, AtAction, Earning, Judged, Answered, ActionSucceeds, Counted, taskVars, frameVars, countVars
  <1>8. \A u \in Tasks \ {t} : Untouched(u)
    BY DEF CallTyped, WorkTyped, Untouched, ActionSucceeds, Counted, taskVars, frameVars, countVars
  <1> QED
    BY <1>1, <1>2, <1>3, <1>4, <1>6, <1>7, <1>8, Move DEF Coherent

LEMMA ActionFailsInv ==
  ASSUME IInv, NEW t \in Tasks, ActionFails(t)
  PROVE  IInv'
  <1> CallTyped /\ WorkTyped /\ RecoveryTypeOK /\ Coherent(t)
    BY Typed DEF IInv
  <1> category' = category /\ Plan(t)' = Plan(t)
    BY PlanFixed DEF ActionFails, taskVars
  <1> Current(t).retries \in 0..2
    BY CurrentType DEF ActionFails, Coherent, AtAction, RecoveryAction
  <1>1. CallTyped'
    <2>1. pc' = pc \/ Goto(t, "backoff")
      BY DEF ActionFails
    <2>2. pc' \in [Tasks -> Points]
      BY <2>1 DEF CallTyped, Points, Goto
    <2>3. UNCHANGED <<category, attempts, retryCount, depth, status, decision>>
      BY DEF ActionFails, taskVars, frameVars
    <2> QED
      BY <2>2, <2>3 DEF CallTyped
  <1>s. /\ step' \in [Tasks -> StepRecord] /\ \A u \in Tasks \ {t} : step'[u] = step[u]
        /\ step'[t].failed = step[t].failed + 1
        /\ \/ pc' = pc /\ step'[t].at = step[t].at + 1
           \/ Goto(t, "backoff") /\ step'[t].at = step[t].at
    <2>1. CASE Counted(t, 0, 1) /\ UNCHANGED pc
      BY <2>1, CountedStep DEF WorkTyped, StepRecord
    <2>2. CASE /\ step' = [step EXCEPT ![t].failed = @ + 1, ![t].left = Current(t).retries]
               /\ Goto(t, "backoff")
      <3> DEFINE s == [at |-> step[t].at, left |-> Current(t).retries,
                       executed |-> step[t].executed, failed |-> step[t].failed + 1]
      <3>1. step[t] \in StepRecord
        BY DEF WorkTyped
      <3>2. s \in StepRecord
        BY <3>1 DEF StepRecord
      <3>3. DOMAIN step' = Tasks /\ \A u \in Tasks \ {t} : step'[u] = step[u]
        BY <2>2 DEF WorkTyped
      <3>4. step'[t] = [[step[t] EXCEPT !.failed = @ + 1] EXCEPT !.left = Current(t).retries]
        BY <2>2 DEF WorkTyped
      <3>5. step'[t] = s
        BY <3>1, <3>4 DEF StepRecord
      <3> QED
        BY <2>2, <3>2, <3>3, <3>5 DEF WorkTyped
    <2> QED
      BY <2>1, <2>2 DEF ActionFails
  <1>2. WorkTyped'
    BY <1>s DEF WorkTyped, ActionFails, countVars
  <1>3. step'[t].at <= Len(Plan(t)) + 1
    <2>1. step[t].at \in Nat /\ step[t].at <= Len(Plan(t)) /\ Len(Plan(t)) \in Nat
      BY PlanType DEF WorkTyped, StepRecord, ActionFails
    <2> QED
      BY <1>s, <2>1
  <1>4. PlansCounted' /\ LoopBroken'
    BY DEF IInv, PlansCounted, LoopBroken, ActionFails, countVars
  <1>6. AtAction(t)' /\ Frames(t)'
    BY <1>s DEF CallTyped, WorkTyped, StepRecord, Coherent, AtAction, Frames, ActionFails, Goto, frameVars
  <1>7. Earning(t)' /\ Judged(t)' /\ Answered(t)'
    BY <1>s DEF CallTyped, WorkTyped, StepRecord, Coherent, AtAction, Earning, Judged, Answered, ActionFails, Goto
  <1>8. \A u \in Tasks \ {t} : Untouched(u)
    BY <1>s DEF CallTyped, WorkTyped, Untouched, ActionFails, Goto, taskVars, frameVars
  <1> QED
    BY <1>1, <1>2, <1>3, <1>4, <1>6, <1>7, <1>8, Move DEF Coherent

LEMMA ActionRefusedInv ==
  ASSUME IInv, NEW t \in Tasks, ActionRefused(t)
  PROVE  IInv'
  <1> CallTyped /\ WorkTyped /\ RecoveryTypeOK /\ Coherent(t)
    BY Typed DEF IInv
  <1> category' = category /\ Plan(t)' = Plan(t)
    BY PlanFixed DEF ActionRefused, taskVars
  <1>1. CallTyped'
    BY RecoveryAssumption DEF CallTyped, Points, RecoveryStatus, Decisions, ActionRefused, Counted, taskVars, frameVars, countVars
  <1>2. WorkTyped'
    <2>1. step' \in [Tasks -> StepRecord]
      <3>1. CASE Counted(t, 0, 1)
        BY <3>1, CountedStep DEF WorkTyped, StepRecord
      <3>2. CASE step' = [step EXCEPT ![t].failed = @ + 1, ![t].at = Len(Plan(t)) + 1]
        <4>1. PICK n \in Nat : n = Len(Plan(t)) + 1
          BY PlanType
        <4>2. step' = [step EXCEPT ![t].failed = @ + 1, ![t].at = n]
          BY ONLY <3>2, <4>1
        <4>3. step[t] \in StepRecord /\ DOMAIN step = Tasks
          BY DEF WorkTyped
        <4>4. step'[t] = [[step[t] EXCEPT !.failed = @ + 1] EXCEPT !.at = n]
          BY ONLY <4>2, <4>3, t \in Tasks
        <4>5. step'[t] = [at |-> n, left |-> step[t].left, executed |-> step[t].executed,
                          failed |-> step[t].failed + 1]
          BY ONLY <4>3, <4>4 DEF StepRecord
        <4>6. step'[t] \in StepRecord
          BY <4>3, <4>5 DEF StepRecord
        <4>7. DOMAIN step' = Tasks /\ \A u \in Tasks \ {t} : step'[u] = step[u]
          BY ONLY <4>2, <4>3
        <4>8. \A u \in Tasks : step'[u] \in StepRecord
          BY <4>6, <4>7 DEF WorkTyped
        <4> QED
          BY <4>2, <4>7, <4>8 DEF WorkTyped
      <3> QED
        BY <3>1, <3>2 DEF ActionRefused
    <2>2. UNCHANGED <<succeeded, counts, built>>
      BY DEF ActionRefused, countVars
    <2> QED
      BY <2>1, <2>2 DEF WorkTyped
  <1>3. step'[t].at <= Len(Plan(t)) + 1
    BY PlanType DEF RecoveryTypeOK, WorkTyped, StepRecord, ActionRefused, Counted, taskVars, frameVars, countVars
  <1>4. PlansCounted' /\ LoopBroken'
    BY DEF IInv, PlansCounted, LoopBroken, ActionRefused, countVars
  <1>6. AtAction(t)' /\ Frames(t)'
    BY DEF CallTyped, WorkTyped, StepRecord, Coherent, AtAction, Frames, ActionRefused, Counted, taskVars, frameVars, countVars
  <1>7. Earning(t)' /\ Judged(t)' /\ Answered(t)'
    BY PlanType DEF CallTyped, WorkTyped, StepRecord, Coherent, AtAction, Earning, Judged, Answered, ActionRefused, Counted, taskVars, frameVars, countVars
  <1>8. \A u \in Tasks \ {t} : Untouched(u)
    BY DEF CallTyped, WorkTyped, Untouched, ActionRefused, Counted, taskVars, frameVars, countVars
  <1> QED
    BY <1>1, <1>2, <1>3, <1>4, <1>6, <1>7, <1>8, Move DEF Coherent

LEMMA RetrySucceedsInv ==
  ASSUME IInv, NEW t \in Tasks, RetrySucceeds(t)
  PROVE  IInv'
  <1> CallTyped /\ WorkTyped /\ RecoveryTypeOK /\ Coherent(t)
    BY Typed DEF IInv
  <1> category' = category /\ Plan(t)' = Plan(t)
    BY PlanFixed DEF RetrySucceeds, taskVars
  <1> step[t].at <= Len(Plan(t)) /\ step[t].failed >= 1
    BY DEF RetrySucceeds, Coherent, AtAction
  <1>1. CallTyped'
    BY RecoveryAssumption DEF CallTyped, Points, RecoveryStatus, Decisions, RetrySucceeds, Counted, Goto, taskVars, frameVars, countVars
  <1>s. /\ step' \in [Tasks -> StepRecord] /\ \A u \in Tasks \ {t} : step'[u] = step[u]
        /\ step'[t].failed = step[t].failed - 1 /\ step'[t].at = step[t].at + 1
    BY CountedStep DEF RetrySucceeds, WorkTyped, StepRecord
  <1>2. WorkTyped'
    <2>1. step[t].at \in Nat
      BY DEF WorkTyped, StepRecord
    <2> QED
      BY <1>s, <2>1 DEF WorkTyped, RetrySucceeds, countVars
  <1>3. step'[t].at <= Len(Plan(t)) + 1
    <2>1. step[t].at \in Nat /\ step[t].at <= Len(Plan(t)) /\ Len(Plan(t)) \in Nat
      BY PlanType DEF WorkTyped, StepRecord, RetrySucceeds
    <2> QED
      BY <1>s, <2>1
  <1>4. PlansCounted' /\ LoopBroken'
    BY DEF IInv, PlansCounted, LoopBroken, RetrySucceeds, countVars
  <1>6. AtAction(t)' /\ Frames(t)'
    BY <1>s DEF CallTyped, WorkTyped, StepRecord, Coherent, AtAction, Frames, RetrySucceeds, Goto, frameVars
  <1>7. Earning(t)' /\ Judged(t)' /\ Answered(t)'
    BY <1>s DEF CallTyped, WorkTyped, StepRecord, Coherent, AtAction, Earning, Judged, Answered, RetrySucceeds, Goto
  <1>8. \A u \in Tasks \ {t} : Untouched(u)
    BY <1>s DEF CallTyped, WorkTyped, Untouched, RetrySucceeds, Goto, taskVars, frameVars
  <1> QED
    BY <1>1, <1>2, <1>3, <1>4, <1>6, <1>7, <1>8, Move DEF Coherent

LEMMA RetryFailsInv ==
  ASSUME IInv, NEW t \in Tasks, RetryFails(t)
  PROVE  IInv'
  <1> CallTyped /\ WorkTyped /\ RecoveryTypeOK /\ Coherent(t)
    BY Typed DEF IInv
  <1> category' = category /\ Plan(t)' = Plan(t)
    BY PlanFixed DEF RetryFails, taskVars
  <1> step[t].at <= Len(Plan(t)) /\ step[t].failed >= 1
    BY DEF RetryFails, Coherent, AtAction
  <1>1. CallTyped'
    BY RecoveryAssumption DEF CallTyped, Points, RecoveryStatus, Decisions, RetryFails, Counted, Goto, taskVars, frameVars, countVars
  <1>s. /\ step' \in [Tasks -> StepRecord] /\ \A u \in Tasks \ {t} : step'[u] = step[u]
        /\ step'[t].failed = step[t].failed
        /\ \/ pc' = pc /\ step'[t].at = step[t].at
           \/ Goto(t, "acting") /\ step'[t].at = step[t].at + 1
    <2>1. CASE Counted(t, 0, 0) /\ Goto(t, "acting")
      BY <2>1, CountedStep DEF WorkTyped, StepRecord
    <2>2. CASE step[t].left > 1 /\ step' = [step EXCEPT ![t].left = @ - 1] /\ UNCHANGED pc
      <3>1. step[t] \in StepRecord /\ step[t].left - 1 \in 0..2
        BY <2>2 DEF WorkTyped, StepRecord
      <3> QED
        BY <2>2, <3>1 DEF WorkTyped, StepRecord
    <2> QED
      BY <2>1, <2>2 DEF RetryFails
  <1>2. WorkTyped'
    BY <1>s DEF WorkTyped, RetryFails, countVars
  <1>3. step'[t].at <= Len(Plan(t)) + 1
    <2>1. step[t].at \in Nat /\ step[t].at <= Len(Plan(t)) /\ Len(Plan(t)) \in Nat
      BY PlanType DEF WorkTyped, StepRecord, RetryFails
    <2> QED
      BY <1>s, <2>1
  <1>4. PlansCounted' /\ LoopBroken'
    BY DEF IInv, PlansCounted, LoopBroken, RetryFails, countVars
  <1>6. AtAction(t)' /\ Frames(t)'
    BY <1>s DEF CallTyped, WorkTyped, StepRecord, Coherent, AtAction, Frames, RetryFails, Goto, frameVars
  <1>7. Earning(t)' /\ Judged(t)' /\ Answered(t)'
    BY <1>s DEF CallTyped, WorkTyped, StepRecord, Coherent, AtAction, Earning, Judged, Answered, RetryFails, Goto
  <1>8. \A u \in Tasks \ {t} : Untouched(u)
    BY <1>s DEF CallTyped, WorkTyped, Untouched, RetryFails, Goto, taskVars, frameVars
  <1> QED
    BY <1>1, <1>2, <1>3, <1>4, <1>6, <1>7, <1>8, Move DEF Coherent

\* A frame that does not call itself again has judged its plan: partial success is only
\* let out where the agent's bound is below the analyzer's.
LEMMA PlanDoneInv ==
  ASSUME IInv, NEW t \in Tasks, PlanDone(t)
  PROVE  IInv'
  <1> CallTyped /\ WorkTyped /\ RecoveryTypeOK /\ Coherent(t)
    BY Typed DEF IInv
  <1> category' = category /\ Plan(t)' = Plan(t)
    BY PlanFixed DEF PlanDone, taskVars
  <1>0. /\ AttemptStatus(t) \in RecoveryStatus
        /\ Recurses(t) => retryCount[t] < MaxRecoveryAttempts /\ depth[t] <= retryCount[t]
    BY DEF CallTyped, AttemptStatus, RecoveryStatus, Recurses, Coherent, Frames
  <1>1. CallTyped'
    <2>1. CASE Recurses(t)
      <3>1. depth[t] + 1 \in 0..MaxRecoveryAttempts /\ retryCount[t] + 1 \in Nat
        BY <1>0, <2>1, RecoveryAssumption DEF CallTyped
      <3> QED
        BY <1>0, <2>1, <3>1 DEF CallTyped, Points, PlanDone, Goto, taskVars
    <2>2. CASE ~Recurses(t)
      BY <2>2, <1>0, RecoveryAssumption DEF CallTyped, Points, RecoveryStatus, Decisions, PlanDone, Goto, FirstStep, taskVars, frameVars, countVars
    <2> QED
      BY <2>1, <2>2
  <1>2. WorkTyped'
    BY DEF WorkTyped, StepRecord, PlanDone, Goto, FirstStep, taskVars, frameVars, countVars
  <1>3. step'[t].at <= Len(Plan(t)) + 1
    BY PlanType DEF RecoveryTypeOK, WorkTyped, StepRecord, PlanDone, Goto, FirstStep, taskVars, frameVars, countVars
  <1>4. PlansCounted' /\ LoopBroken'
    BY DEF IInv, PlansCounted, LoopBroken, PlanDone, countVars
  <1>6. AtAction(t)' /\ Frames(t)' /\ Earning(t)' /\ Answered(t)'
    BY <1>0 DEF CallTyped, WorkTyped, Coherent, AtAction, Frames, Earning, Answered, PlanDone, Goto, FirstStep, taskVars, frameVars, countVars
  <1>7. Judged(t)'
    <2>1. CASE Recurses(t)
      BY <2>1 DEF CallTyped, Judged, PlanDone, Goto
    <2>2. CASE ~Recurses(t)
      <3>1. /\ pc'[t] = "learning" /\ status'[t] = AttemptStatus(t)
            /\ succeeded'[t] = succeeded[t]
        BY <2>2 DEF CallTyped, PlanDone, Goto
      <3>2. AttemptStatus(t) = "succeeded" => succeeded[t] = 1..Len(Plan(t))
        <4>1. step[t].at - 1 = Len(Plan(t))
          <5>1. step[t].at \in Nat /\ step[t].at <= Len(Plan(t)) + 1 /\ step[t].at > Len(Plan(t))
            BY DEF RecoveryTypeOK, WorkTyped, StepRecord, PlanDone
          <5> QED
            BY <5>1, PlanType
        <4> QED
          BY <4>1 DEF AttemptStatus, Coherent, Earning, PlanDone
      <3>3. AttemptStatus(t) = "partially_succeeded" => MaxRecoveryAttempts < 3
        BY <2>2, RecoveryAssumption DEF CallTyped, Recurses, Coherent, Frames, PlanDone
      <3> QED
        BY <3>1, <3>2, <3>3 DEF Judged
    <2> QED
      BY <2>1, <2>2
  <1>8. \A u \in Tasks \ {t} : Untouched(u)
    BY DEF CallTyped, WorkTyped, Untouched, PlanDone, Goto, FirstStep, taskVars, frameVars, countVars
  <1> QED
    BY <1>1, <1>2, <1>3, <1>4, <1>6, <1>7, <1>8, Move DEF Coherent

LEMMA LearnInv ==
  ASSUME IInv, NEW t \in Tasks, Learn(t)
  PROVE  IInv'
  <1> CallTyped /\ WorkTyped /\ RecoveryTypeOK /\ Coherent(t)
    BY Typed DEF IInv
  <1> category' = category /\ Plan(t)' = Plan(t)
    BY PlanFixed DEF Learn, taskVars
  <1>1. CallTyped'
    BY RecoveryAssumption DEF CallTyped, Points, RecoveryStatus, Decisions, Learn, Goto, taskVars, frameVars, countVars
  <1>2. WorkTyped'
    BY DEF WorkTyped, StepRecord, Learn, Goto, taskVars, frameVars, countVars
  <1>3. step'[t].at <= Len(Plan(t)) + 1
    BY PlanType DEF RecoveryTypeOK, WorkTyped, StepRecord, Learn, Goto, taskVars, frameVars, countVars
  <1>4. PlansCounted' /\ LoopBroken'
    BY DEF IInv, PlansCounted, LoopBroken, Learn, countVars
  <1>6. AtAction(t)' /\ Frames(t)'
    BY DEF CallTyped, WorkTyped, StepRecord, Coherent, AtAction, Frames, Learn, Goto, taskVars, frameVars, countVars
  <1>7. Earning(t)' /\ Judged(t)' /\ Answered(t)'
    BY PlanType DEF CallTyped, WorkTyped, StepRecord, Coherent, AtAction, Earning, Judged, Answered, Learn, Goto, taskVars, frameVars, countVars
  <1>8. \A u \in Tasks \ {t} : Untouched(u)
    BY DEF CallTyped, WorkTyped, Untouched, Learn, Goto, taskVars, frameVars, countVars
  <1> QED
    BY <1>1, <1>2, <1>3, <1>4, <1>6, <1>7, <1>8, Move DEF Coherent

LEMMA CompleteInv ==
  ASSUME IInv, NEW t \in Tasks, Complete(t)
  PROVE  IInv'
  <1> CallTyped /\ WorkTyped /\ RecoveryTypeOK /\ Coherent(t)
    BY Typed DEF IInv
  <1> category' = category /\ Plan(t)' = Plan(t)
    BY PlanFixed DEF Complete, taskVars
  <1>1. CallTyped'
    <2>1. CASE depth[t] = 0
      BY <2>1, RecoveryAssumption DEF CallTyped, Points, RecoveryStatus, Decisions, Complete, Return, Answer, Goto, taskVars, frameVars, countVars
    <2>2. CASE depth[t] # 0
      <3>1. depth[t] - 1 \in 0..MaxRecoveryAttempts
        BY <2>2, RecoveryAssumption DEF CallTyped
      <3> QED
        BY <2>2, <3>1 DEF CallTyped, Points, RecoveryStatus, Decisions, Complete, Return, Answer, Goto, taskVars, frameVars, countVars
    <2> QED
      BY <2>1, <2>2
  <1>2. WorkTyped'
    BY DEF WorkTyped, StepRecord, Complete, Return, Answer, Goto, taskVars, frameVars, countVars
  <1>3. step'[t].at <= Len(Plan(t)) + 1
    BY PlanType DEF RecoveryTypeOK, WorkTyped, StepRecord, Complete, Return, Answer, Goto, taskVars, frameVars, countVars
  <1>4. PlansCounted' /\ LoopBroken'
    BY DEF IInv, PlansCounted, LoopBroken, Complete, countVars
  <1>6. AtAction(t)' /\ Frames(t)'
    BY DEF CallTyped, WorkTyped, StepRecord, Coherent, AtAction, Frames, Complete, Return, Answer, Goto, taskVars, frameVars, countVars
  <1>7. Earning(t)' /\ Judged(t)' /\ Answered(t)'
    BY PlanType DEF CallTyped, WorkTyped, StepRecord, Coherent, AtAction, Earning, Judged, Answered, Complete, Return, Answer, Goto, taskVars, frameVars, countVars
  <1>8. \A u \in Tasks \ {t} : Untouched(u)
    BY DEF CallTyped, WorkTyped, Untouched, Complete, Return, Answer, Goto, taskVars, frameVars, countVars
  <1> QED
    BY <1>1, <1>2, <1>3, <1>4, <1>6, <1>7, <1>8, Move DEF Coherent

LEMMA EscalateInv ==
  ASSUME IInv, NEW t \in Tasks, Escalate(t)
  PROVE  IInv'
  <1> CallTyped /\ WorkTyped /\ RecoveryTypeOK /\ Coherent(t)
    BY Typed DEF IInv
  <1> category' = category /\ Plan(t)' = Plan(t)
    BY PlanFixed DEF Escalate, taskVars
  <1>1. CallTyped'
    <2>1. CASE depth[t] = 0
      BY <2>1, RecoveryAssumption DEF CallTyped, Points, RecoveryStatus, Decisions, Escalate, Return, Answer, Goto, taskVars, frameVars, countVars
    <2>2. CASE depth[t] # 0
      <3>1. depth[t] - 1 \in 0..MaxRecoveryAttempts
        BY <2>2, RecoveryAssumption DEF CallTyped
      <3> QED
        BY <2>2, <3>1 DEF CallTyped, Points, RecoveryStatus, Decisions, Escalate, Return, Answer, Goto, taskVars, frameVars, countVars
    <2> QED
      BY <2>1, <2>2
  <1>2. WorkTyped'
    BY DEF WorkTyped, StepRecord, Escalate, Return, Answer, Goto, taskVars, frameVars, countVars
  <1>3. step'[t].at <= Len(Plan(t)) + 1
    BY PlanType DEF RecoveryTypeOK, WorkTyped, StepRecord, Escalate, Return, Answer, Goto, taskVars, frameVars, countVars
  <1>4. PlansCounted' /\ LoopBroken'
    BY DEF IInv, PlansCounted, LoopBroken, Escalate, countVars
  <1>6. AtAction(t)' /\ Frames(t)'
    BY DEF CallTyped, WorkTyped, StepRecord, Coherent, AtAction, Frames, Escalate, Return, Answer, Goto, taskVars, frameVars, countVars
  <1>7. Earning(t)' /\ Judged(t)' /\ Answered(t)'
    BY PlanType DEF CallTyped, WorkTyped, StepRecord, Coherent, AtAction, Earning, Judged, Answered, Escalate, Return, Answer, Goto, taskVars, frameVars, countVars
  <1>8. \A u \in Tasks \ {t} : Untouched(u)
    BY DEF CallTyped, WorkTyped, Untouched, Escalate, Return, Answer, Goto, taskVars, frameVars, countVars
  <1> QED
    BY <1>1, <1>2, <1>3, <1>4, <1>6, <1>7, <1>8, Move DEF Coherent

LEMMA HandlerRaisesInv ==
  ASSUME IInv, NEW t \in Tasks, HandlerRaises(t)
  PROVE  IInv'
  <1> CallTyped /\ WorkTyped /\ RecoveryTypeOK /\ Coherent(t)
    BY Typed DEF IInv
  <1> category' = category /\ Plan(t)' = Plan(t)
    BY PlanFixed DEF HandlerRaises, taskVars
  <1>1. CallTyped'
    BY RecoveryAssumption DEF CallTyped, Points, RecoveryStatus, Decisions, HandlerRaises, Goto, taskVars, frameVars, countVars
  <1>2. WorkTyped'
    BY DEF WorkTyped, StepRecord, HandlerRaises, Goto, taskVars, frameVars, countVars
  <1>3. step'[t].at <= Len(Plan(t)) + 1
    BY PlanType DEF RecoveryTypeOK, WorkTyped, StepRecord, HandlerRaises, Goto, taskVars, frameVars, countVars
  <1>4. PlansCounted' /\ LoopBroken'
    BY DEF IInv, PlansCounted, LoopBroken, HandlerRaises, countVars
  <1>6. AtAction(t)' /\ Frames(t)'
    BY DEF CallTyped, WorkTyped, StepRecord, Coherent, AtAction, Frames, HandlerRaises, Goto, taskVars, frameVars, countVars
  <1>7. Earning(t)' /\ Judged(t)' /\ Answered(t)'
    BY PlanType DEF CallTyped, WorkTyped, StepRecord, Coherent, AtAction, Earning, Judged, Answered, HandlerRaises, Goto, taskVars, frameVars, countVars
  <1>8. \A u \in Tasks \ {t} : Untouched(u)
    BY DEF CallTyped, WorkTyped, Untouched, HandlerRaises, Goto, taskVars, frameVars, countVars
  <1> QED
    BY <1>1, <1>2, <1>3, <1>4, <1>6, <1>7, <1>8, Move DEF Coherent

LEMMA RaiseInv ==
  ASSUME IInv, NEW t \in Tasks, Raise(t)
  PROVE  IInv'
  <1> CallTyped /\ WorkTyped /\ RecoveryTypeOK /\ Coherent(t)
    BY Typed DEF IInv
  <1> category' = category /\ Plan(t)' = Plan(t)
    BY PlanFixed DEF Raise, taskVars
  <1>1. CallTyped'
    <2>1. CASE depth[t] = 0
      BY <2>1, RecoveryAssumption DEF CallTyped, Points, RecoveryStatus, Decisions, Raise, Goto, taskVars, frameVars, countVars
    <2>2. CASE depth[t] # 0
      <3>1. depth[t] - 1 \in 0..MaxRecoveryAttempts
        BY <2>2, RecoveryAssumption DEF CallTyped
      <3> QED
        BY <2>2, <3>1 DEF CallTyped, Points, RecoveryStatus, Decisions, Raise, Goto, taskVars, frameVars, countVars
    <2> QED
      BY <2>1, <2>2
  <1>2. WorkTyped'
    BY DEF WorkTyped, StepRecord, Raise, Goto, taskVars, frameVars, countVars
  <1>3. step'[t].at <= Len(Plan(t)) + 1
    BY PlanType DEF RecoveryTypeOK, WorkTyped, StepRecord, Raise, Goto, taskVars, frameVars, countVars
  <1>4. PlansCounted' /\ LoopBroken'
    BY DEF IInv, PlansCounted, LoopBroken, Raise, countVars
  <1>6. AtAction(t)' /\ Frames(t)'
    BY DEF CallTyped, WorkTyped, StepRecord, Coherent, AtAction, Frames, Raise, Goto, taskVars, frameVars, countVars
  <1>7. Earning(t)' /\ Judged(t)' /\ Answered(t)'
    BY PlanType DEF CallTyped, WorkTyped, StepRecord, Coherent, AtAction, Earning, Judged, Answered, Raise, Goto, taskVars, frameVars, countVars
  <1>8. \A u \in Tasks \ {t} : Untouched(u)
    BY DEF CallTyped, WorkTyped, Untouched, Raise, Goto, taskVars, frameVars, countVars
  <1> QED
    BY <1>1, <1>2, <1>3, <1>4, <1>6, <1>7, <1>8, Move DEF Coherent

LEMMA StepInv == IInv /\ [Next]_vars => IInv'
  <1> SUFFICES ASSUME IInv, [Next]_vars PROVE IInv'
    OBVIOUS
  <1>1. CASE UNCHANGED vars
    BY <1>1 DEF vars, taskVars, frameVars, countVars, IInv, RecoveryTypeOK, PlansCounted, LoopBroken,
                Coherent, AtAction, Frames, Earning, Judged, Answered, Plan
  <1>2. ASSUME NEW t \in Tasks, Recover(t) \/ Step(t) PROVE IInv'
    BY <1>2, RecoverInv, AssessInv, StartPlanInv, ActionSucceedsInv, ActionFailsInv,
       ActionRefusedInv, RetrySucceedsInv, RetryFailsInv, PlanDoneInv, LearnInv, CompleteInv,
       EscalateInv, HandlerRaisesInv, RaiseInv DEF Step
  <1> QED
    BY <1>1, <1>2 DEF Next

\* The inductive invariant holds in every run: of the executor's position, the frames of
\* the recursion, the results they hand out and the counters all calls share.
THEOREM Invariance == Spec => []IInv
  BY InitInv, StepInv, PTL DEF Spec

-----------------------------------------------------------------------------
(* What follows from it                                                    *)

LEMMA InvTypes == IInv => RecoveryTypeOK /\ LoopBroken
  BY DEF IInv

\* A retry that succeeds never takes back a failure that was not counted, and the
\* recursion never goes deeper than the agent's bound.
THEOREM RecoveryTypes == Spec => []RecoveryTypeOK
  BY Invariance, InvTypes, PTL

\* No key gets more plans than the threshold of the failure loop, for any number of
\* tasks, of plans that were registered, and of calls that interleave.
THEOREM LoopsBroken == Spec => []LoopBroken
  BY Invariance, InvTypes, PTL

\* Where the agent may call itself as often as the analyzer lets it (the code has 3 for
\* both bounds), only a plan all of whose actions succeeded earns a retry.
THEOREM RetriesEarned ==
  ASSUME MaxRecoveryAttempts >= 3
  PROVE  Spec => []RetryEarned
  <1>1. IInv => RetryEarned
    BY RecoveryAssumption DEF IInv, Coherent, Answered, RetryEarned
  <1> QED
    BY <1>1, Invariance, PTL

=============================================================================
