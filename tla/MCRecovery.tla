------------------------------ MODULE MCRecovery ------------------------------
(* Two tasks that fail on the same artifact and wait before they retry, or two      *)
(* whose category has a registered strategy with the other kinds of action.          *)
EXTENDS Recovery, TLC

CONSTANTS t1, t2

TwoTasks == {t1, t2}
TwoCategories == {"runtime", "system"}
SameArtifact == [t \in TwoTasks |-> t1]

SystemPlan ==
  <<[kind |-> "waits", retries |-> 1, goesOn |-> TRUE], Act("unknown", 2),
    [kind |-> "refused", retries |-> 1, goesOn |-> TRUE], Act("refused", 1)>>

SystemStrategy == "system" :> SystemPlan
=============================================================================
