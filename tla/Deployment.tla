------------------------------ MODULE Deployment ------------------------------
(***************************************************************************)
(* deployment/: DeploymentAgent with its connection manager, executor,     *)
(* monitor and rollback manager, serving several calls at once.            *)
(*                                                                         *)
(* An action is the code of one call from one await to the next.  The      *)
(* calls share the SalesforceCliHelper, which asks the CLI once and keeps  *)
(* the answer.  The Salesforce CLI and the org are external: the CLI       *)
(* answers or fails as it likes, and a deployment that it reports as       *)
(* failed (or that timed out) may still have reached the org.              *)
(*                                                                         *)
(* All components of one request share a status, which the executor never  *)
(* sets to "failed": the failure categories of the monitor stay empty, so  *)
(* every failed report counts as recoverable and the agent's own branch    *)
(* that plans a rollback is not reached.                                   *)
(***************************************************************************)
EXTENDS Integers, FiniteSets

CONSTANTS
  Callers,       \* concurrent calls of deploy and quick_deploy
  Requests,      \* the DeploymentRequests they may make
  CliEnabled,    \* the helper is enabled and has a tool executor
  JobKnown,      \* the CLI may know a job of the id that the agent has made up
  MaxPolls,      \* polls that fit into max_wait_time_minutes
  MaxRollbacks   \* rollback_deployment calls per report: bounds a behaviour

Environments == {"dev", "production"}
Strategies == {"validate_only", "full_deploy"}
ConnectionTypes == {"jwt", "oauth2", "sfdx", "username_password"}

\* orgId and artifacts say whether the field is there; environment is that of the
\* request, target that of its connection.
DeploymentRequest ==
  [orgId: BOOLEAN, artifacts: BOOLEAN, environment: Environments, target: Environments,
   isProduction: BOOLEAN, type: ConnectionTypes, strategy: Strategies]

ASSUME DeploymentAssumption ==
  /\ Requests \subseteq DeploymentRequest /\ Requests # {}
  /\ CliEnabled \in BOOLEAN /\ JobKnown \in BOOLEAN
  /\ MaxPolls \in Nat \ {0} /\ MaxRollbacks \in Nat

VARIABLES
  pc,         \* where each call is parked
  request,    \* the request of each call
  source,     \* where the access token of its session came from
  report,     \* DeploymentReport: its status and what its rollback plan targets
  poll,       \* the monitor's loop: polls made and the status kept for the deployment
  announced,  \* the events published for the call
  org,        \* calls whose artifacts have been written to the org
  available,  \* SalesforceCliHelper._available
  asking,     \* calls awaiting the answer to org_list
  rollbacks   \* rollback_deployment calls made per report

cliVars == <<available, asking>>
vars == <<pc, request, source, report, poll, announced, org, available,
          asking, rollbacks>>

DeploymentStatus == {"in_progress", "succeeded", "failed", "rolled_back"}
Plans == {"none", "untargeted", "targeted"}
Sources == {"none", "simulated", "salesforce_cli", "oauth_password_grant"}
\* A status dictionary of the monitor: what it says, and number_component_errors > 0.
Seen == [state: {"none", "In Progress", "Queued", "done"}, errors: BOOLEAN]
Events == {"deployment.started", "deployment.completed", "deployment.failed",
           "deployment.recovery_attempted", "deployment.rollback_completed",
           "deployment.rollback_failed"}
Points == {"idle", "starting", "connecting", "authenticating", "validating", "dryRun",
           "deploying", "cliDeploy", "polling", "recovering", "recording", "completing",
           "failing", "returned", "raised", "quickConnecting", "quickDeploying",
           "quickCli", "rbConnecting", "reverting", "rbCompleted", "rbFailed"}

DeploymentTypeOK ==
  /\ pc \in [Callers -> Points]
  /\ request \in [Callers -> Requests]
  /\ source \in [Callers -> Sources]
  /\ report \in [Callers -> [status: DeploymentStatus, plan: Plans]]
  /\ poll \in [Callers -> [count: 0..MaxPolls, seen: Seen]]
  /\ announced \in [Callers -> SUBSET Events]
  /\ org \subseteq Callers
  /\ available \in {"unknown", "yes", "no"} /\ asking \subseteq Callers
  /\ rollbacks \in [Callers -> 0..MaxRollbacks]

Goto(c, point) == pc' = [pc EXCEPT ![c] = point]
Announce(c, event) == announced' = [announced EXCEPT ![c] = @ \cup {event}]
Set(c, status, plan) == report' = [report EXCEPT ![c] = [status |-> status, plan |-> plan]]

-----------------------------------------------------------------------------
(* SalesforceCliHelper.is_available                                        *)

AskCli(c) ==
  /\ pc[c] \in {"validating", "deploying", "quickDeploying", "polling"}
  /\ CliEnabled /\ available = "unknown" /\ c \notin asking
  /\ poll[c].seen.state = "none"
  /\ asking' = asking \cup {c}
  /\ UNCHANGED <<pc, request, source, report, poll, announced, org, available, rollbacks>>

\* The call goes on with the answer: the one it asked for, which it keeps for all,
\* or one kept from before.
Learns(c, answer) ==
  \/ ~CliEnabled /\ answer = "no" /\ UNCHANGED cliVars
  \/ CliEnabled /\ c \notin asking /\ available = answer /\ UNCHANGED cliVars
  \/ c \in asking /\ available' = answer /\ asking' = asking \ {c}

-----------------------------------------------------------------------------
(* ConnectionManager.create_connection and the authenticate methods        *)

\* What the authenticate methods come to.  deploy passes no credentials: OAuth2, which
\* wants a refresh token, is not even built.  A password login is simulated unless its
\* credentials are configured.
JwtAuthentication == {"simulated"}
OAuth2Authentication == {"raises"}
SfdxAuthentication == {"simulated", "salesforce_cli"}
PasswordAuthentication == {"simulated", "oauth_password_grant", "raises"}

Authentications(type) ==
  CASE type = "jwt" -> JwtAuthentication
    [] type = "oauth2" -> OAuth2Authentication
    [] type = "sfdx" -> SfdxAuthentication
    [] type = "username_password" -> PasswordAuthentication

-----------------------------------------------------------------------------
(* DeploymentAgent.deploy up to the executor                               *)

Deploy(c) ==
  /\ pc[c] = "idle"
  /\ Announce(c, "deployment.started")
  /\ Goto(c, "starting")
  /\ UNCHANGED <<request, source, report, poll, org, cliVars, rollbacks>>

PrerequisitesHold(q) ==
  q.orgId /\ q.artifacts /\ (q.environment = "production" => q.isProduction)

\* _verify_prerequisites, once the started event is published.
Verify(c) ==
  /\ pc[c] = "starting"
  /\ Goto(c, IF PrerequisitesHold(request[c]) THEN "connecting" ELSE "failing")
  /\ UNCHANGED <<request, source, report, poll, announced, org, cliVars, rollbacks>>

\* A handler of an event raises: publish raises in the agent, whose except clause
\* publishes deployment.failed whatever the deployment has come to.
HandlerRaises(c) ==
  /\ pc[c] \in {"starting", "recovering", "completing"}
  /\ Goto(c, "failing")
  /\ UNCHANGED <<request, source, report, poll, announced, org, cliVars, rollbacks>>

\* create_connection authenticates a first time.
Connect(c) ==
  /\ pc[c] = "connecting"
  /\ \E s \in Authentications(request[c].type) :
       IF s = "raises" THEN Goto(c, "failing") /\ UNCHANGED source
       ELSE Goto(c, "authenticating") /\ source' = [source EXCEPT ![c] = s]
  /\ UNCHANGED <<request, report, poll, announced, org, cliVars, rollbacks>>

\* Mutant of Admitted: the guard looks at the session of create_connection.
AdmittedBefore(c, s) ==
  ~(request[c].environment = "production" /\ source[c] = "simulated")

\* The production guard, which looks at the session of the second authenticate.
Admitted(c, s) == ~(request[c].environment = "production" /\ s = "simulated")

\* deploy authenticates again and hands over to the executor, whose own checks of the
\* prerequisites repeat those of the agent.
Authenticate(c) ==
  /\ pc[c] = "authenticating"
  /\ \E s \in Authentications(request[c].type) :
       \/ s = "raises" /\ Goto(c, "failing") /\ UNCHANGED source
       \/ /\ s # "raises" /\ source' = [source EXCEPT ![c] = s]
          /\ Goto(c, IF Admitted(c, s) THEN "validating" ELSE "failing")
  /\ UNCHANGED <<request, report, poll, announced, org, cliVars, rollbacks>>

-----------------------------------------------------------------------------
(* DeploymentExecutor.execute_deployment                                   *)

\* After _validate_metadata: a validation succeeds, a deployment is executed.
AfterValidation(c) ==
  IF request[c].strategy = "validate_only"
  THEN Set(c, "succeeded", "none") /\ Goto(c, "polling")
  ELSE UNCHANGED report /\ Goto(c, "deploying")

ValidateOffline(c) ==
  /\ pc[c] = "validating" /\ Learns(c, "no")
  /\ AfterValidation(c)
  /\ UNCHANGED <<request, source, poll, announced, org, rollbacks>>

ValidateByCli(c) ==
  /\ pc[c] = "validating" /\ Learns(c, "yes")
  /\ Goto(c, "dryRun")
  /\ UNCHANGED <<request, source, report, poll, announced, org, rollbacks>>

\* A dry run that fails is taken for a CLI that is not there: the components count as
\* validated all the same.
DryRunReturns(c) ==
  /\ pc[c] = "dryRun"
  /\ AfterValidation(c)
  /\ UNCHANGED <<request, source, poll, announced, org, cliVars, rollbacks>>

\* _execute_deployment without the CLI: production fails, anything else is simulated.
\* _finalize_report gives a failed report a rollback plan without target version.
Fallback(c) ==
  /\ IF request[c].target = "production"
     THEN Set(c, "failed", "untargeted") ELSE Set(c, "succeeded", "none")
  /\ Goto(c, "polling")

DeployOffline(c) ==
  /\ pc[c] = "deploying" /\ Learns(c, "no")
  /\ Fallback(c)
  /\ UNCHANGED <<request, source, poll, announced, org, rollbacks>>

DeployByCli(c) ==
  /\ pc[c] = "deploying" /\ Learns(c, "yes")
  /\ Goto(c, "cliDeploy")
  /\ UNCHANGED <<request, source, report, poll, announced, org, rollbacks>>

CliDeploySucceeds(c) ==
  /\ pc[c] = "cliDeploy"
  /\ org' = org \cup {c}
  /\ Set(c, "succeeded", "none") /\ Goto(c, "polling")
  /\ UNCHANGED <<request, source, poll, announced, cliVars, rollbacks>>

\* project_deploy answers None for a failure and for a time-out alike.
CliDeployFails(c) ==
  /\ pc[c] = "cliDeploy"
  /\ \E landed \in SUBSET {c} : org' = org \cup landed
  /\ Fallback(c)
  /\ UNCHANGED <<request, source, poll, announced, cliVars, rollbacks>>

-----------------------------------------------------------------------------
(* DeploymentMonitor.monitor_progress                                      *)

NoPoll == [count |-> 0, seen |-> [state |-> "none", errors |-> FALSE]]

\* _execute_deployment of the agent after the monitor, which is then dropped.
Monitored(c, status) ==
  /\ poll' = [poll EXCEPT ![c] = NoPoll]
  /\ report' = [report EXCEPT ![c].status = status]
  /\ Goto(c, IF status = "failed" THEN "recovering" ELSE "recording")
  /\ IF status = "failed" THEN Announce(c, "deployment.recovery_attempted") ELSE UNCHANGED announced

\* Mutant of PollTimedOut: the clock never reaches the limit.
PollNeverTimesOut(c) == pc[c] = "polling" /\ poll[c].count > MaxPolls /\ UNCHANGED vars

\* The clock has passed max_wait_time_minutes, which it has after MaxPolls polls.
PollTimedOut(c) ==
  /\ pc[c] = "polling" /\ poll[c].count > 0
  /\ Monitored(c, "failed")
  /\ UNCHANGED <<request, source, org, cliVars, rollbacks>>

\* _update_report_from_status and the end of the loop: only a status that is done
\* changes the report, and then whatever the executor has found.
Updated(c, seen) ==
  /\ IF seen.state = "done"
     THEN Monitored(c, IF seen.errors THEN "failed" ELSE "succeeded")
     ELSE /\ poll' = [poll EXCEPT ![c] = [count |-> @.count + 1, seen |-> seen]]
          /\ UNCHANGED <<report, announced, pc>>
  /\ UNCHANGED <<request, source, org, rollbacks>>

\* Mutant of Polls: one poll too many.
PollsOnceMore(c) == pc[c] = "polling" /\ poll[c].count <= MaxPolls

Polls(c) == pc[c] = "polling" /\ poll[c].count < MaxPolls

\* _get_deployment_status of a deployment with a status: "In Progress" turns into
\* "Succeeded", with the component errors it had; nobody asks the CLI again.
Cached(seen) == IF seen.state = "In Progress" THEN [seen EXCEPT !.state = "done"] ELSE seen

PollCached(c) ==
  /\ Polls(c) /\ poll[c].seen.state # "none"
  /\ Updated(c, Cached(poll[c].seen))
  /\ UNCHANGED cliVars

\* Without CLI, or when its report fails, a deployment is said to be in progress.
PollOffline(c) ==
  /\ Polls(c) /\ poll[c].seen.state = "none"
  /\ \E answer \in {"yes", "no"} : Learns(c, answer)
  /\ Updated(c, [state |-> "In Progress", errors |-> FALSE])

PollByCli(c) ==
  /\ Polls(c) /\ poll[c].seen.state = "none"
  /\ Learns(c, "yes") /\ JobKnown
  /\ \E seen \in {s \in Seen : s.state # "none"} : Updated(c, seen)

-----------------------------------------------------------------------------
(* The end of DeploymentAgent.deploy                                       *)

RecoveryAnnounced(c) ==
  /\ pc[c] = "recovering"
  /\ Goto(c, "recording")
  /\ UNCHANGED <<request, source, report, poll, announced, org, cliVars, rollbacks>>

\* _record_deployment_history has swallowed any exception of the memory manager.
HistoryRecorded(c) ==
  /\ pc[c] = "recording"
  /\ Announce(c, "deployment.completed")
  /\ Goto(c, "completing")
  /\ UNCHANGED <<request, source, report, poll, org, cliVars, rollbacks>>

Returned(c) ==
  /\ pc[c] = "completing"
  /\ Goto(c, "returned")
  /\ UNCHANGED <<request, source, report, poll, announced, org, cliVars, rollbacks>>

Raised(c) ==
  /\ pc[c] = "failing"
  /\ Announce(c, "deployment.failed")
  /\ Goto(c, "raised")
  /\ UNCHANGED <<request, source, report, poll, org, cliVars, rollbacks>>

-----------------------------------------------------------------------------
(* DeploymentAgent.quick_deploy                                            *)

QuickDeploy(c) ==
  /\ pc[c] = "idle"
  /\ Goto(c, "quickConnecting")
  /\ UNCHANGED <<request, source, report, poll, announced, org, cliVars, rollbacks>>

QuickConnect(c) ==
  /\ pc[c] = "quickConnecting"
  /\ \E s \in Authentications(request[c].type) :
       IF s = "raises" THEN Goto(c, "raised") /\ UNCHANGED source
       ELSE Goto(c, "quickDeploying") /\ source' = [source EXCEPT ![c] = s]
  /\ UNCHANGED <<request, report, poll, announced, org, cliVars, rollbacks>>

QuickByCli(c) ==
  /\ pc[c] = "quickDeploying" /\ Learns(c, "yes")
  /\ Goto(c, "quickCli")
  /\ UNCHANGED <<request, source, report, poll, announced, org, rollbacks>>

\* Whatever the CLI does, and without it, the report says SUCCEEDED.
QuickReturns(c) ==
  /\ \/ /\ pc[c] = "quickCli" /\ UNCHANGED cliVars
        /\ \E landed \in SUBSET {c} : org' = org \cup landed
     \/ pc[c] = "quickDeploying" /\ Learns(c, "no") /\ UNCHANGED org
  /\ Set(c, "succeeded", "none")
  /\ Goto(c, "returned")
  /\ UNCHANGED <<request, source, poll, announced, rollbacks>>

-----------------------------------------------------------------------------
(* RollbackManager and DeploymentAgent.rollback_deployment                 *)

\* Mutant of MayPlan: any report that is not rolled back can be planned for.
MayPlanAny(r) == r.status # "rolled_back"

\* plan_rollback raises for any other report.
MayPlan(r) == r.status = "failed"

\* The caller plans a rollback of the report it was given: the only way to a plan with
\* a target version.
PlanRollback(c) ==
  /\ pc[c] = "returned" /\ MayPlan(report[c]) /\ report[c].plan # "targeted"
  /\ report' = [report EXCEPT ![c].plan = "targeted"]
  /\ UNCHANGED <<pc, request, source, poll, announced, org, cliVars, rollbacks>>

CanRollback(r) == r.status # "succeeded" /\ r.plan = "targeted"

Rollback(c) ==
  /\ pc[c] = "returned" /\ rollbacks[c] < MaxRollbacks
  /\ rollbacks' = [rollbacks EXCEPT ![c] = @ + 1]
  /\ Goto(c, "rbConnecting")
  /\ UNCHANGED <<request, source, report, poll, announced, org, cliVars>>

\* A new session, and then the report as it is: False without a usable plan.
RollbackConnected(c) ==
  /\ pc[c] = "rbConnecting"
  /\ \E s \in Authentications(request[c].type) :
       \/ s = "raises" /\ Goto(c, "rbFailed") /\ UNCHANGED source
       \/ /\ s # "raises" /\ source' = [source EXCEPT ![c] = s]
          /\ Goto(c, IF CanRollback(report[c]) THEN "reverting" ELSE "returned")
  /\ UNCHANGED <<request, report, poll, announced, org, cliVars, rollbacks>>

\* A full rollback is a wait and a verification that always succeeds; the org is not
\* touched.
Reverted(c) ==
  /\ pc[c] = "reverting"
  /\ report' = [report EXCEPT ![c].status = "rolled_back"]
  /\ Announce(c, "deployment.rollback_completed")
  /\ Goto(c, "rbCompleted")
  /\ UNCHANGED <<request, source, poll, org, cliVars, rollbacks>>

\* The event is published, or a handler raises: then rollback_failed follows, and the
\* answer is False although the report says ROLLED_BACK.
RollbackAnswered(c) ==
  /\ pc[c] = "rbCompleted"
  /\ \E point \in {"returned", "rbFailed"} : Goto(c, point)
  /\ UNCHANGED <<request, source, report, poll, announced, org, cliVars, rollbacks>>

RollbackFailed(c) ==
  /\ pc[c] = "rbFailed"
  /\ Announce(c, "deployment.rollback_failed")
  /\ Goto(c, "returned")
  /\ UNCHANGED <<request, source, report, poll, org, cliVars, rollbacks>>

-----------------------------------------------------------------------------

Init ==
  /\ pc = [c \in Callers |-> "idle"]
  /\ request \in [Callers -> Requests]
  /\ source = [c \in Callers |-> "none"]
  /\ report = [c \in Callers |-> [status |-> "in_progress", plan |-> "none"]]
  /\ poll = [c \in Callers |-> NoPoll]
  /\ announced = [c \in Callers |-> {}]
  /\ org = {}
  /\ available = "unknown" /\ asking = {}
  /\ rollbacks = [c \in Callers |-> 0]

\* What runs by itself once a call is under way.
Step(c) ==
  \/ AskCli(c) \/ Verify(c) \/ Connect(c) \/ Authenticate(c)
  \/ ValidateOffline(c) \/ ValidateByCli(c) \/ DryRunReturns(c)
  \/ DeployOffline(c) \/ DeployByCli(c) \/ CliDeploySucceeds(c) \/ CliDeployFails(c)
  \/ PollTimedOut(c) \/ PollCached(c) \/ PollOffline(c) \/ PollByCli(c)
  \/ RecoveryAnnounced(c) \/ HistoryRecorded(c) \/ Returned(c) \/ Raised(c)
  \/ QuickConnect(c) \/ QuickByCli(c) \/ QuickReturns(c)
  \/ RollbackConnected(c) \/ Reverted(c) \/ RollbackAnswered(c) \/ RollbackFailed(c)
  \/ HandlerRaises(c)

\* What a caller decides.
Call(c) == Deploy(c) \/ QuickDeploy(c) \/ PlanRollback(c) \/ Rollback(c)

Next == \E c \in Callers : Step(c) \/ Call(c)

Spec == Init /\ [][Next]_vars

\* Awaits of the CLI, the org and the handlers return: every call under way goes on.
FairSpec == Spec /\ \A c \in Callers : WF_vars(Step(c))

-----------------------------------------------------------------------------
(* Properties                                                              *)

\* deploy writes to the org only for a request that is to be deployed, and for the
\* production environment only over a production connection and a session that is
\* not simulated, whatever its two authentications have answered (agent.py:104-113).
ProductionIsReal ==
  [][\A c \in Callers :
       c \in org' \ org /\ pc[c] = "cliDeploy" =>
         /\ request[c].strategy # "validate_only"
         /\ request[c].environment = "production" =>
              request[c].isProduction /\ source[c] # "simulated"]_vars

\* A rollback plan has a target version only where a deployment has failed, and only
\* such a deployment is ever reported as rolled back: a rollback never undoes a
\* deployment that was reported as succeeded (rollback.py:55, 265-274).
RollbackPlanned ==
  \A c \in Callers :
    /\ report[c].plan = "targeted" => report[c].status \in {"failed", "rolled_back"}
    /\ report[c].status = "rolled_back" => report[c].plan = "targeted"

\* Every call returns or raises, whatever the CLI, the org and the handlers do: in
\* particular a status that never becomes done ends in the monitor's time-out
\* (monitor.py:59-98).
CallsAnswered ==
  \A c \in Callers : pc[c] # "idle" ~> pc[c] \in {"returned", "raised"}

\* A full deployment to production is reported as succeeded only if it has reached
\* the org (the comment of executor.py:252).  The monitor breaks it.
ProductionNotPretended ==
  \A c \in Callers :
    /\ pc[c] = "returned" /\ "deployment.completed" \in announced[c]
    /\ request[c].target = "production" /\ request[c].strategy = "full_deploy"
    /\ report[c].status = "succeeded"
    => c \in org
=============================================================================
