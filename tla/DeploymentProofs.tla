--------------------------- MODULE DeploymentProofs ---------------------------
(***************************************************************************)
(* What the deployment agent writes to an org and what it rolls back, for  *)
(* any number of calls that share the CLI helper, any requests and any     *)
(* answers of the CLI.                                                     *)
(***************************************************************************)
EXTENDS Deployment, TLAPS

\* The points of deploy between its checks and the write to the org, and those of a call
\* that has returned a report.
Checked == {"connecting", "authenticating", "validating", "dryRun", "deploying", "cliDeploy"}
Admittance == {"validating", "dryRun", "deploying", "cliDeploy"}
Reported == {"returned", "rbConnecting", "reverting", "rbCompleted", "rbFailed"}

\* What the agent has checked still holds where the executor works: requests do not change,
\* and the session is the one that was let in.
Guarded(c) ==
  /\ pc[c] \in Checked => PrerequisitesHold(request[c])
  /\ pc[c] \in Admittance => Admitted(c, source[c])
  /\ pc[c] \in {"deploying", "cliDeploy"} => request[c].strategy # "validate_only"

\* A plan with a target is made of a report that was returned, and nothing but a rollback
\* touches that report again.
PlannedFor(c) ==
  /\ report[c].plan = "targeted" =>
       pc[c] \in Reported /\ report[c].status \in {"failed", "rolled_back"}
  /\ report[c].status = "rolled_back" => report[c].plan = "targeted"
  /\ pc[c] = "reverting" => report[c].plan = "targeted"

IInv == DeploymentTypeOK /\ \A c \in Callers : Guarded(c) /\ PlannedFor(c)

-----------------------------------------------------------------------------
(* Types                                                                   *)

ReportType == [status : DeploymentStatus, plan : Plans]
PollType == [count : 0..MaxPolls, seen : Seen]

LEMMA RequestType ==
  ASSUME DeploymentTypeOK, NEW c \in Callers
  PROVE  request[c] \in DeploymentRequest /\ request[c].type \in ConnectionTypes
  BY DeploymentAssumption DEF DeploymentTypeOK, DeploymentRequest

\* A session comes from somewhere, or there is none.
LEMMA AuthenticationType ==
  ASSUME DeploymentTypeOK, NEW c \in Callers, NEW s \in Authentications(request[c].type), s # "raises"
  PROVE  s \in Sources
  BY RequestType DEF ConnectionTypes, Authentications, JwtAuthentication, OAuth2Authentication,
     SfdxAuthentication, PasswordAuthentication, Sources

LEMMA LearnsType ==
  ASSUME DeploymentTypeOK, NEW c \in Callers, NEW answer \in {"yes", "no"}, Learns(c, answer)
  PROVE  available' \in {"unknown", "yes", "no"} /\ asking' \subseteq Callers
  BY DEF DeploymentTypeOK, Learns, cliVars

LEMMA SetType ==
  ASSUME DeploymentTypeOK, NEW c \in Callers, NEW status \in DeploymentStatus, NEW p \in Plans,
         Set(c, status, p)
  PROVE  /\ report' \in [Callers -> ReportType]
         /\ report'[c].status = status /\ report'[c].plan = p
         /\ \A d \in Callers \ {c} : report'[d] = report[d]
  BY DEF DeploymentTypeOK, Set, ReportType

LEMMA StatusType ==
  ASSUME DeploymentTypeOK, NEW c \in Callers, NEW status \in DeploymentStatus,
         report' = [report EXCEPT ![c].status = status]
  PROVE  /\ report' \in [Callers -> ReportType]
         /\ report'[c].status = status /\ report'[c].plan = report[c].plan
         /\ \A d \in Callers \ {c} : report'[d] = report[d]
PROOF
<1>1. report \in [Callers -> ReportType]
  BY DEF DeploymentTypeOK, ReportType
<1>2. [report[c] EXCEPT !.status = status] \in ReportType
  BY <1>1 DEF ReportType
<1>3. report' = [report EXCEPT ![c] = [report[c] EXCEPT !.status = status]]
  OBVIOUS
<1> QED  BY <1>1, <1>2, <1>3 DEF ReportType

LEMMA GotoType ==
  ASSUME DeploymentTypeOK, NEW c \in Callers, NEW point \in Points, Goto(c, point)
  PROVE  /\ pc' \in [Callers -> Points] /\ pc'[c] = point
         /\ \A d \in Callers \ {c} : pc'[d] = pc[d]
  BY DEF DeploymentTypeOK, Goto

LEMMA AnnounceType ==
  ASSUME DeploymentTypeOK, NEW c \in Callers, NEW event \in Events, Announce(c, event)
  PROVE  announced' \in [Callers -> SUBSET Events]
  BY DEF DeploymentTypeOK, Announce

\* The points and events are what they are called.
LEMMA Named ==
  /\ {"idle", "starting", "connecting", "authenticating", "validating", "dryRun",
      "deploying", "cliDeploy", "polling", "recovering", "recording", "completing",
      "failing", "returned", "raised", "quickConnecting", "quickDeploying",
      "quickCli", "rbConnecting", "reverting", "rbCompleted", "rbFailed"} \subseteq Points
  /\ {"deployment.started", "deployment.completed", "deployment.failed",
      "deployment.recovery_attempted", "deployment.rollback_completed",
      "deployment.rollback_failed"} \subseteq Events
  /\ {"in_progress", "succeeded", "failed", "rolled_back"} \subseteq DeploymentStatus
  /\ {"none", "untargeted", "targeted"} \subseteq Plans
  BY DEF Points, Events, DeploymentStatus, Plans

-----------------------------------------------------------------------------
(* The invariant                                                           *)

\* A step of one call leaves the others where they are, and no request changes.
Frame(c) ==
  /\ request' = request
  /\ \A d \in Callers \ {c} : pc'[d] = pc[d] /\ report'[d] = report[d] /\ source'[d] = source[d]

Kept(c) == DeploymentTypeOK' /\ Frame(c) /\ Guarded(c)' /\ PlannedFor(c)'

\* What is said of a call that stays where it is goes on being true of it.
LEMMA SameCall ==
  ASSUME NEW c \in Callers, Guarded(c), PlannedFor(c), request' = request,
         pc'[c] = pc[c], report'[c] = report[c], source'[c] = source[c]
  PROVE  Guarded(c)' /\ PlannedFor(c)'
PROOF
<1>1. Guarded(c)'
  BY DEF Guarded, PrerequisitesHold, Admitted
<1>2. PlannedFor(c)'
  BY DEF PlannedFor
<1> QED  BY <1>1, <1>2

LEMMA FromKept ==
  ASSUME IInv, NEW c \in Callers, Kept(c)
  PROVE  IInv'
PROOF
<1>1. \A d \in Callers \ {c} : Guarded(d)' /\ PlannedFor(d)'
  BY SameCall DEF IInv, Kept, Frame
<1> QED  BY <1>1 DEF IInv, Kept

LEMMA InitInv == Init => IInv
PROOF
<1> SUFFICES ASSUME Init PROVE IInv
  OBVIOUS
<1>1. NoPoll \in PollType
  BY DeploymentAssumption DEF NoPoll, PollType, Seen
<1>2. poll \in [Callers -> PollType]
  BY <1>1 DEF Init
<1>3. report \in [Callers -> ReportType]
  BY Named DEF Init, ReportType
<1>4. rollbacks \in [Callers -> 0..MaxRollbacks]
  BY DeploymentAssumption DEF Init
<1>5. DeploymentTypeOK
  BY <1>2, <1>3, <1>4, Named DEF Init, DeploymentTypeOK, PollType, ReportType, Sources
<1>6. \A c \in Callers : Guarded(c) /\ PlannedFor(c)
  BY DEF Init, Guarded, PlannedFor, Checked, Admittance
<1> QED  BY <1>5, <1>6 DEF IInv

\* The calls go on without touching their report or session.
LEMMA MovesKept ==
  ASSUME IInv, NEW c \in Callers,
         \/ Deploy(c) \/ QuickDeploy(c) \/ Verify(c) \/ HandlerRaises(c)
         \/ RecoveryAnnounced(c) \/ HistoryRecorded(c) \/ Returned(c) \/ Raised(c)
         \/ RollbackAnswered(c) \/ RollbackFailed(c) \/ Rollback(c)
  PROVE  Kept(c)
PROOF
<1>1. DeploymentTypeOK /\ Guarded(c) /\ PlannedFor(c)
  BY DEF IInv
<1>2. CASE Deploy(c) \/ QuickDeploy(c) \/ Verify(c) \/ HandlerRaises(c)
  <2>1. PICK point \in {"starting", "quickConnecting", "connecting", "failing"} :
          /\ Goto(c, point)
          /\ point = "connecting" => PrerequisitesHold(request[c])
    BY <1>2 DEF Deploy, QuickDeploy, Verify, HandlerRaises
  <2>2. /\ pc' \in [Callers -> Points] /\ pc'[c] = point
        /\ \A d \in Callers \ {c} : pc'[d] = pc[d]
    BY <1>1, <2>1, Named, GotoType
  <2>3. announced' \in [Callers -> SUBSET Events]
    BY <1>1, <1>2, Named, AnnounceType DEF Deploy, QuickDeploy, Verify, HandlerRaises, DeploymentTypeOK
  <2>4. UNCHANGED <<request, source, report, poll, org, available, asking, rollbacks>>
    BY <1>2 DEF Deploy, QuickDeploy, Verify, HandlerRaises, cliVars
  <2>5. pc[c] \notin Reported
    BY <1>2 DEF Deploy, QuickDeploy, Verify, HandlerRaises, Reported
  <2>6. DeploymentTypeOK'
    BY <1>1, <2>2, <2>3, <2>4 DEF DeploymentTypeOK
  <2>7. Guarded(c)'
    BY <2>1, <2>2, <2>4 DEF Guarded, Checked, Admittance
  <2>8. PlannedFor(c)'
    BY <1>1, <2>2, <2>4, <2>5 DEF PlannedFor
  <2> QED  BY <2>2, <2>4, <2>6, <2>7, <2>8 DEF Kept, Frame
<1>3. CASE RecoveryAnnounced(c) \/ HistoryRecorded(c) \/ Returned(c) \/ Raised(c)
  <2>1. PICK point \in {"recording", "completing", "returned", "raised"} : Goto(c, point)
    BY <1>3 DEF RecoveryAnnounced, HistoryRecorded, Returned, Raised
  <2>2. /\ pc' \in [Callers -> Points] /\ pc'[c] = point
        /\ \A d \in Callers \ {c} : pc'[d] = pc[d]
    BY <1>1, <2>1, Named, GotoType
  <2>3. announced' \in [Callers -> SUBSET Events]
    BY <1>1, <1>3, Named, AnnounceType
       DEF RecoveryAnnounced, HistoryRecorded, Returned, Raised, DeploymentTypeOK
  <2>4. UNCHANGED <<request, source, report, poll, org, available, asking, rollbacks>>
    BY <1>3 DEF RecoveryAnnounced, HistoryRecorded, Returned, Raised, cliVars
  <2>5. pc[c] \notin Reported
    BY <1>3 DEF RecoveryAnnounced, HistoryRecorded, Returned, Raised, Reported
  <2>6. DeploymentTypeOK'
    BY <1>1, <2>2, <2>3, <2>4 DEF DeploymentTypeOK
  <2>7. Guarded(c)'
    BY <2>2 DEF Guarded, Checked, Admittance
  <2>8. PlannedFor(c)'
    BY <1>1, <2>2, <2>4, <2>5 DEF PlannedFor
  <2> QED  BY <2>2, <2>4, <2>6, <2>7, <2>8 DEF Kept, Frame
<1>4. CASE RollbackAnswered(c) \/ RollbackFailed(c) \/ Rollback(c)
  <2>1. PICK point \in {"returned", "rbFailed", "rbConnecting"} : Goto(c, point)
    BY <1>4 DEF RollbackAnswered, RollbackFailed, Rollback
  <2>2. /\ pc' \in [Callers -> Points] /\ pc'[c] = point
        /\ \A d \in Callers \ {c} : pc'[d] = pc[d]
    BY <1>1, <2>1, Named, GotoType
  <2>3. announced' \in [Callers -> SUBSET Events]
    BY <1>1, <1>4, Named, AnnounceType DEF RollbackAnswered, RollbackFailed, Rollback, DeploymentTypeOK
  <2>4. UNCHANGED <<request, source, report, poll, org, available, asking>>
    BY <1>4 DEF RollbackAnswered, RollbackFailed, Rollback, cliVars
  <2>5. rollbacks' \in [Callers -> 0..MaxRollbacks]
    <3>1. CASE Rollback(c)
      <4>1. rollbacks[c] + 1 \in 0..MaxRollbacks
        BY <1>1, <3>1, DeploymentAssumption DEF Rollback, DeploymentTypeOK
      <4> QED  BY <1>1, <3>1, <4>1 DEF Rollback, DeploymentTypeOK
    <3> QED  BY <1>1, <1>4, <3>1 DEF RollbackAnswered, RollbackFailed, DeploymentTypeOK
  <2>6. DeploymentTypeOK'
    BY <1>1, <2>2, <2>3, <2>4, <2>5 DEF DeploymentTypeOK
  <2>7. Guarded(c)'
    BY <2>2 DEF Guarded, Checked, Admittance
  <2>8. PlannedFor(c)'
    BY <1>1, <2>2, <2>4 DEF PlannedFor, Reported
  <2> QED  BY <2>2, <2>4, <2>6, <2>7, <2>8 DEF Kept, Frame
<1> QED  BY <1>2, <1>3, <1>4

\* A call authenticates.
LEMMA SessionsKept ==
  ASSUME IInv, NEW c \in Callers,
         Connect(c) \/ Authenticate(c) \/ QuickConnect(c) \/ RollbackConnected(c)
  PROVE  Kept(c)
PROOF
<1>1. DeploymentTypeOK /\ Guarded(c) /\ PlannedFor(c)
  BY DEF IInv
<1>2. UNCHANGED <<request, report, poll, announced, org, available, asking, rollbacks>>
  BY DEF Connect, Authenticate, QuickConnect, RollbackConnected, cliVars
<1>3. PICK s \in Authentications(request[c].type), point \in Points :
        /\ Goto(c, point)
        /\ s = "raises" => UNCHANGED source
        /\ s # "raises" => source' = [source EXCEPT ![c] = s]
        /\ point \in {"failing", "authenticating", "validating", "raised", "quickDeploying",
                      "rbFailed", "reverting", "returned"}
        /\ point = "authenticating" => pc[c] = "connecting"
        /\ point = "validating" => pc[c] = "authenticating" /\ s # "raises" /\ Admitted(c, s)
        /\ pc[c] \in {"connecting", "authenticating", "quickConnecting"} =>
             point \notin {"rbFailed", "reverting", "returned"}
        /\ pc[c] \notin {"connecting", "authenticating", "quickConnecting"} =>
             point \in {"rbFailed", "reverting", "returned"}
        /\ point = "reverting" => CanRollback(report[c])
  <2>1. CASE Connect(c)
    BY <2>1, Named DEF Connect
  <2>2. CASE Authenticate(c)
    BY <2>2, Named DEF Authenticate
  <2>3. CASE QuickConnect(c)
    BY <2>3, Named DEF QuickConnect
  <2>4. CASE RollbackConnected(c)
    BY <2>4, Named DEF RollbackConnected
  <2> QED  BY <2>1, <2>2, <2>3, <2>4
<1>4. /\ pc' \in [Callers -> Points] /\ pc'[c] = point
      /\ \A d \in Callers \ {c} : pc'[d] = pc[d]
  BY <1>1, <1>3, GotoType
<1>5. /\ source' \in [Callers -> Sources]
      /\ s # "raises" => source'[c] = s
      /\ \A d \in Callers \ {c} : source'[d] = source[d]
  <2>1. CASE s = "raises"
    BY <1>1, <1>3, <2>1 DEF DeploymentTypeOK
  <2>2. CASE s # "raises"
    BY <1>1, <1>3, <2>2, AuthenticationType DEF DeploymentTypeOK
  <2> QED  BY <2>1, <2>2
<1>6. DeploymentTypeOK'
  BY <1>1, <1>2, <1>4, <1>5 DEF DeploymentTypeOK
<1>7. Guarded(c)'
  <2>1. pc'[c] \in Checked => PrerequisitesHold(request'[c])
    BY <1>1, <1>2, <1>3, <1>4 DEF Guarded, Checked
  <2>2. pc'[c] \in Admittance => request' = request /\ Admitted(c, source'[c])
    BY <1>2, <1>3, <1>4, <1>5 DEF Admittance
  <2>3. pc'[c] \notin {"deploying", "cliDeploy"}
    BY <1>3, <1>4
  <2> QED  BY <2>1, <2>2, <2>3 DEF Guarded, Admitted
<1>8. PlannedFor(c)'
  BY <1>1, <1>2, <1>3, <1>4 DEF PlannedFor, Reported, CanRollback
<1> QED  BY <1>2, <1>4, <1>5, <1>6, <1>7, <1>8 DEF Kept, Frame

\* The executor, and quick_deploy, with the answers of the CLI.
LEMMA ExecutorKept ==
  ASSUME IInv, NEW c \in Callers,
         \/ ValidateOffline(c) \/ ValidateByCli(c) \/ DryRunReturns(c)
         \/ DeployOffline(c) \/ DeployByCli(c) \/ CliDeploySucceeds(c) \/ CliDeployFails(c)
         \/ QuickByCli(c) \/ QuickReturns(c)
  PROVE  Kept(c)
PROOF
<1>1. DeploymentTypeOK /\ Guarded(c) /\ PlannedFor(c)
  BY DEF IInv
<1>2. UNCHANGED <<request, source, poll, announced, rollbacks>>
  BY DEF ValidateOffline, ValidateByCli, DryRunReturns, DeployOffline, DeployByCli,
         CliDeploySucceeds, CliDeployFails, QuickByCli, QuickReturns
<1>3. pc[c] \in {"validating", "dryRun", "deploying", "cliDeploy", "quickDeploying", "quickCli"}
  BY DEF ValidateOffline, ValidateByCli, DryRunReturns, DeployOffline, DeployByCli,
         CliDeploySucceeds, CliDeployFails, QuickByCli, QuickReturns
<1>4. available' \in {"unknown", "yes", "no"} /\ asking' \subseteq Callers
  <2>1. \/ Learns(c, "yes") \/ Learns(c, "no") \/ UNCHANGED <<available, asking>>
    BY DEF ValidateOffline, ValidateByCli, DryRunReturns, DeployOffline, DeployByCli,
           CliDeploySucceeds, CliDeployFails, QuickByCli, QuickReturns, cliVars
  <2> QED  BY <1>1, <2>1, LearnsType DEF DeploymentTypeOK
<1>5. org' \subseteq Callers
  <2>1. org \subseteq Callers
    BY <1>1 DEF DeploymentTypeOK
  <2>2. org' = org \/ org' = org \cup {c}
    BY DEF ValidateOffline, ValidateByCli, DryRunReturns, DeployOffline, DeployByCli,
           CliDeploySucceeds, CliDeployFails, QuickByCli, QuickReturns
  <2> QED  BY <2>1, <2>2
<1>6. \/ /\ UNCHANGED report
         /\ \E point \in {"dryRun", "deploying", "cliDeploy", "quickCli"} : Goto(c, point)
      \/ /\ Set(c, "succeeded", "none") \/ Set(c, "failed", "untargeted")
         /\ \E point \in {"polling", "returned"} : Goto(c, point)
  <2>1. CASE ValidateOffline(c) \/ ValidateByCli(c) \/ DryRunReturns(c)
    BY <2>1 DEF ValidateOffline, ValidateByCli, DryRunReturns, AfterValidation
  <2>2. CASE DeployOffline(c) \/ DeployByCli(c) \/ CliDeploySucceeds(c) \/ CliDeployFails(c)
    BY <2>2 DEF DeployOffline, DeployByCli, CliDeploySucceeds, CliDeployFails, Fallback
  <2>3. CASE QuickByCli(c) \/ QuickReturns(c)
    BY <2>3 DEF QuickByCli, QuickReturns
  <2> QED  BY <2>1, <2>2, <2>3
<1>7. CASE UNCHANGED report /\ \E point \in {"dryRun", "deploying", "cliDeploy", "quickCli"} : Goto(c, point)
  <2>1. PICK point \in {"dryRun", "deploying", "cliDeploy", "quickCli"} : Goto(c, point)
    BY <1>7
  <2>2. /\ pc' \in [Callers -> Points] /\ pc'[c] = point
        /\ \A d \in Callers \ {c} : pc'[d] = pc[d]
    BY <1>1, <2>1, Named, GotoType
  <2>3. DeploymentTypeOK'
    BY <1>1, <1>2, <1>4, <1>5, <1>7, <2>2 DEF DeploymentTypeOK
  <2>4. point # "quickCli" => pc[c] \in Admittance
    <3>1. CASE ValidateOffline(c) \/ ValidateByCli(c) \/ DryRunReturns(c) \/ DeployOffline(c)
                \/ DeployByCli(c) \/ CliDeploySucceeds(c) \/ CliDeployFails(c)
      BY <3>1 DEF ValidateOffline, ValidateByCli, DryRunReturns, DeployOffline, DeployByCli,
                  CliDeploySucceeds, CliDeployFails, Admittance
    <3>2. CASE QuickByCli(c)
      BY <1>1, <2>2, <3>2, GotoType, Named DEF QuickByCli
    <3>3. CASE QuickReturns(c)
      BY <1>1, <2>2, <3>3, GotoType, Named DEF QuickReturns
    <3> QED  BY <3>1, <3>2, <3>3
  <2>5. point \in {"deploying", "cliDeploy"} =>
          request[c].strategy # "validate_only" \/ pc[c] \in {"deploying", "cliDeploy"}
    <3>1. CASE ValidateOffline(c) \/ DryRunReturns(c)
      BY <1>1, <2>2, <3>1, GotoType, Named DEF ValidateOffline, DryRunReturns, AfterValidation
    <3>2. CASE ValidateByCli(c) \/ QuickByCli(c) \/ QuickReturns(c)
      BY <1>1, <2>2, <3>2, GotoType, Named DEF ValidateByCli, QuickByCli, QuickReturns
    <3>3. CASE DeployOffline(c) \/ DeployByCli(c) \/ CliDeploySucceeds(c) \/ CliDeployFails(c)
      BY <3>3 DEF DeployOffline, DeployByCli, CliDeploySucceeds, CliDeployFails
    <3> QED  BY <3>1, <3>2, <3>3
  <2>6. Guarded(c)'
    BY <1>1, <1>2, <2>2, <2>4, <2>5 DEF Guarded, Checked, Admittance, Admitted
  <2>7. PlannedFor(c)'
    BY <1>1, <1>3, <1>7, <2>2 DEF PlannedFor, Reported
  <2> QED  BY <1>2, <1>7, <2>2, <2>3, <2>6, <2>7 DEF Kept, Frame
<1>8. CASE /\ Set(c, "succeeded", "none") \/ Set(c, "failed", "untargeted")
           /\ \E point \in {"polling", "returned"} : Goto(c, point)
  <2>1. PICK point \in {"polling", "returned"} : Goto(c, point)
    BY <1>8
  <2>2. /\ pc' \in [Callers -> Points] /\ pc'[c] = point
        /\ \A d \in Callers \ {c} : pc'[d] = pc[d]
    BY <1>1, <2>1, Named, GotoType
  <2>3. /\ report' \in [Callers -> ReportType]
        /\ report'[c].status # "rolled_back" /\ report'[c].plan # "targeted"
        /\ \A d \in Callers \ {c} : report'[d] = report[d]
    <3>1. CASE Set(c, "succeeded", "none")
      BY <1>1, <3>1, SetType, Named
    <3>2. CASE Set(c, "failed", "untargeted")
      BY <1>1, <3>2, SetType, Named
    <3> QED  BY <1>8, <3>1, <3>2
  <2>4. DeploymentTypeOK'
    BY <1>1, <1>2, <1>4, <1>5, <2>2, <2>3 DEF DeploymentTypeOK, ReportType
  <2>5. Guarded(c)' /\ PlannedFor(c)'
    BY <2>2, <2>3 DEF Guarded, PlannedFor, Checked, Admittance
  <2> QED  BY <1>2, <2>2, <2>3, <2>4, <2>5 DEF Kept, Frame
<1> QED  BY <1>6, <1>7, <1>8


\* The monitor, whose loop keeps the report until a status is done.
LEMMA PollsKept ==
  ASSUME IInv, NEW c \in Callers,
         PollTimedOut(c) \/ PollCached(c) \/ PollOffline(c) \/ PollByCli(c)
  PROVE  Kept(c)
PROOF
<1>1. DeploymentTypeOK /\ Guarded(c) /\ PlannedFor(c)
  BY DEF IInv
<1>2. pc[c] = "polling" /\ UNCHANGED <<request, source, org, rollbacks>>
  BY DEF PollTimedOut, PollCached, PollOffline, PollByCli, Polls, Updated
<1>3. available' \in {"unknown", "yes", "no"} /\ asking' \subseteq Callers
  <2>1. \/ Learns(c, "yes") \/ Learns(c, "no") \/ UNCHANGED <<available, asking>>
    BY DEF PollTimedOut, PollCached, PollOffline, PollByCli, cliVars
  <2> QED  BY <1>1, <2>1, LearnsType DEF DeploymentTypeOK
<1>4. poll \in [Callers -> PollType]
  BY <1>1 DEF DeploymentTypeOK, PollType
<1>5. \/ \E status \in {"failed", "succeeded"} : Monitored(c, status)
      \/ \E seen \in Seen : /\ poll' = [poll EXCEPT ![c] = [count |-> @.count + 1, seen |-> seen]]
                            /\ poll[c].count < MaxPolls
                            /\ UNCHANGED <<report, announced, pc>>
  <2>1. CASE PollTimedOut(c)
    BY <2>1 DEF PollTimedOut
  <2>2. ASSUME NEW seen \in Seen, Updated(c, seen), Polls(c)
        PROVE  \/ \E status \in {"failed", "succeeded"} : Monitored(c, status)
               \/ \E s \in Seen : /\ poll' = [poll EXCEPT ![c] = [count |-> @.count + 1, seen |-> s]]
                                  /\ poll[c].count < MaxPolls
                                  /\ UNCHANGED <<report, announced, pc>>
    <3>1. CASE seen.state = "done"
      BY <2>2, <3>1 DEF Updated
    <3>2. CASE seen.state # "done"
      BY <2>2, <3>2 DEF Updated, Polls
    <3> QED  BY <3>1, <3>2
  <2>3. CASE PollCached(c)
    <3>1. Cached(poll[c].seen) \in Seen
      BY <1>4 DEF Cached, PollType, Seen
    <3> QED  BY <2>2, <2>3, <3>1 DEF PollCached
  <2>4. CASE PollOffline(c)
    <3>1. [state |-> "In Progress", errors |-> FALSE] \in Seen
      BY DEF Seen
    <3> QED  BY <2>2, <2>4, <3>1 DEF PollOffline
  <2>5. CASE PollByCli(c)
    BY <2>2, <2>5 DEF PollByCli
  <2> QED  BY <2>1, <2>3, <2>4, <2>5
<1>6. ASSUME NEW status \in {"failed", "succeeded"}, Monitored(c, status)
      PROVE  Kept(c)
  <2>1. /\ report' \in [Callers -> ReportType]
        /\ report'[c].status = status /\ report'[c].plan = report[c].plan
        /\ \A d \in Callers \ {c} : report'[d] = report[d]
    BY <1>1, <1>6, StatusType, Named DEF Monitored
  <2>2. PICK point \in {"recovering", "recording"} : Goto(c, point)
    BY <1>6 DEF Monitored
  <2>3. /\ pc' \in [Callers -> Points] /\ pc'[c] = point
        /\ \A d \in Callers \ {c} : pc'[d] = pc[d]
    BY <1>1, <2>2, Named, GotoType
  <2>4. announced' \in [Callers -> SUBSET Events]
    BY <1>1, <1>6, Named, AnnounceType DEF Monitored, DeploymentTypeOK
  <2>5. poll' \in [Callers -> PollType]
    <3>1. NoPoll \in PollType
      BY DeploymentAssumption DEF NoPoll, PollType, Seen
    <3> QED  BY <1>4, <1>6, <3>1 DEF Monitored
  <2>6. DeploymentTypeOK'
    BY <1>1, <1>2, <1>3, <2>1, <2>3, <2>4, <2>5 DEF DeploymentTypeOK, ReportType, PollType
  <2>7. Guarded(c)' /\ PlannedFor(c)'
    BY <1>1, <1>2, <2>1, <2>3 DEF Guarded, PlannedFor, Checked, Admittance, Reported
  <2> QED  BY <1>2, <2>1, <2>3, <2>6, <2>7 DEF Kept, Frame
<1>7. ASSUME NEW seen \in Seen, poll[c].count < MaxPolls,
             poll' = [poll EXCEPT ![c] = [count |-> @.count + 1, seen |-> seen]],
             UNCHANGED <<report, announced, pc>>
      PROVE  Kept(c)
  <2>1. poll[c].count \in 0..MaxPolls
    BY <1>4 DEF PollType
  <2>2. [count |-> poll[c].count + 1, seen |-> seen] \in PollType
    BY <1>7, <2>1, DeploymentAssumption DEF PollType
  <2>3. poll' \in [Callers -> PollType]
    BY <1>4, <1>7, <2>2
  <2>4. DeploymentTypeOK'
    BY <1>1, <1>2, <1>3, <1>7, <2>3 DEF DeploymentTypeOK, PollType
  <2> QED  BY <1>1, <1>2, <1>7, <2>4, SameCall DEF Kept, Frame
<1> QED  BY <1>5, <1>6, <1>7

\* The call asks for the CLI, its rollback is planned or done.
LEMMA RollbackKept ==
  ASSUME IInv, NEW c \in Callers, AskCli(c) \/ PlanRollback(c) \/ Reverted(c)
  PROVE  Kept(c)
PROOF
<1>1. DeploymentTypeOK /\ Guarded(c) /\ PlannedFor(c)
  BY DEF IInv
<1>2. CASE AskCli(c)
  <2>1. /\ asking' \subseteq Callers
        /\ UNCHANGED <<pc, request, source, report, poll, announced, org, available, rollbacks>>
    BY <1>1, <1>2 DEF AskCli, DeploymentTypeOK
  <2>2. DeploymentTypeOK'
    BY <1>1, <2>1 DEF DeploymentTypeOK
  <2> QED  BY <1>1, <2>1, <2>2, SameCall DEF Kept, Frame
<1>3. CASE PlanRollback(c)
  <2>1. UNCHANGED <<pc, request, source, poll, announced, org, available, asking, rollbacks>>
    BY <1>3 DEF PlanRollback, cliVars
  <2>2. report \in [Callers -> ReportType]
    BY <1>1 DEF DeploymentTypeOK, ReportType
  <2>3. [report[c] EXCEPT !.plan = "targeted"] \in ReportType
    BY <2>2, Named DEF ReportType
  <2>4. report' = [report EXCEPT ![c] = [report[c] EXCEPT !.plan = "targeted"]]
    BY <1>3 DEF PlanRollback
  <2>5. /\ report' \in [Callers -> ReportType]
        /\ report'[c].plan = "targeted" /\ report'[c].status = report[c].status
        /\ \A d \in Callers \ {c} : report'[d] = report[d]
    BY <2>2, <2>3, <2>4 DEF ReportType
  <2>6. DeploymentTypeOK'
    BY <1>1, <2>1, <2>5 DEF DeploymentTypeOK, ReportType
  <2>7. pc[c] = "returned" /\ report[c].status = "failed"
    BY <1>3 DEF PlanRollback, MayPlan
  <2>8. Guarded(c)' /\ PlannedFor(c)'
    BY <2>1, <2>5, <2>7 DEF Guarded, PlannedFor, Checked, Admittance, Reported
  <2> QED  BY <2>1, <2>5, <2>6, <2>8 DEF Kept, Frame
<1>4. CASE Reverted(c)
  <2>1. UNCHANGED <<request, source, poll, org, available, asking, rollbacks>>
    BY <1>4 DEF Reverted, cliVars
  <2>2. /\ report' \in [Callers -> ReportType]
        /\ report'[c].status = "rolled_back" /\ report'[c].plan = report[c].plan
        /\ \A d \in Callers \ {c} : report'[d] = report[d]
    BY <1>1, <1>4, StatusType, Named DEF Reverted
  <2>3. /\ pc' \in [Callers -> Points] /\ pc'[c] = "rbCompleted"
        /\ \A d \in Callers \ {c} : pc'[d] = pc[d]
    BY <1>1, <1>4, Named, GotoType DEF Reverted
  <2>4. announced' \in [Callers -> SUBSET Events]
    BY <1>1, <1>4, Named, AnnounceType DEF Reverted
  <2>5. DeploymentTypeOK'
    BY <1>1, <2>1, <2>2, <2>3, <2>4 DEF DeploymentTypeOK, ReportType
  <2>6. Guarded(c)' /\ PlannedFor(c)'
    BY <1>1, <1>4, <2>2, <2>3 DEF Reverted, Guarded, PlannedFor, Checked, Admittance, Reported
  <2> QED  BY <2>1, <2>2, <2>3, <2>5, <2>6 DEF Kept, Frame
<1> QED  BY <1>2, <1>3, <1>4

LEMMA StepInv ==
  ASSUME IInv, [Next]_vars
  PROVE  IInv'
PROOF
<1>1. CASE UNCHANGED vars
  <2>1. DeploymentTypeOK'
    BY <1>1 DEF IInv, vars, DeploymentTypeOK
  <2> QED  BY <1>1, <2>1, SameCall DEF IInv, vars
<1>2. ASSUME NEW c \in Callers, Step(c) \/ Call(c)
      PROVE  IInv'
  <2>1. Kept(c)
    BY <1>2, MovesKept, SessionsKept, ExecutorKept, PollsKept, RollbackKept DEF Step, Call
  <2> QED  BY <2>1, FromKept
<1> QED  BY <1>1, <1>2 DEF Next

\* What the agent has checked still holds while the executor works, and a rollback plan with
\* a target belongs to a report that was returned as failed.
THEOREM Invariance == Spec => []IInv
  BY InitInv, StepInv, PTL DEF Spec

-----------------------------------------------------------------------------
(* What follows from it                                                    *)

\* Every variable keeps its type, whatever the CLI, the org and the handlers answer.
THEOREM DeploymentTypes == Spec => []DeploymentTypeOK
PROOF
<1>1. IInv => DeploymentTypeOK
  BY DEF IInv
<1> QED  BY <1>1, Invariance, PTL

\* Only a deployment that was returned as failed can be planned to be undone, and only what
\* was planned is ever reported as rolled back.
THEOREM RollbacksPlanned == Spec => []RollbackPlanned
PROOF
<1>1. IInv => RollbackPlanned
  BY DEF IInv, PlannedFor, RollbackPlanned
<1> QED  BY <1>1, Invariance, PTL

\* A production deployment reaches the org only over a production connection and a session
\* that is not simulated, for any number of calls that share one answer of the CLI.
THEOREM ProductionOnlyReal == Spec => ProductionIsReal
PROOF
<1>1. ASSUME IInv, [Next]_vars, NEW c \in Callers, c \in org' \ org, pc[c] = "cliDeploy"
      PROVE  /\ request[c].strategy # "validate_only"
             /\ request[c].environment = "production" =>
                  request[c].isProduction /\ source[c] # "simulated"
  BY <1>1 DEF IInv, Guarded, Checked, Admittance, PrerequisitesHold, Admitted
<1>2. IInv /\ [Next]_vars =>
        [\A c \in Callers :
           c \in org' \ org /\ pc[c] = "cliDeploy" =>
             /\ request[c].strategy # "validate_only"
             /\ request[c].environment = "production" =>
                  request[c].isProduction /\ source[c] # "simulated"]_vars
  BY <1>1
<1> QED  BY <1>2, Invariance, PTL DEF Spec, ProductionIsReal

=============================================================================
