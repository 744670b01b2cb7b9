------------------------------- MODULE ToolLayer -------------------------------
(***************************************************************************)
(* tools/: ToolExecutor.execute with the registry and BaseTool.execute,    *)
(* serving several requests at once and announcing each on the event bus.  *)
(*                                                                         *)
(* A run of a tool that drives an asyncio subprocess is "process": nothing *)
(* kills the process when the await on it is cancelled by a timeout.  The  *)
(* Salesforce CLI tool is "blocking": during subprocess.run the event loop *)
(* stands still.  HTTP, Ollama and SQLite are "remote", awaited calls; the *)
(* file and text tools are "local", without await.  The commands and       *)
(* services behind them are external and do as they like.                  *)
(***************************************************************************)
EXTENDS Integers, Sequences, FiniteSetsExt, Functions

CONSTANTS
  Requests,      \* ToolRequests being executed
  Assignments,   \* the tool names they may carry: functions from Requests
  Retries,       \* "retries" of the request or default_retries
  Handlers, HistoryLimit,  \* of the event bus
  Subscribed,    \* its subscriptions at the start
  Loyal,         \* handlers that stay subscribed to everything
  Changes        \* how often they change: bounds a behaviour

Names == {"tool.requested", "tool.responded"}

\* subscribe has made the lists, so that no handler is on one of them twice.
ASSUME ToolAssumption ==
  /\ HistoryLimit \in Nat \ {0}
  /\ \A names \in Assignments : DOMAIN names = Requests
  /\ Retries \in Nat /\ Changes \in Nat
  /\ Subscribed \in [Names \cup {"*"} -> Seq(Handlers)]
  /\ \A event \in Names \cup {"*"} : IsInjective(Subscribed[event])
  /\ Loyal \subseteq Handlers /\ \A h \in Loyal : h \in Range(Subscribed["*"])

VARIABLES
  pc,        \* where each request is parked
  name,      \* tool_name, normalized
  attempt,   \* the loop variable of BaseTool.execute
  response,  \* the status of the ToolResponse
  live,      \* processes of the request that run
  changes,   \* subscriptions changed so far
  handlers, history, publishing, pending, seen   \* the event bus

Bus == INSTANCE EventBus WITH Publishers <- Requests

toolVars == <<name, attempt, response, live>>
busVars == <<handlers, history, publishing, pending, seen>>
vars == <<pc, toolVars, changes, busVars>>

Points == {"idle", "announcing", "requested", "attempting", "running", "backoff",
           "answering", "answered", "returned", "raised"}
Attempts == Retries + 1

\* Types; and no more processes of a request run than it has had attempts, though a
\* timeout leaves them running (base.py, process.py).
ToolsTypeOK ==
  /\ pc \in [Requests -> Points] /\ name \in Assignments
  /\ attempt \in [Requests -> 0..Attempts]
  /\ response \in [Requests -> {"none", "success", "failed", "timeout"}]
  /\ live \in [Requests -> 0..Attempts] /\ \A r \in Requests : live[r] <= attempt[r]
  /\ changes \in 0..Changes
  /\ Bus!BusTypeOK

Goto(r, point) == pc' = [pc EXCEPT ![r] = point]

-----------------------------------------------------------------------------
(* The registry and the tools                                              *)

\* build_tool_registry, in its order: a tool's name and its aliases.
Registrations == <<
  <<"SalesforceCliTool", {"salesforce_cli", "sf", "sfdx", "salesforce"}>>,
  <<"GitTool", {"git", "vcs"}>>,
  <<"FilesystemTool", {"filesystem", "fs", "file"}>>,
  <<"ShellTool", {"shell", "bash", "powershell", "cmd"}>>,
  <<"CommandTool", {"command", "exec", "run"}>>,
  <<"ShellCommandTool", {"shell"}>>,
  <<"SQLiteTool", {"sqlite", "db"}>>,
  <<"HttpTool", {"http", "rest", "api"}>>,
  <<"OllamaTool", {"ollama", "llm", "ai"}>>,
  <<"JSONTool", {"json"}>>, <<"YAMLTool", {"yaml", "yml"}>>, <<"XMLTool", {"xml"}>> >>

\* register keeps the last tool of a name: "shell" is ShellCommandTool.
Registering(n) == {i \in DOMAIN Registrations : n \in Registrations[i][2]}
Known(n) == Registering(n) # {}
Resolve(n) == Registrations[Max(Registering(n))][1]

\* What _run can fail with once its input is a model, a timeout apart.
ShellErrors == {"external_process", "validation"}
ProcessErrors == {"external_process", "not_found", "permission", "validation"}
CliErrors == {"external_process", "validation"}   \* an answer it cannot parse included
HttpErrors == {"network"}
OllamaErrors == {"network"}
SqliteErrors == {"database", "validation"}
FilesystemErrors == {"not_found", "permission", "validation", "unknown"}
TextErrors == {"serialization", "validation"}

Errors(n) ==
  LET tool == Resolve(n) IN
  CASE tool \in {"ShellTool", "CommandTool"} -> ShellErrors
    [] tool \in {"GitTool", "ShellCommandTool"} -> ProcessErrors
    [] tool = "SalesforceCliTool" -> CliErrors
    [] tool = "HttpTool" -> HttpErrors
    [] tool = "OllamaTool" -> OllamaErrors
    [] tool = "SQLiteTool" -> SqliteErrors
    [] tool = "FilesystemTool" -> FilesystemErrors
    [] tool \in {"JSONTool", "YAMLTool", "XMLTool"} -> TextErrors

RunsProcess(n) ==
  Resolve(n) \in {"ShellTool", "CommandTool", "GitTool", "ShellCommandTool"}
Awaits(n) == RunsProcess(n) \/ Resolve(n) \in {"HttpTool", "OllamaTool", "SQLiteTool"}

\* BaseTool.is_retryable.
Retryable(error) ==
  error \in {"timeout", "network", "external_process", "database", "unknown"}

-----------------------------------------------------------------------------
(* ToolExecutor.execute                                                    *)

Request(r) ==
  /\ pc[r] = "idle"
  /\ Bus!Publish(r, "tool.requested")
  /\ Goto(r, "announcing")
  /\ UNCHANGED <<toolVars, changes>>

\* A publish call of the request goes on to its next handler, which may raise.
Announcing(r) ==
  /\ pc[r] \in {"announcing", "answering"}
  /\ \/ Bus!Deliver(r) /\ UNCHANGED pc
     \/ Bus!DeliveryRaises(r) /\ Goto(r, "raised")
  /\ UNCHANGED <<toolVars, changes>>

Announced(r) ==
  /\ pc[r] \in {"announcing", "answering"}
  /\ Bus!Published(r)
  /\ Goto(r, IF pc[r] = "announcing" THEN "requested" ELSE "returned")
  /\ UNCHANGED <<toolVars, changes>>

Respond(r, status) ==
  /\ response' = [response EXCEPT ![r] = status]
  /\ Goto(r, "answered")

\* The registry does not know the tool, or "retries" is not a count: no attempt is made.
NotDispatched(r) ==
  /\ pc[r] = "requested"
  /\ Respond(r, "failed")
  /\ UNCHANGED <<name, attempt, live, changes, busVars>>

Dispatch(r) ==
  /\ pc[r] = "requested" /\ Known(name[r])
  /\ attempt' = [attempt EXCEPT ![r] = 1]
  /\ Goto(r, "attempting")
  /\ UNCHANGED <<name, response, live, changes, busVars>>

Answer(r) ==
  /\ pc[r] = "answered"
  /\ Bus!Publish(r, "tool.responded")
  /\ Goto(r, "answering")
  /\ UNCHANGED <<toolVars, changes>>

-----------------------------------------------------------------------------
(* BaseTool.execute                                                        *)

\* Mutant of Failed: one attempt too many.
FailedLate(r, error) ==
  \/ /\ attempt[r] <= Attempts /\ Retryable(error)
     /\ Goto(r, "backoff") /\ UNCHANGED response
  \/ /\ attempt[r] > Attempts \/ ~Retryable(error)
     /\ Respond(r, IF error = "timeout" THEN "timeout" ELSE "failed")

\* The except clauses: pause and try again, or answer with the error.
Failed(r, error) ==
  \/ /\ attempt[r] < Attempts /\ Retryable(error)
     /\ Goto(r, "backoff") /\ UNCHANGED response
  \/ /\ attempt[r] >= Attempts \/ ~Retryable(error)
     /\ Respond(r, IF error = "timeout" THEN "timeout" ELSE "failed")

\* The output is returned unless it exceeds the response limit or is no JSON.
Succeeded(r) ==
  \/ Respond(r, "success")
  \/ \E error \in {"validation", "unknown"} : Failed(r, error)

\* The input does not fit the model, or the working directory or a field is missing.
InputRejected(r) ==
  /\ pc[r] = "attempting"
  /\ Failed(r, "validation")
  /\ UNCHANGED <<name, attempt, live, changes, busVars>>

\* A run that goes from its start to its end without an await.
RunsAtOnce(r) ==
  /\ pc[r] = "attempting" /\ ~Awaits(name[r])
  /\ Succeeded(r) \/ \E error \in Errors(name[r]) : Failed(r, error)
  /\ UNCHANGED <<name, attempt, live, changes, busVars>>

RunStarts(r) ==
  /\ pc[r] = "attempting" /\ Awaits(name[r])
  /\ live' = [live EXCEPT ![r] = IF RunsProcess(name[r]) THEN @ + 1 ELSE @]
  /\ Goto(r, "running")
  /\ UNCHANGED <<name, attempt, response, changes, busVars>>

\* The run ends: its process, if there is one, is gone.
RunEnds(r) ==
  /\ pc[r] = "running"
  /\ live' = [live EXCEPT ![r] = IF RunsProcess(name[r]) THEN @ - 1 ELSE @]
  /\ Succeeded(r) \/ \E error \in Errors(name[r]) : Failed(r, error)
  /\ UNCHANGED <<name, attempt, changes, busVars>>

\* Mutant of TimesOut: the run is awaited without a limit.
NeverTimesOut(r) == pc[r] = "running" /\ UNCHANGED vars

\* asyncio.wait_for cancels the await.  The process runs on.
TimesOut(r) ==
  /\ pc[r] = "running"
  /\ Failed(r, "timeout")
  /\ UNCHANGED <<name, attempt, live, changes, busVars>>

\* A process that nobody awaits any more comes to its end.
OrphanEnds(r) ==
  /\ live[r] > (IF pc[r] = "running" THEN 1 ELSE 0)
  /\ live' = [live EXCEPT ![r] = @ - 1]
  /\ UNCHANGED <<pc, name, attempt, response, changes, busVars>>

Retry(r) ==
  /\ pc[r] = "backoff"
  /\ attempt' = [attempt EXCEPT ![r] = @ + 1]
  /\ Goto(r, "attempting")
  /\ UNCHANGED <<name, response, live, changes, busVars>>

-----------------------------------------------------------------------------
ChangeSubscription ==
  /\ changes < Changes /\ changes' = changes + 1
  /\ \E event \in Names \cup {"*"}, h \in Handlers \ Loyal :
       Bus!Subscribe(event, h) \/ Bus!Unsubscribe(event, h)
  /\ UNCHANGED <<pc, toolVars>>
-----------------------------------------------------------------------------
Init ==
  /\ pc = [r \in Requests |-> "idle"] /\ name \in Assignments
  /\ attempt = [r \in Requests |-> 0]
  /\ response = [r \in Requests |-> "none"]
  /\ live = [r \in Requests |-> 0] /\ changes = 0
  /\ Bus!BusInit(Subscribed)

\* What the event loop does for a request without the outside: a run that hangs is
\* ended by its timeout alone.
Step(r) ==
  \/ Announcing(r) \/ Announced(r) \/ NotDispatched(r) \/ Dispatch(r) \/ Answer(r)
  \/ InputRejected(r) \/ RunsAtOnce(r) \/ RunStarts(r) \/ TimesOut(r) \/ Retry(r)

Outside(r) == Request(r) \/ RunEnds(r) \/ OrphanEnds(r)

Next == (\E r \in Requests : Step(r) \/ Outside(r)) \/ ChangeSubscription

Spec == Init /\ [][Next]_vars

\* Handlers return, sleeps end and a timeout fires.  Neither a run nor an orphan need
\* ever end by itself.
FairSpec == Spec /\ \A r \in Requests : WF_vars(Step(r))

-----------------------------------------------------------------------------
\* As a subscriber to everything.
Saw(h, event, r) == seen[[handler |-> h, list |-> "*"]][<<event, r>>] > 0

\* A handler that stays subscribed to everything has seen the announcement of a request
\* before its tool runs and its response before that is returned, whatever the others
\* do meanwhile (ToolExecutor.execute awaits emit_lifecycle, publish copies its lists).
AnnouncedInOrder ==
  \A r \in Requests, h \in Loyal :
    /\ attempt[r] > 0 => Saw(h, "tool.requested", r)
    /\ pc[r] = "returned" => Saw(h, "tool.responded", r)

\* Whatever the requests announce meanwhile, no handler is called more than once for an
\* announcement under its name, nor more than once under "*" (EventBus.publish, subscribe).
CalledOncePerName == Bus!CalledOncePerName

\* A request is answered or its caller sees the handler's error, though the tool hangs
\* on every attempt (asyncio.wait_for, _attempts).
RequestsAnswered ==
  \A r \in Requests : pc[r] = "announcing" ~> pc[r] \in {"returned", "raised"}
=============================================================================
