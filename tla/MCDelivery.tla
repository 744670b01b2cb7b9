----------------------------- MODULE MCDelivery -----------------------------
(* Plans and texts for Delivery.                                           *)
EXTENDS Delivery, TLC

Text(content, has, flow, lines) ==
  [form |-> "text", id |-> {}, content |-> content, has |-> has, flow |-> flow, lines |-> lines]

\* A class in order, one with an injection, one that loses points for five updates in
\* loops in many branches, a long one in order, and a bundle without a template.
MCTexts ==
  [clean    |-> Text({}, EmptyBag, 4, 60),
   injected |-> Text({"Queueable"}, SetToBag({"query", "permission check", "concatenated query"}), 4, 60),
   loops    |-> Text({}, "DML in loop" :> 5, 40, 20),
   long     |-> Text({}, EmptyBag, 10, 400),
   trigger  |-> [Text({}, SetToBag({"trigger declaration", "trigger event"}), 2, 20) EXCEPT !.id = {"trigger"}],
   query    |-> [Text({}, SetToBag({"select star"}), 0, 1) EXCEPT !.id = {"soql"}],
   flow     |-> [Text({}, SetToBag({"flow xml", "flow name", "decision", "connector"}), 0, 80) EXCEPT !.id = {"flow"}],
   rule     |-> [Text({}, SetToBag({"type", "name", "typed ValidationRule", "formula"}), 0, 1)
                   EXCEPT !.id = {"validation"}, !.form = "record"],
   bundle   |-> [Text({"js file"}, SetToBag({"js", "html", "lifecycle hook"}), 0, 1) EXCEPT !.form = "record"]]

Plan(work, after, raising, given) ==
  [work |-> work, after |-> after, raising |-> raising, component |-> "generatedComponent",
   given |-> [t \in DOMAIN work |-> IF t \in DOMAIN given THEN given[t] ELSE {}]]

\* A verification of everything, then a deployment.
Usual(work, after, raising, verified, deployed) ==
  Plan(work @@ "verify" :> "verifier" @@ "deploy" :> "deployment",
       after @@ "verify" :> DOMAIN work @@ "deploy" :> {"verify"}, raising,
       "verify" :> verified @@ "deploy" :> deployed)

Supplied(texts, deployed) == Usual(Nothing, Nothing, {}, texts, deployed)
Generating(kind) == Usual("task" :> kind, "task" :> {}, {}, {}, {})

Page == Usual("page" :> "lwc_file", "page" :> {}, {}, {"clean"}, {"clean"})

\* The verifier waits for nothing, and the deployment gets a page nobody has looked at.
Careless ==
  Plan("page" :> "lwc_file" @@ "verify" :> "verifier" @@ "deploy" :> "deployment",
       "page" :> {} @@ "verify" :> {} @@ "deploy" :> {"verify"}, {}, "verify" :> {"clean"})

\* Two verifiers and two deployments, only the second of them behind a verifier of all.
Staged ==
  Plan("look" :> "verifier" @@ "stage" :> "deployment" @@ "obj" :> "manifest" @@
       "verify" :> "verifier" @@ "deploy" :> "deployment",
       "look" :> {} @@ "stage" :> {"look"} @@ "obj" :> {} @@ "verify" :> {"obj"} @@
       "deploy" :> {"verify", "stage"}, {},
       "look" :> {"clean"} @@ "stage" :> {"injected"} @@ "verify" :> {"clean"} @@ "deploy" :> {"clean"})

AllPlans == {
  Page, Careless, Staged, Generating("custom_object"),
  Usual("code" :> "apex_class" @@ "sec" :> "security", "code" :> {} @@ "sec" :> {"code"}, {}, {}, {}),
  Supplied({"clean", "trigger", "query", "flow", "rule"}, {"clean", "flow"}),
  Supplied({"injected"}, {"injected"}), Supplied({"loops"}, {"loops"}),
  Supplied({"loops", "long"}, {"loops"}), Supplied({"bundle"}, {}), Supplied({}, {}),
  Plan("sec" :> "security" @@ "deploy" :> "deployment", "sec" :> {} @@ "deploy" :> {"sec"}, {},
       "sec" :> {"clean"}),
  Usual("code" :> "batch_class", "code" :> {}, {"code"}, {}, {}) }

MCPlans == [w1 |-> AllPlans, w2 |-> {Generating("custom_object"), Supplied({"clean"}, {"clean"})}]

CarelessPlans == [w1 |-> {Careless}]

Approved(texts) == ApprovedForDeployment([t \in texts |-> FileResult(MCTexts[t])])

ASSUME VerdictsAsExpected ==
  Approved({"clean"}) /\ ~Approved({"loops"}) /\ Approved({"loops", "long"})
=============================================================================
