----------------------------- MODULE Verifier -----------------------------
(* The verifier: what it takes an artifact for, the issues it finds in it, the      *)
(* scores it gives and whether it approves of a deployment.                         *)
(*                                                                                  *)
(* An artifact is what the rules of the verifier tell apart:                        *)
(*   form     "text" (a str) or "record" (a dict),                                  *)
(*   id       the words of the rules that its key contains,                         *)
(*   content  the words of the rules that its content contains,                     *)
(*   has      the bag of the features the analyzers look for: occurrences in a      *)
(*            text, keys of a record,                                               *)
(*   flow     how many control-flow keywords it has, lines how many lines.          *)
(* Scores are integers: those of an artifact 0..100, those of a project 0..1000.     *)
EXTENDS Integers, Sequences, Bags, FiniteSetsExt

Rule(id, content, type) == [id |-> id, content |-> content, type |-> type]

\* The order of the rules matters: an artifact is of the type of the first one it meets.
Rules == <<
  Rule("trigger",    "none",           "apex_trigger"),
  Rule("batch",      "batchable",      "batch_apex"),
  Rule("queueable",  "Queueable",      "queueable_apex"),
  Rule("scheduled",  "Schedulable",    "scheduled_apex"),
  Rule("flow",       "none",           "flow"),
  Rule("lwc",        "js file",        "lwc"),
  Rule("soql",       "none",           "soql"),
  Rule("sosl",       "none",           "sosl"),
  Rule("validation", "ValidationRule", "validation_rule"),
  Rule("permission", "PermissionSet",  "permission_set"),
  Rule("profile",    "Profile",        "profile"),
  Rule("sharing",    "SharingRule",    "sharing_rule"),
  Rule("object",     "CustomObject",   "custom_object"),
  Rule("field",      "CustomField",    "custom_field") >>

InferType(a) ==
  LET hits == {i \in DOMAIN Rules : Rules[i].id \in a.id \/ Rules[i].content \in a.content}
  IN IF hits = {} THEN "apex_class" ELSE Rules[Min(hits)].type

Registered ==
  [apex_trigger |-> "trigger", lwc |-> "lwc", flow |-> "flow", soql |-> "soql",
   validation_rule |-> "metadata", permission_set |-> "metadata", custom_object |-> "metadata"]

\* Every type nobody registered a strategy for is read as Apex.
Strategy(a) ==
  LET type == InferType(a) IN IF type \in DOMAIN Registered THEN Registered[type] ELSE "apex"

\* The forms a strategy reads without raising AttributeError.
Reads ==
  [apex |-> {"text"}, trigger |-> {"text"}, lwc |-> {"record"}, metadata |-> {"record"},
   flow |-> {"text", "record"}, soql |-> {"text", "record"}]

Readable(a) == a.form \in Reads[Strategy(a)]

-----------------------------------------------------------------------------
(* The analyzers                                                           *)

Times(a, feature) == IF BagIn(feature, a.has) THEN a.has[feature] ELSE 0
Has(a, feature) == Times(a, feature) > 0
Lacks(a, feature) == ~Has(a, feature)

Issue(category, severity, title, times) ==
  [category |-> category, severity |-> severity, title |-> title, times |-> times]

Once(condition, category, severity, title) ==
  IF condition THEN {Issue(category, severity, title, 1)} ELSE {}

ApexSyntax(a) ==
  Once(Has(a, "unbalanced braces"), "syntax_error", "critical", "Mismatched braces") \cup
  Once(Has(a, "unbalanced parentheses"), "syntax_error", "critical", "Mismatched parentheses")

\* One concatenated query hides the dynamic ones.
SoqlInjection(a) ==
  LET found == IF Has(a, "concatenated query") THEN 1 ELSE Times(a, "dynamic query")
  IN {Issue("security", "critical", "Potential SOQL Injection", found)}

CrudFls(a) ==
  Once(Has(a, "query") /\ Lacks(a, "permission check"), "crud_fls", "high", "Missing CRUD/FLS checks")

DmlInLoop(a) ==
  {Issue("governor_limit", "high", "DML operation inside loop", Times(a, "DML in loop"))}

Performance(a) ==
  Once(Has(a, "select star"), "performance", "medium", "Inefficient SOQL: SELECT *") \cup
  Once(Times(a, "debug") > 20, "performance", "low", "Excessive debug logging")

Naming(a) ==
  {Issue("naming_convention", "low", "Class naming violation", Times(a, "misnamed class"))}

LwcStructure(a) ==
  {Issue("syntax_error", "high", "Missing LWC export", Times(a, "js without export"))} \cup
  Once(Lacks(a, "js"), "architecture", "high", "Missing LWC JS file") \cup
  Once(Lacks(a, "html"), "architecture", "high", "Missing LWC HTML file")

FlowLogic(a) ==
  Once(Has(a, "decision") /\ Lacks(a, "connector"), "logic_error", "high", "Unconnected decision element")

MetadataConsistency(a) ==
  Once(Lacks(a, "type"), "metadata_consistency", "critical", "Missing metadata type") \cup
  Once(Lacks(a, "name"), "metadata_consistency", "critical", "Missing metadata name")

-----------------------------------------------------------------------------
(* The strategies                                                          *)

ApexIssues(a) ==
  ApexSyntax(a) \cup SoqlInjection(a) \cup CrudFls(a) \cup DmlInLoop(a)
    \cup Performance(a) \cup Naming(a)
    \cup Once(Has(a, "broad catch"), "best_practice", "medium", "Broad exception catch")
    \cup Once(Has(a, "static map") /\ Lacks(a, "transient"), "best_practice", "low",
              "Consider using @Transient annotation")

TriggerIssues(a) ==
  Once(Lacks(a, "trigger declaration"), "syntax_error", "critical", "Invalid trigger syntax") \cup
  Once(Lacks(a, "trigger event"), "syntax_error", "critical", "No trigger events specified") \cup
  SoqlInjection(a) \cup DmlInLoop(a)

LwcIssues(a) ==
  LwcStructure(a) \cup
  Once(Has(a, "js") /\ Lacks(a, "lifecycle hook"), "best_practice", "low", "No lifecycle hooks") \cup
  Once(Has(a, "html") /\ Lacks(a, "template tag"), "syntax_error", "critical", "Missing template tag")

FlowIssues(a) ==
  Once(Lacks(a, "flow xml"), "syntax_error", "critical", "Invalid Flow XML") \cup
  Once(Lacks(a, "flow name"), "metadata_consistency", "high", "Missing or empty Flow name") \cup
  FlowLogic(a)

\* The value of the key "type" is a feature of its own.
MetadataIssues(a) ==
  MetadataConsistency(a) \cup
  Once(Has(a, "typed CustomObject") /\ Has(a, "fields") /\ Lacks(a, "label"),
       "metadata_consistency", "medium", "Missing object label") \cup
  Once(Has(a, "typed ValidationRule") /\ Lacks(a, "formula"),
       "syntax_error", "critical", "Validation rule missing formula")

SoqlIssues(a) ==
  Once(Has(a, "select star"), "performance", "high", "SOQL uses SELECT *") \cup
  Once(Lacks(a, "limit"), "best_practice", "medium", "SOQL missing LIMIT clause")

Issues(a) ==
  CASE Strategy(a) = "apex"     -> ApexIssues(a)
    [] Strategy(a) = "trigger"  -> TriggerIssues(a)
    [] Strategy(a) = "lwc"      -> LwcIssues(a)
    [] Strategy(a) = "flow"     -> FlowIssues(a)
    [] Strategy(a) = "metadata" -> MetadataIssues(a)
    [] Strategy(a) = "soql"     -> SoqlIssues(a)

-----------------------------------------------------------------------------
(* The scores                                                              *)

Number(issues) == MapThenSumSet(LAMBDA i : i.times, issues)

OfSeverity(issues, severity) == {i \in issues : i.severity = severity}

Atleast0(score) == Max({score, 0})

\* What the issues of a kind take off a score of 100.
Deducted(issues, weight) ==
  Atleast0(100 - MapThenSumSet(LAMBDA i : weight[i.severity] * i.times, issues))

SecurityScore(issues) ==
  Deducted({i \in issues : i.category = "security" \/ i.title = "Potential SOQL Injection"},
           [critical |-> 50, high |-> 20, medium |-> 10, low |-> 0])

PerformanceScore(issues) ==
  Deducted({i \in issues : i.category = "performance" \/ i.title = "DML operation inside loop"},
           [critical |-> 30, high |-> 15, medium |-> 5, low |-> 0])

Complexity(a) == Min({2 * a.flow, 100})

\* No analyzer reports an issue of documentation.
MaintainabilityScore(issues, a) ==
  LET naming == 5 * Number({i \in issues : i.category = "naming_convention"})
      complex == IF Complexity(a) > 70 THEN 20 ELSE IF Complexity(a) > 50 THEN 10 ELSE 0
      long == IF a.lines > 500 THEN 10 ELSE IF a.lines > 300 THEN 5 ELSE 0
  IN Atleast0(100 - naming - complex - long)

\* The result of the verification of an artifact, one its strategy can read.
FileResult(a) ==
  LET issues == Issues(a)
  IN [critical |-> Number(OfSeverity(issues, "critical")),
      high |-> Number(OfSeverity(issues, "high")),
      issues |-> Number(issues),
      lines |-> a.lines,
      security |-> SecurityScore(issues),
      performance |-> PerformanceScore(issues),
      maintainability |-> MaintainabilityScore(issues, a)]

-----------------------------------------------------------------------------
(* The verdict on the results of a verification                            *)

Total(results, field) == MapThenSumSet(LAMBDA k : results[k][field], DOMAIN results)

\* round(10 * score, 1) of the score num / den, in tenths. A tie is rounded up; the
\* code leaves it to the binary fraction it has computed.
Rounded(num, den) == (2 * num + den) \div (2 * den)

SecurityRounded(results) ==
  Rounded(10 * Total(results, "security"), Cardinality(DOMAIN results))

\* Times the number of lines: an issue in ten lines takes the whole of it off.
BestPracticesScore(results) ==
  Atleast0(100 * Total(results, "lines") - 1000 * Total(results, "issues"))

\* The weighted averages are added up before anything is rounded. Without a line
\* there is no density of issues, and the practices are the best.
OverallScore(results) ==
  LET files == Cardinality(DOMAIN results)
      lines == Total(results, "lines")
      weighted == 3 * Total(results, "security") + 2 * Total(results, "performance")
                    + 3 * Total(results, "maintainability")
  IN IF lines = 0 THEN Rounded(weighted + 200 * files, files)
     ELSE Rounded(weighted * lines + 2 * files * BestPracticesScore(results), files * lines)

\* No artifacts at all are given full scores.
ApprovedForDeployment(results) ==
  DOMAIN results = {} \/
    /\ Total(results, "critical") = 0
    /\ Total(results, "high") <= 5
    /\ OverallScore(results) >= 600
    /\ SecurityRounded(results) >= 600
=============================================================================
