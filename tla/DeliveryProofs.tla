---------------------------- MODULE DeliveryProofs ----------------------------
(***************************************************************************)
(* Nothing is handed to a deployment behind a verifier that was not        *)
(* approved, and what is verified is what was generated: for any number of *)
(* workflows, any plans, attempts, restarts and faults, and whatever the   *)
(* verifiers find.                                                         *)
(***************************************************************************)
EXTENDS Delivery, TLAPS

\* A key says what is stored under it: a text of the plan, or what a generation made.
Canonical(w, k) == IF k[4] = 0 THEN Content(k[2], 0) ELSE Content(plan[w].work[k[2]], k[4])

\* Artifacts of w that are what their keys say.
Genuine(w, f) == Artifacts(w, f) /\ \A k \in DOMAIN f : f[k] = Canonical(w, k)

Shaped(w) ==
  /\ DOMAIN phase[w] = Tasks(w) /\ DOMAIN attempts[w] = Tasks(w)
  /\ DOMAIN input[w] = Tasks(w) /\ DOMAIN output[w] = Tasks(w) /\ DOMAIN toWrite[w] = Tasks(w)

TaskOK(w, t) ==
  /\ phase[w][t] \in {"pending", "batched", "started", "writing", "success", "failed"}
  /\ attempts[w][t] \in 0..MaxAttempts
  /\ Genuine(w, input[w][t]) /\ Genuine(w, output[w][t])
  /\ toWrite[w][t] # {} => phase[w][t] = "writing"
  /\ InFlight(w, t) => run[w] = "running"
  /\ phase[w][t] = "pending" => attempts[w][t] = 0
  /\ phase[w][t] \in {"batched", "started"} => attempts[w][t] < MaxAttempts
  /\ phase[w][t] = "writing" => t \in Engineers(w)
  /\ t \notin Engineers(w) => DOMAIN output[w][t] = {}

\* A task is only looked at when its dependencies are done.
Ordered(w) ==
  \A t \in Tasks(w) : phase[w][t] # "pending" => \A u \in Deps(w, t) : phase[w][u] = "success"

\* A verifier that has started has all that the engineers before it have generated.
Complete(w) ==
  \A v \in Verifiers(w) : phase[w][v] \notin {"pending", "batched"} =>
    \A t \in Engineers(w) \cap Before(w, v) : DOMAIN output[w][t] \subseteq DOMAIN input[w][v]

\* A deployment has nothing in its input that the verifier it is behind has not.
Narrower(w) ==
  \A v, d \in Tasks(w) : d \in Deployments(w) /\ Gates(w, v, d) =>
    DOMAIN input[w][d] \subseteq DOMAIN input[w][v]

\* The requests so far.
Answered(w) ==
  /\ \A v \in Verifiers(w) : phase[w][v] = "success" => input[w][v] \in approved[w]
  /\ \A f \in approved[w] : Artifacts(w, f)
  /\ \A r \in requests[w] : r.task \in Deployments(w) /\ Artifacts(w, r.artifacts)
  /\ \A r \in requests[w] : Gated(w, r.task) => \E f \in approved[w] : Covered(r.artifacts, f)

\* From the generation to the request.
Chain(w) == Ordered(w) /\ Complete(w) /\ Narrower(w) /\ Answered(w)

Sound(w) == plan[w] \in Plans[w] /\ Shaped(w) /\ (\A t \in Tasks(w) : TaskOK(w, t)) /\ Chain(w)

Global ==
  /\ run \in [Workflows -> {"running", "success", "failed"}]
  /\ serial \in [Workflows -> Nat] /\ restarts \in [Workflows -> 0..MaxRestarts]
  /\ faults \in 0..MaxFaults
  /\ \A file \in DOMAIN forceApp : forceApp[file] \in Workflows
  /\ DOMAIN phase = Workflows /\ DOMAIN attempts = Workflows /\ DOMAIN input = Workflows
  /\ DOMAIN output = Workflows /\ DOMAIN toWrite = Workflows
  /\ DOMAIN approved = Workflows /\ DOMAIN requests = Workflows

IInv == Global /\ \A w \in Workflows : Sound(w)

-----------------------------------------------------------------------------
(* Plans, keys and updates                                                 *)

LEMMA PlanFits ==
  ASSUME NEW w \in Workflows, plan[w] \in Plans[w]
  PROVE  /\ Engineers(w) \subseteq Tasks(w) /\ Verifiers(w) \subseteq Tasks(w)
         /\ Deployments(w) \subseteq Tasks(w)
         /\ \A t \in Engineers(w) : plan[w].work[t] \in DOMAIN Generated
         /\ \A t \in Tasks(w) : Deps(w, t) \subseteq Tasks(w) /\ plan[w].given[t] \subseteq DOMAIN Texts
BY DeliveryAssumption DEF Engineers, Verifiers, Deployments, Tasks, Deps

\* A task has one agent.
LEMMA OneAgent ==
  ASSUME NEW w, NEW t
  PROVE  /\ t \in Verifiers(w) => t \notin Engineers(w) /\ t \notin Deployments(w)
         /\ t \in Deployments(w) => t \notin Engineers(w)
BY DEF Engineers, Verifiers, Deployments, Generated

\* The plan does not change, and with it all that is said of it.
LEMMA SamePlan ==
  ASSUME NEW w, plan' = plan
  PROVE  /\ Tasks(w)' = Tasks(w) /\ Engineers(w)' = Engineers(w) /\ Verifiers(w)' = Verifiers(w)
         /\ Deployments(w)' = Deployments(w)
         /\ \A t : Deps(w, t)' = Deps(w, t) /\ Before(w, t)' = Before(w, t)
         /\ \A v, d : Gates(w, v, d)' = Gates(w, v, d)
         /\ \A d : Gated(w, d)' = Gated(w, d)
PROOF
<1>1. /\ Tasks(w)' = Tasks(w) /\ Engineers(w)' = Engineers(w) /\ Verifiers(w)' = Verifiers(w)
      /\ Deployments(w)' = Deployments(w) /\ \A t : Deps(w, t)' = Deps(w, t)
  BY DEF Tasks, Engineers, Verifiers, Deployments, Deps
<1>2. ASSUME NEW t
      PROVE  Before(w, t)' = Before(w, t)
  BY <1>1 DEF Before, Holds
<1>3. ASSUME NEW v, NEW d
      PROVE  Gates(w, v, d)' = Gates(w, v, d)
  BY <1>1, <1>2 DEF Gates
<1>4. ASSUME NEW d
      PROVE  Gated(w, d)' = Gated(w, d)
  BY <1>1, <1>3 DEF Gated
<1> QED  BY <1>1, <1>2, <1>3, <1>4

\* When a task is looked at, all it waits for, however indirectly, is done.
LEMMA BeforeDone ==
  ASSUME NEW w \in Workflows, plan[w] \in Plans[w], Ordered(w), NEW t \in Tasks(w),
         phase[w][t] # "pending", NEW u \in Before(w, t)
  PROVE  u \in Tasks(w) /\ phase[w][u] = "success"
PROOF
<1> DEFINE S == {s \in Tasks(w) : phase[w][s] = "success"}
<1>1. S \in SUBSET Tasks(w)
  OBVIOUS
<1>2. \A s \in S \cup {t} : Deps(w, s) \subseteq S
  BY PlanFits DEF Ordered
<1>3. Holds(w, S, Deps(w, t))
  BY <1>2 DEF Holds
<1>4. u \in S
  BY <1>1, <1>3 DEF Before
<1> QED  BY <1>4

LEMMA KeyParts ==
  ASSUME NEW a, NEW b, NEW c, NEW d
  PROVE  (<<a, b>> \o <<c, d>>)[2] = b /\ (<<a, b>> \o <<c, d>>)[4] = d
OBVIOUS

LEMMA SetAt ==
  ASSUME NEW f, NEW w, NEW t, NEW value, w \in DOMAIN f, t \in DOMAIN f[w]
  PROVE  /\ DOMAIN Set(f, w, t, value) = DOMAIN f
         /\ DOMAIN Set(f, w, t, value)[w] = DOMAIN f[w]
         /\ Set(f, w, t, value)[w][t] = value
         /\ \A s \in DOMAIN f[w] : s # t => Set(f, w, t, value)[w][s] = f[w][s]
         /\ \A u \in DOMAIN f : u # w => Set(f, w, t, value)[u] = f[u]
BY DEF Set

\* The texts of a plan are genuine.
LEMMA TextsGenuine ==
  ASSUME NEW w \in Workflows, NEW names \in SUBSET Kinds, serial[w] \in Nat
  PROVE  Genuine(w, AsTexts(names)) /\ DOMAIN AsTexts(names) = {TextKey(n) : n \in names}
PROOF
<1>1. \A n \in names : TextKey(n)[2] = n /\ TextKey(n)[4] = 0
  BY KeyParts DEF TextKey, KeyOf
<1>2. DOMAIN AsTexts(names) = {TextKey(n) : n \in names}
  BY DEF AsTexts
<1>3. \A k \in DOMAIN AsTexts(names) : AsTexts(names)[k] = Content(k[2], 0)
  BY DEF AsTexts
<1>4. Artifacts(w, AsTexts(names))
  <2>1. DOMAIN AsTexts(names) \subseteq AllKeys(w)
    BY <1>2 DEF AllKeys
  <2>2. ASSUME NEW k \in DOMAIN AsTexts(names)
        PROVE  AsTexts(names)[k].kind \in Kinds /\ AsTexts(names)[k].generation = 0
    <3>1. k[2] \in Kinds
      BY <1>1, <1>2
    <3> QED  BY <1>3, <3>1 DEF Content
  <2>3. 0 \in 0..serial[w]
    OBVIOUS
  <2> QED  BY <2>1, <2>2, <2>3 DEF Artifacts
<1>5. \A k \in DOMAIN AsTexts(names) : AsTexts(names)[k] = Canonical(w, k)
  BY <1>1, <1>2, <1>3 DEF Canonical
<1> QED  BY <1>2, <1>4, <1>5 DEF Genuine

\* The keys there may be only get more.
LEMMA KeysKept ==
  ASSUME NEW w \in Workflows, plan' = plan,
         serial[w] \in Nat, serial'[w] \in Nat, serial[w] <= serial'[w]
  PROVE  AllKeys(w) \subseteq AllKeys(w)'
PROOF
<1>1. PICK E, n, m : E = Engineers(w) /\ n = serial[w] /\ m = serial'[w]
  OBVIOUS
<1>2. E = Engineers(w)' /\ 1..n \subseteq 1..m
  BY <1>1, SamePlan
<1>3. \A t \in E, i \in 1..n, p \in {"js", "html", "css", "js-meta.xml", "whole"} :
        KeyOf(<<w, t>>, i, p) \in {KeyOf(<<w, u>>, j, q) : u \in E, j \in 1..m,
                                   q \in {"js", "html", "css", "js-meta.xml", "whole"}}
  BY <1>2
<1> QED  BY <1>1, <1>2, <1>3 DEF AllKeys

\* What is genuine stays so: the number of generations only grows.
LEMMA GenuineKept ==
  ASSUME NEW w \in Workflows, NEW f, Genuine(w, f), plan' = plan,
         serial[w] \in Nat, serial'[w] \in Nat, serial[w] <= serial'[w]
  PROVE  Genuine(w, f)'
PROOF
<1>1. AllKeys(w) \subseteq AllKeys(w)'
  BY KeysKept
<1>2. Artifacts(w, f)'
  BY <1>1 DEF Genuine, Artifacts
<1> QED  BY <1>2 DEF Genuine, Canonical

LEMMA ArtifactsKept ==
  ASSUME NEW w \in Workflows, NEW f, Artifacts(w, f), plan' = plan,
         serial[w] \in Nat, serial'[w] \in Nat, serial[w] <= serial'[w]
  PROVE  Artifacts(w, f)'
PROOF
<1>1. AllKeys(w) \subseteq AllKeys(w)'
  BY KeysKept
<1> QED  BY <1>1 DEF Artifacts

\* What a task generates is genuine, and stored under keys of the new generation.
LEMMA GeneratedGenuine ==
  ASSUME NEW w \in Workflows, NEW t, t \in Engineers(w), plan[w] \in Plans[w], plan' = plan,
         serial[w] \in Nat, serial'[w] = serial[w] + 1,
         NEW g, g = Generate(<<w, t>>, serial[w] + 1, plan[w].work[t])
  PROVE  Genuine(w, g)'
PROOF
<1>2. PICK m \in Nat, c \in DOMAIN Generated : m = serial[w] + 1 /\ c = plan[w].work[t]
  BY PlanFits
<1>3. g = [k \in {KeyOf(<<w, t>>, m, p) : p \in Parts(c)} |-> Content(c, m)]
  BY <1>2 DEF Generate
<1>4. c \in Kinds /\ Parts(c) \subseteq {"js", "html", "css", "js-meta.xml", "whole"}
  BY DEF Kinds, Artifact, Parts
<1>5. m \in 1..serial'[w] /\ m \in 0..serial'[w] /\ m # 0
  BY <1>2
<1>6. ASSUME NEW k \in DOMAIN g
      PROVE  k \in AllKeys(w)' /\ g[k] = Content(c, m) /\ k[2] = t /\ k[4] = m
  <2>1. PICK p \in Parts(c) : k = KeyOf(<<w, t>>, m, p)
    BY <1>3
  <2>2. k[2] = t /\ k[4] = m
    BY <2>1, KeyParts DEF KeyOf
  <2>3. k \in AllKeys(w)'
    <3>1. t \in Engineers(w)'
      BY SamePlan
    <3> QED  BY <1>4, <1>5, <2>1, <3>1 DEF AllKeys
  <2> QED  BY <1>3, <2>2, <2>3
<1>7. Artifacts(w, g)'
  BY <1>4, <1>5, <1>6 DEF Artifacts, Content
<1>8. \A k \in DOMAIN g : g[k] = Canonical(w, k)'
  BY <1>2, <1>5, <1>6 DEF Canonical
<1> QED  BY <1>7, <1>8 DEF Genuine

-----------------------------------------------------------------------------
(* Workflows do not touch each other                                       *)

\* A step of w leaves the tasks of the other workflows alone.
Apart(w) ==
  /\ plan' = plan
  /\ \A u \in Workflows \ {w} :
       /\ run'[u] = run[u] /\ phase'[u] = phase[u] /\ attempts'[u] = attempts[u]
       /\ input'[u] = input[u] /\ output'[u] = output[u] /\ toWrite'[u] = toWrite[u]
       /\ serial'[u] = serial[u] /\ approved'[u] = approved[u] /\ requests'[u] = requests[u]

LEMMA ChainSame ==
  ASSUME NEW u \in Workflows, Chain(u), plan' = plan, phase'[u] = phase[u], input'[u] = input[u],
         output'[u] = output[u], approved'[u] = approved[u], requests'[u] = requests[u],
         serial[u] \in Nat, serial'[u] \in Nat, serial[u] <= serial'[u]
  PROVE  Chain(u)'
PROOF
<1>1. /\ Tasks(u)' = Tasks(u) /\ Engineers(u)' = Engineers(u) /\ Verifiers(u)' = Verifiers(u)
      /\ Deployments(u)' = Deployments(u)
      /\ \A t : Deps(u, t)' = Deps(u, t) /\ Before(u, t)' = Before(u, t)
      /\ \A v, d : Gates(u, v, d)' = Gates(u, v, d)
      /\ \A d : Gated(u, d)' = Gated(u, d)
  BY SamePlan
<1>2. Ordered(u)'
  BY <1>1 DEF Chain, Ordered
<1>3. Complete(u)'
  BY <1>1 DEF Chain, Complete
<1>4. Narrower(u)'
  BY <1>1 DEF Chain, Narrower
<1>5. Answered(u)'
  <2>1. \A f \in approved[u] : Artifacts(u, f)'
    BY ArtifactsKept DEF Chain, Answered
  <2>2. \A r \in requests[u] : Artifacts(u, r.artifacts)'
    BY ArtifactsKept DEF Chain, Answered
  <2>3. \A r \in requests'[u] : Artifacts(u, r.artifacts)'
    BY <2>2
  <2>4. \A r \in requests'[u] : Gated(u, r.task)' => \E f \in approved'[u] : Covered(r.artifacts, f)'
    BY <1>1 DEF Chain, Answered, Covered
  <2>5. /\ \A v \in Verifiers(u) : phase[u][v] = "success" => input[u][v] \in approved[u]
        /\ \A r \in requests[u] : r.task \in Deployments(u)
    BY DEF Chain, Answered
  <2> QED  BY <1>1, <2>1, <2>3, <2>4, <2>5 DEF Answered
<1> QED  BY <1>2, <1>3, <1>4, <1>5 DEF Chain

LEMMA SameSound ==
  ASSUME NEW u \in Workflows, Sound(u), serial[u] \in Nat, plan' = plan,
         run'[u] = run[u], phase'[u] = phase[u], attempts'[u] = attempts[u],
         input'[u] = input[u], output'[u] = output[u], toWrite'[u] = toWrite[u],
         serial'[u] = serial[u], approved'[u] = approved[u], requests'[u] = requests[u]
  PROVE  Sound(u)'
PROOF
<1>1. Tasks(u)' = Tasks(u) /\ Engineers(u)' = Engineers(u)
  BY DEF Tasks, Engineers
<1>2. Shaped(u)'
  BY <1>1 DEF Sound, Shaped
<1>3. ASSUME NEW t \in Tasks(u)
      PROVE  TaskOK(u, t)'
  <2>1. TaskOK(u, t)
    BY <1>3 DEF Sound
  <2>2. PICK i, o : i = input[u][t] /\ o = output[u][t]
    OBVIOUS
  <2>3. Genuine(u, i)' /\ Genuine(u, o)'
    BY <2>1, <2>2, GenuineKept DEF TaskOK
  <2>4. i = input'[u][t] /\ o = output'[u][t]
    BY <2>2
  <2>5. Genuine(u, input[u][t])' /\ Genuine(u, output[u][t])'
    BY <2>3, <2>4 DEF Genuine, Artifacts, Canonical
  <2> QED  BY <1>1, <2>1, <2>5 DEF TaskOK, InFlight
<1>4. Chain(u)'
  BY ChainSame DEF Sound
<1> QED  BY <1>1, <1>2, <1>3, <1>4 DEF Sound

LEMMA FromSound ==
  ASSUME IInv, NEW w \in Workflows, Apart(w), Global', Sound(w)'
  PROVE  IInv'
PROOF
<1>1. ASSUME NEW u \in Workflows \ {w}
      PROVE  Sound(u)'
  BY SameSound DEF IInv, Global, Apart
<1> QED  BY <1>1 DEF IInv

-----------------------------------------------------------------------------
(* The initial states                                                      *)

LEMMA InitInv == Init => IInv
PROOF
<1> SUFFICES ASSUME Init  PROVE IInv
  OBVIOUS
<1>1. Global
  BY DeliveryAssumption DEF Init, Global, Nothing
<1>2. ASSUME NEW w \in Workflows
      PROVE  Sound(w)
  <2>1. plan[w] \in Plans[w]
    BY DEF Init
  <2>2. /\ phase[w] = [t \in Tasks(w) |-> "pending"] /\ attempts[w] = [t \in Tasks(w) |-> 0]
        /\ input[w] = [t \in Tasks(w) |-> AsTexts(plan[w].given[t])]
        /\ output[w] = [t \in Tasks(w) |-> Nothing] /\ toWrite[w] = [t \in Tasks(w) |-> {}]
        /\ approved[w] = {} /\ requests[w] = {} /\ serial[w] = 0 /\ run[w] = "running"
    BY DEF Init, PerTask
  <2>3. \A t \in Tasks(w) : plan[w].given[t] \in SUBSET Kinds
    BY <2>1, PlanFits DEF Kinds, Artifact
  <2>4. DOMAIN Nothing = {}
    BY DEF Nothing
  <2>9. ASSUME NEW names \in SUBSET Kinds
        PROVE  Genuine(w, AsTexts(names)) /\ DOMAIN AsTexts(names) = {TextKey(n) : n \in names}
    <3>1. serial[w] \in Nat
      BY <2>2
    <3> QED  BY <3>1, TextsGenuine
  <2>5. Genuine(w, Nothing)
    BY <2>4 DEF Genuine, Artifacts
  <2>6. ASSUME NEW t \in Tasks(w)
        PROVE  TaskOK(w, t)
    <3>1. Genuine(w, AsTexts(plan[w].given[t]))
      BY <2>3, <2>9
    <3>2. /\ phase[w][t] = "pending" /\ attempts[w][t] = 0 /\ toWrite[w][t] = {}
          /\ output[w][t] = Nothing /\ input[w][t] = AsTexts(plan[w].given[t])
      BY <2>2
    <3> QED  BY <2>4, <2>5, <3>1, <3>2, DeliveryAssumption DEF TaskOK, InFlight
  <2>7. Shaped(w)
    BY <2>2 DEF Shaped
  <2>8. Chain(w)
    <3>1. \A t \in Tasks(w) : phase[w][t] = "pending"
      BY <2>2
    <3>2. Ordered(w) /\ Complete(w) /\ Answered(w)
      BY <2>1, <2>2, <3>1, PlanFits DEF Ordered, Complete, Answered
    <3>3. ASSUME NEW v \in Tasks(w), NEW d \in Tasks(w), Gates(w, v, d)
          PROVE  DOMAIN input[w][d] \subseteq DOMAIN input[w][v]
      <4>1. PICK x \in SUBSET Kinds, y \in SUBSET Kinds :
              x = plan[w].given[d] /\ y = plan[w].given[v] /\ x \subseteq y
        BY <2>3, <3>3 DEF Gates
      <4>2. input[w][d] = AsTexts(x) /\ input[w][v] = AsTexts(y)
        BY <2>2, <4>1
      <4>3. {TextKey(n) : n \in x} \subseteq {TextKey(n) : n \in y}
        BY <4>1
      <4> QED  BY <2>9, <4>2, <4>3
    <3>4. Narrower(w)
      BY <3>3 DEF Narrower
    <3> QED  BY <3>2, <3>4 DEF Chain
  <2> QED  BY <2>1, <2>6, <2>7, <2>8 DEF Sound
<1> QED  BY <1>1, <1>2 DEF IInv

-----------------------------------------------------------------------------
(* One task of a workflow moves                                            *)

\* g is f but for the task t of w.
Updated(f, g, w, t) ==
  /\ DOMAIN g = DOMAIN f /\ DOMAIN g[w] = DOMAIN f[w]
  /\ \A s \in DOMAIN f[w] \ {t} : g[w][s] = f[w][s]
  /\ \A u \in DOMAIN f \ {w} : g[u] = f[u]

LEMMA SetUpdates ==
  ASSUME NEW f, NEW g, NEW w, NEW t, NEW value, w \in DOMAIN f, t \in DOMAIN f[w],
         g = Set(f, w, t, value)
  PROVE  Updated(f, g, w, t) /\ g[w][t] = value
BY SetAt DEF Updated

LEMMA SameUpdates ==
  ASSUME NEW f, NEW g, NEW w, NEW t, g = f
  PROVE  Updated(f, g, w, t)
BY DEF Updated

\* What the invariant says of w.
LEMMA FromInv ==
  ASSUME IInv, NEW w \in Workflows
  PROVE  /\ Global /\ Sound(w) /\ Shaped(w) /\ Chain(w) /\ plan[w] \in Plans[w]
         /\ \A t \in Tasks(w) : TaskOK(w, t)
         /\ Engineers(w) \subseteq Tasks(w) /\ Verifiers(w) \subseteq Tasks(w)
         /\ Deployments(w) \subseteq Tasks(w) /\ serial[w] \in Nat
PROOF
<1>1. Global /\ Sound(w)
  BY DEF IInv
<1>2. plan[w] \in Plans[w] /\ Shaped(w) /\ Chain(w) /\ \A t \in Tasks(w) : TaskOK(w, t)
  BY <1>1 DEF Sound
<1>3. serial[w] \in Nat
  BY <1>1 DEF Global
<1> QED  BY <1>1, <1>2, <1>3, PlanFits

LEMMA TaskMoves ==
  ASSUME IInv, NEW w \in Workflows, NEW t, t \in Tasks(w), plan' = plan, run'[w] = run[w],
         input' = input, serial'[w] \in Nat, serial[w] <= serial'[w],
         Updated(phase, phase', w, t), Updated(attempts, attempts', w, t),
         Updated(output, output', w, t), Updated(toWrite, toWrite', w, t),
         TaskOK(w, t)'
  PROVE  Shaped(w)' /\ (\A s \in Tasks(w) : TaskOK(w, s)') /\ Tasks(w)' = Tasks(w)
PROOF
<1>1. Tasks(w)' = Tasks(w) /\ Engineers(w)' = Engineers(w)
  BY DEF Tasks, Engineers
<1>2. Global /\ Shaped(w)
  BY FromInv
<1>3. Shaped(w)'
  BY <1>1, <1>2 DEF Shaped, Updated
<1>4. ASSUME NEW s, s \in Tasks(w), s # t
      PROVE  TaskOK(w, s)'
  <2>1. TaskOK(w, s) /\ serial[w] \in Nat
    BY <1>4, FromInv
  <2>2. /\ phase'[w][s] = phase[w][s] /\ attempts'[w][s] = attempts[w][s]
        /\ output'[w][s] = output[w][s] /\ toWrite'[w][s] = toWrite[w][s]
    BY <1>2, <1>4 DEF Updated, Shaped
  <2>3. PICK i, o : i = input[w][s] /\ o = output[w][s]
    OBVIOUS
  <2>4. Genuine(w, i)' /\ Genuine(w, o)'
    BY <2>1, <2>3, GenuineKept DEF TaskOK
  <2>5. i = input'[w][s] /\ o = output'[w][s]
    BY <2>2, <2>3
  <2>6. Genuine(w, input[w][s])' /\ Genuine(w, output[w][s])'
    BY <2>4, <2>5 DEF Genuine, Artifacts, Canonical
  <2> QED  BY <1>1, <2>1, <2>2, <2>6 DEF TaskOK, InFlight
<1> QED  BY <1>1, <1>3, <1>4

\* A task at work that gets on, or is done, keeps the chain if what it approves and
\* requests does.
LEMMA ChainMoves ==
  ASSUME IInv, NEW w \in Workflows, NEW t \in Tasks(w), phase[w][t] \in {"started", "writing"},
         plan' = plan, input' = input, serial'[w] \in Nat, serial[w] <= serial'[w],
         Updated(phase, phase', w, t), Updated(output, output', w, t),
         t \in Engineers(w) \/ output' = output,
         approved[w] \subseteq approved'[w], \A f \in approved'[w] : Artifacts(w, f),
         t \in Verifiers(w) /\ phase'[w][t] = "success" => input[w][t] \in approved'[w],
         \A r \in requests'[w] \ requests[w] :
           /\ r.task \in Deployments(w) /\ Artifacts(w, r.artifacts)
           /\ Gated(w, r.task) => \E f \in approved[w] : Covered(r.artifacts, f)
  PROVE  Chain(w)'
PROOF
<1>1. /\ Tasks(w)' = Tasks(w) /\ Engineers(w)' = Engineers(w) /\ Verifiers(w)' = Verifiers(w)
      /\ Deployments(w)' = Deployments(w)
      /\ \A s : Deps(w, s)' = Deps(w, s) /\ Before(w, s)' = Before(w, s)
      /\ \A v, d : Gates(w, v, d)' = Gates(w, v, d)
      /\ \A d : Gated(w, d)' = Gated(w, d)
  BY SamePlan
<1>2. /\ Global /\ Shaped(w) /\ Chain(w) /\ plan[w] \in Plans[w] /\ serial[w] \in Nat
      /\ Engineers(w) \subseteq Tasks(w) /\ Verifiers(w) \subseteq Tasks(w)
  BY FromInv
<1>3. \A s \in Tasks(w) \ {t} : phase'[w][s] = phase[w][s] /\ output'[w][s] = output[w][s]
  BY <1>2 DEF Updated, Shaped
<1>4. \A s \in Tasks(w) : Deps(w, s) \subseteq Tasks(w)
  BY <1>2, PlanFits
<1>5. Ordered(w)'
  <2>1. ASSUME NEW s \in Tasks(w), phase'[w][s] # "pending", NEW u \in Deps(w, s)
        PROVE  phase'[w][u] = "success"
    <3>1. phase[w][s] # "pending"
      BY <1>3, <2>1
    <3>2. phase[w][u] = "success"
      BY <1>2, <2>1, <3>1 DEF Chain, Ordered
    <3> QED  BY <1>3, <1>4, <2>1, <3>2
  <2> QED  BY <1>1, <2>1 DEF Ordered
<1>6. Complete(w)'
  <2>1. ASSUME NEW v \in Verifiers(w), phase'[w][v] \notin {"pending", "batched"},
               NEW u \in Engineers(w) \cap Before(w, v)
        PROVE  DOMAIN output'[w][u] \subseteq DOMAIN input[w][v]
    <3>1. phase[w][v] \notin {"pending", "batched"} /\ v \in Tasks(w)
      BY <1>2, <1>3, <2>1
    <3>2. phase[w][u] = "success" /\ u \in Tasks(w) \ {t}
      BY <1>2, <2>1, <3>1, BeforeDone DEF Chain
    <3>3. output'[w][u] = output[w][u]
      BY <1>3, <3>2
    <3> QED  BY <1>2, <2>1, <3>1, <3>3 DEF Chain, Complete
  <2> QED  BY <1>1, <2>1 DEF Complete
<1>7. Narrower(w)'
  BY <1>1, <1>2 DEF Chain, Narrower
<1>8. Answered(w)'
  <2>1. ASSUME NEW v \in Verifiers(w), phase'[w][v] = "success"
        PROVE  input[w][v] \in approved'[w]
    <3>1. CASE v = t
      BY <2>1, <3>1
    <3>2. CASE v # t
      BY <1>2, <1>3, <2>1, <3>2 DEF Chain, Answered
    <3> QED  BY <3>1, <3>2
  <2>2. \A f \in approved'[w] : Artifacts(w, f)'
    BY <1>2, ArtifactsKept
  <2>3. ASSUME NEW r \in requests'[w]
        PROVE  /\ r.task \in Deployments(w) /\ Artifacts(w, r.artifacts)
               /\ Gated(w, r.task) => \E f \in approved'[w] : Covered(r.artifacts, f)
    BY <1>2, <2>3 DEF Chain, Answered
  <2>4. \A r \in requests'[w] : Artifacts(w, r.artifacts)'
    BY <1>2, <2>3, ArtifactsKept
  <2>5. \A r \in requests'[w] : Gated(w, r.task)' => \E f \in approved'[w] : Covered(r.artifacts, f)'
    BY <1>1, <2>3 DEF Covered
  <2> QED  BY <1>1, <2>1, <2>2, <2>3, <2>4, <2>5 DEF Answered
<1> QED  BY <1>5, <1>6, <1>7, <1>8 DEF Chain

\* While an engineer is at work, nothing is approved or requested by it.
LEMMA EngineerChain ==
  ASSUME IInv, NEW w \in Workflows, NEW t, t \in Engineers(w), phase[w][t] \in {"started", "writing"},
         plan' = plan, input' = input, approved' = approved, requests' = requests,
         serial'[w] \in Nat, serial[w] <= serial'[w],
         Updated(phase, phase', w, t), Updated(output, output', w, t)
  PROVE  Chain(w)'
PROOF
<1>1. t \in Tasks(w) /\ t \notin Verifiers(w) /\ \A f \in approved'[w] : Artifacts(w, f)
  BY FromInv, OneAgent DEF Chain, Answered
<1> QED  BY <1>1, ChainMoves

\* A task whose attempt fails is tried again, or is a failed one.
LEMMA FailedTask ==
  ASSUME IInv, NEW w \in Workflows, NEW t, t \in Tasks(w), Attempt(w, t), Fails(w, t),
         plan' = plan, run' = run, input' = input, output' = output, toWrite' = toWrite,
         serial' = serial
  PROVE  /\ Updated(phase, phase', w, t) /\ Updated(attempts, attempts', w, t)
         /\ phase'[w][t] \in {"started", "failed"} /\ TaskOK(w, t)'
PROOF
<1>1. Global /\ Shaped(w) /\ TaskOK(w, t) /\ serial[w] \in Nat
  BY FromInv
<1>2. w \in DOMAIN phase /\ t \in DOMAIN phase[w] /\ w \in DOMAIN attempts /\ t \in DOMAIN attempts[w]
  BY <1>1 DEF Global, Shaped
<1>3. Updated(attempts, attempts', w, t) /\ attempts'[w][t] = attempts[w][t] + 1 /\ phase[w][t] = "started"
  BY <1>2, SetUpdates DEF Attempt
<1>4. \/ attempts'[w][t] < MaxAttempts /\ phase' = phase
      \/ phase' = Set(phase, w, t, "failed")
  BY <1>3 DEF Fails
<1>5. /\ Updated(phase, phase', w, t)
      /\ \/ phase'[w][t] = "failed"
         \/ phase'[w][t] = "started" /\ attempts'[w][t] < MaxAttempts
  <2>1. CASE phase' = phase /\ attempts'[w][t] < MaxAttempts
    BY <1>3, <2>1, SameUpdates
  <2>2. CASE phase' = Set(phase, w, t, "failed")
    BY <1>2, <2>2, SetUpdates
  <2> QED  BY <1>4, <2>1, <2>2
<1>6. attempts'[w][t] \in 0..MaxAttempts
  BY <1>1, <1>3, DeliveryAssumption DEF TaskOK
<1>7. Genuine(w, input[w][t])' /\ Genuine(w, output[w][t])'
  <2>1. PICK i, o : i = input[w][t] /\ o = output[w][t]
    OBVIOUS
  <2>2. Genuine(w, i)' /\ Genuine(w, o)'
    BY <1>1, <2>1, GenuineKept DEF TaskOK
  <2>3. i = input'[w][t] /\ o = output'[w][t]
    BY <2>1
  <2> QED  BY <2>2, <2>3 DEF Genuine, Artifacts, Canonical
<1>8. /\ toWrite'[w][t] = {} /\ run'[w] = "running" /\ Engineers(w)' = Engineers(w)
      /\ (t \notin Engineers(w) => DOMAIN output'[w][t] = {})
  BY <1>1, <1>3, SamePlan DEF TaskOK, InFlight
<1>9. TaskOK(w, t)'
  BY <1>5, <1>6, <1>7, <1>8 DEF TaskOK, InFlight
<1> QED  BY <1>3, <1>5, <1>9

LEMMA FaultCounted == ASSUME Global, Fault \/ faults' = faults  PROVE faults' \in 0..MaxFaults
BY DeliveryAssumption DEF Global, Fault

LEMMA EngineerFailsStep ==
  ASSUME IInv, NEW w \in Workflows, NEW t, EngineerFails(w, t)
  PROVE  IInv'
PROOF
<1>1. /\ t \in Engineers(w) /\ Attempt(w, t) /\ Fails(w, t) /\ plan' = plan /\ run' = run
      /\ input' = input /\ output' = output /\ toWrite' = toWrite /\ serial' = serial
      /\ forceApp' = forceApp /\ approved' = approved /\ requests' = requests /\ restarts' = restarts
      /\ (Fault \/ faults' = faults)
  BY DEF EngineerFails
<1>2. Global /\ t \in Tasks(w) /\ plan[w] \in Plans[w] /\ serial[w] \in Nat
  BY <1>1, FromInv
<1>3. /\ Updated(phase, phase', w, t) /\ Updated(attempts, attempts', w, t) /\ TaskOK(w, t)'
  BY <1>1, <1>2, FailedTask
<1>4. Updated(output, output', w, t) /\ Updated(toWrite, toWrite', w, t)
  BY <1>1, SameUpdates
<1>5. phase[w][t] = "started" /\ serial'[w] \in Nat /\ serial[w] <= serial'[w]
  BY <1>1, <1>2 DEF Attempt
<1>6. Shaped(w)' /\ (\A s \in Tasks(w) : TaskOK(w, s)') /\ Tasks(w)' = Tasks(w)
  BY <1>1, <1>2, <1>3, <1>4, <1>5, TaskMoves
<1>7. Chain(w)'
  BY <1>1, <1>3, <1>4, <1>5, EngineerChain
<1>8. Sound(w)'
  BY <1>1, <1>2, <1>6, <1>7 DEF Sound
<1>9. Global'
  <2>1. faults' \in 0..MaxFaults
    BY <1>1, <1>2, FaultCounted
  <2> QED  BY <1>1, <1>2, <1>3, <2>1 DEF Global, Updated
<1>10. Apart(w)
  BY <1>1, <1>2, <1>3 DEF Global, Apart, Updated
<1> QED  BY <1>8, <1>9, <1>10, FromSound


\* Its artifacts are genuine, and its files are to be written.
LEMMA GeneratesStep ==
  ASSUME IInv, NEW w \in Workflows, NEW t, Generates(w, t)
  PROVE  IInv'
PROOF
<1>1. PICK g : g = Generate(<<w, t>>, serial[w] + 1, plan[w].work[t])
  OBVIOUS
<1>2. /\ t \in Engineers(w) /\ Attempt(w, t) /\ plan' = plan /\ run' = run /\ input' = input
      /\ serial' = [serial EXCEPT ![w] = serial[w] + 1]
      /\ output' = Set(output, w, t, g)
      /\ toWrite' = Set(toWrite, w, t, AllFiles(g, plan[w].component))
      /\ phase' = Set(phase, w, t, "writing")
      /\ forceApp' = forceApp /\ approved' = approved /\ requests' = requests /\ restarts' = restarts
      /\ faults' = faults
  BY <1>1 DEF Generates
<1>3. /\ Global /\ Shaped(w) /\ t \in Tasks(w) /\ plan[w] \in Plans[w] /\ serial[w] \in Nat
      /\ TaskOK(w, t)
  BY <1>2, FromInv
<1>4. /\ w \in DOMAIN phase /\ t \in DOMAIN phase[w] /\ w \in DOMAIN attempts /\ t \in DOMAIN attempts[w]
      /\ w \in DOMAIN output /\ t \in DOMAIN output[w] /\ w \in DOMAIN toWrite /\ t \in DOMAIN toWrite[w]
  BY <1>3 DEF Global, Shaped
<1>5. /\ Updated(phase, phase', w, t) /\ phase'[w][t] = "writing"
      /\ Updated(output, output', w, t) /\ output'[w][t] = g
      /\ Updated(toWrite, toWrite', w, t)
  BY <1>2, <1>4, SetUpdates
<1>6. Updated(attempts, attempts', w, t) /\ attempts'[w][t] = attempts[w][t] + 1 /\ phase[w][t] = "started"
  BY <1>2, <1>4, SetUpdates DEF Attempt
<1>7. serial'[w] = serial[w] + 1 /\ serial'[w] \in Nat /\ serial[w] <= serial'[w]
  BY <1>2, <1>3 DEF Global
<1>8. Genuine(w, g)'
  BY <1>1, <1>2, <1>3, <1>7, GeneratedGenuine
<1>9. TaskOK(w, t)'
  <2>1. PICK i : i = input[w][t]
    OBVIOUS
  <2>2. Genuine(w, i)'
    BY <1>2, <1>3, <1>7, <2>1, GenuineKept DEF TaskOK
  <2>3. i = input'[w][t] /\ g = output'[w][t]
    BY <1>2, <1>5, <2>1
  <2>4. Genuine(w, input[w][t])' /\ Genuine(w, output[w][t])'
    BY <1>8, <2>2, <2>3 DEF Genuine, Artifacts, Canonical
  <2>5. attempts'[w][t] \in 0..MaxAttempts
    BY <1>3, <1>6, DeliveryAssumption DEF TaskOK
  <2>6. run'[w] = "running" /\ t \in Engineers(w)'
    BY <1>2, <1>3, <1>6, SamePlan DEF TaskOK, InFlight
  <2> QED  BY <1>5, <2>4, <2>5, <2>6 DEF TaskOK, InFlight
<1>10. Shaped(w)' /\ (\A s \in Tasks(w) : TaskOK(w, s)') /\ Tasks(w)' = Tasks(w)
  BY <1>2, <1>3, <1>5, <1>6, <1>7, <1>9, TaskMoves
<1>11. Chain(w)'
  BY <1>2, <1>5, <1>6, <1>7, EngineerChain
<1>12. Sound(w)'
  BY <1>2, <1>3, <1>10, <1>11 DEF Sound
<1>13. Global'
  BY <1>2, <1>3, <1>5, <1>6 DEF Global, Updated
<1>14. Apart(w)
  BY <1>2, <1>3, <1>5, <1>6 DEF Global, Apart, Updated
<1> QED  BY <1>12, <1>13, <1>14, FromSound

\* The other steps of an engineer at work: its phase or its files change.
LEMMA WritingMoves ==
  ASSUME IInv, NEW w \in Workflows, NEW t, t \in Engineers(w), phase[w][t] = "writing",
         Updated(phase, phase', w, t), phase'[w][t] \in {"writing", "success"},
         Updated(toWrite, toWrite', w, t), toWrite'[w][t] # {} => phase'[w][t] = "writing",
         plan' = plan, run' = run, attempts' = attempts, input' = input, output' = output,
         serial' = serial, approved' = approved, requests' = requests, restarts' = restarts,
         \A file \in DOMAIN forceApp' : forceApp'[file] \in Workflows, Fault \/ faults' = faults
  PROVE  IInv'
PROOF
<1>1. /\ Global /\ Shaped(w) /\ t \in Tasks(w) /\ plan[w] \in Plans[w] /\ serial[w] \in Nat
      /\ TaskOK(w, t)
  BY FromInv
<1>2. Updated(attempts, attempts', w, t) /\ Updated(output, output', w, t)
  BY SameUpdates
<1>3. serial'[w] \in Nat /\ serial[w] <= serial'[w]
  BY <1>1
<1>4. TaskOK(w, t)'
  <2>1. PICK i, o : i = input[w][t] /\ o = output[w][t]
    OBVIOUS
  <2>2. Genuine(w, i)' /\ Genuine(w, o)'
    BY <1>1, <2>1, <1>3, GenuineKept DEF TaskOK
  <2>3. i = input'[w][t] /\ o = output'[w][t]
    BY <2>1
  <2>4. Genuine(w, input[w][t])' /\ Genuine(w, output[w][t])'
    BY <2>2, <2>3 DEF Genuine, Artifacts, Canonical
  <2>5. attempts'[w][t] \in 0..MaxAttempts /\ run'[w] = "running" /\ t \in Engineers(w)'
    BY <1>1, SamePlan DEF TaskOK, InFlight
  <2> QED  BY <2>4, <2>5 DEF TaskOK, InFlight
<1>5. Shaped(w)' /\ (\A s \in Tasks(w) : TaskOK(w, s)') /\ Tasks(w)' = Tasks(w)
  BY <1>1, <1>2, <1>3, <1>4, TaskMoves
<1>6. Chain(w)'
  BY <1>2, <1>3, EngineerChain
<1>7. Sound(w)'
  BY <1>1, <1>5, <1>6 DEF Sound
<1>8. Global'
  <2>1. faults' \in 0..MaxFaults
    BY <1>1, FaultCounted
  <2> QED  BY <1>1, <2>1 DEF Global, Updated
<1>9. Apart(w)
  BY <1>1 DEF Global, Apart, Updated
<1> QED  BY <1>7, <1>8, <1>9, FromSound

LEMMA WriteFileStep ==
  ASSUME IInv, NEW w \in Workflows, NEW t \in Tasks(w), NEW file, WriteFile(w, t, file)
  PROVE  IInv'
PROOF
<1>1. Global /\ Shaped(w) /\ t \in Engineers(w)
  BY FromInv DEF WriteFile, TaskOK
<1>2. w \in DOMAIN toWrite /\ t \in DOMAIN toWrite[w]
  BY <1>1 DEF Global, Shaped
<1>3. phase[w][t] = "writing" /\ Updated(toWrite, toWrite', w, t)
  BY <1>2, SetUpdates DEF WriteFile
<1>4. \A f \in DOMAIN forceApp' : forceApp'[f] \in Workflows
  BY <1>1 DEF Global, WriteFile, Merged
<1>5. /\ phase' = phase /\ plan' = plan /\ run' = run /\ attempts' = attempts /\ input' = input
      /\ output' = output /\ serial' = serial /\ approved' = approved /\ requests' = requests
      /\ restarts' = restarts /\ (Fault \/ faults' = faults)
  BY DEF WriteFile
<1>6. Updated(phase, phase', w, t) /\ phase'[w][t] = "writing"
  BY <1>3, <1>5, SameUpdates
<1> QED  BY <1>1, <1>3, <1>4, <1>5, <1>6, WritingMoves

LEMMA WrittenStep ==
  ASSUME IInv, NEW w \in Workflows, NEW t \in Tasks(w), Written(w, t)
  PROVE  IInv'
PROOF
<1>1. Global /\ Shaped(w) /\ t \in Engineers(w)
  BY FromInv DEF Written, TaskOK
<1>2. w \in DOMAIN phase /\ t \in DOMAIN phase[w]
  BY <1>1 DEF Global, Shaped
<1>3. phase[w][t] = "writing" /\ Updated(phase, phase', w, t) /\ phase'[w][t] = "success"
  BY <1>2, SetUpdates DEF Written, Succeeds
<1>4. /\ toWrite' = toWrite /\ toWrite[w][t] = {} /\ plan' = plan /\ run' = run
      /\ attempts' = attempts /\ input' = input /\ forceApp' = forceApp
      /\ output' = output /\ serial' = serial /\ approved' = approved /\ requests' = requests
      /\ restarts' = restarts /\ faults' = faults
  BY DEF Written
<1>5. Updated(toWrite, toWrite', w, t) /\ toWrite'[w][t] = {}
  BY <1>4, SameUpdates
<1>6. \A f \in DOMAIN forceApp' : forceApp'[f] \in Workflows
  BY <1>1, <1>4 DEF Global
<1> QED  BY <1>1, <1>3, <1>4, <1>5, <1>6, WritingMoves

-----------------------------------------------------------------------------
(* Verification and deployment                                             *)

LEMMA SucceededTask ==
  ASSUME IInv, NEW w \in Workflows, NEW t, t \in Tasks(w), Attempt(w, t), Succeeds(w, t),
         plan' = plan, run' = run, input' = input, output' = output, toWrite' = toWrite,
         serial' = serial
  PROVE  /\ Updated(phase, phase', w, t) /\ Updated(attempts, attempts', w, t)
         /\ phase'[w][t] = "success" /\ TaskOK(w, t)'
PROOF
<1>1. Global /\ Shaped(w) /\ TaskOK(w, t) /\ serial[w] \in Nat
  BY FromInv
<1>2. w \in DOMAIN phase /\ t \in DOMAIN phase[w] /\ w \in DOMAIN attempts /\ t \in DOMAIN attempts[w]
  BY <1>1 DEF Global, Shaped
<1>3. Updated(attempts, attempts', w, t) /\ attempts'[w][t] = attempts[w][t] + 1 /\ phase[w][t] = "started"
  BY <1>2, SetUpdates DEF Attempt
<1>4. Updated(phase, phase', w, t) /\ phase'[w][t] = "success"
  BY <1>2, SetUpdates DEF Succeeds
<1>5. attempts'[w][t] \in 0..MaxAttempts
  BY <1>1, <1>3, DeliveryAssumption DEF TaskOK
<1>6. Genuine(w, input[w][t])' /\ Genuine(w, output[w][t])'
  <2>1. PICK i, o : i = input[w][t] /\ o = output[w][t]
    OBVIOUS
  <2>2. Genuine(w, i)' /\ Genuine(w, o)'
    BY <1>1, <2>1, GenuineKept DEF TaskOK
  <2>3. i = input'[w][t] /\ o = output'[w][t]
    BY <2>1
  <2> QED  BY <2>2, <2>3 DEF Genuine, Artifacts, Canonical
<1>7. toWrite'[w][t] = {} /\ Engineers(w)' = Engineers(w) /\ (t \notin Engineers(w) => DOMAIN output'[w][t] = {})
  BY <1>1, <1>3, SamePlan DEF TaskOK
<1>8. TaskOK(w, t)'
  BY <1>4, <1>5, <1>6, <1>7 DEF TaskOK, InFlight
<1> QED  BY <1>3, <1>4, <1>8

\* A step of the verifier or of the deployment task that keeps the chain.
LEMMA AgentMoves ==
  ASSUME IInv, NEW w \in Workflows, NEW t, t \in Tasks(w), Chain(w)', TaskOK(w, t)',
         Updated(phase, phase', w, t), Updated(attempts, attempts', w, t),
         plan' = plan, run' = run, input' = input, output' = output, toWrite' = toWrite,
         serial' = serial, restarts' = restarts, forceApp' = forceApp, Fault \/ faults' = faults,
         DOMAIN approved' = Workflows, \A u \in Workflows \ {w} : approved'[u] = approved[u],
         DOMAIN requests' = Workflows, \A u \in Workflows \ {w} : requests'[u] = requests[u]
  PROVE  IInv'
PROOF
<1>1. Global /\ plan[w] \in Plans[w] /\ serial'[w] \in Nat /\ serial[w] <= serial'[w]
  BY FromInv
<1>2. Updated(output, output', w, t) /\ Updated(toWrite, toWrite', w, t)
  BY SameUpdates
<1>3. Shaped(w)' /\ (\A s \in Tasks(w) : TaskOK(w, s)') /\ Tasks(w)' = Tasks(w)
  BY <1>1, <1>2, TaskMoves
<1>4. Sound(w)'
  BY <1>1, <1>3 DEF Sound
<1>5. Global'
  <2>1. faults' \in 0..MaxFaults
    BY <1>1, FaultCounted
  <2> QED  BY <1>1, <2>1 DEF Global, Updated
<1>6. Apart(w)
  BY <1>1 DEF Global, Apart, Updated
<1> QED  BY <1>4, <1>5, <1>6, FromSound


LEMMA ApprovesStep ==
  ASSUME IInv, NEW w \in Workflows, NEW t, Approves(w, t)
  PROVE  IInv'
PROOF
<1>1. /\ t \in Verifiers(w) /\ Attempt(w, t) /\ Succeeds(w, t) /\ plan' = plan /\ run' = run
      /\ input' = input /\ output' = output /\ toWrite' = toWrite /\ serial' = serial
      /\ restarts' = restarts /\ forceApp' = forceApp /\ requests' = requests /\ faults' = faults
  BY DEF Approves
<1>2. approved' = [approved EXCEPT ![w] = approved[w] \cup {input[w][t]}]
  BY DEF Approves, VerificationSucceeds
<1>3. Global /\ Chain(w) /\ t \in Tasks(w) /\ TaskOK(w, t) /\ serial[w] \in Nat
  BY <1>1, FromInv
<1>4. /\ Updated(phase, phase', w, t) /\ Updated(attempts, attempts', w, t)
      /\ phase'[w][t] = "success" /\ TaskOK(w, t)'
  BY <1>1, <1>3, SucceededTask
<1>5. phase[w][t] = "started" /\ Updated(output, output', w, t)
  BY <1>1, SameUpdates DEF Attempt
<1>6. /\ approved'[w] = approved[w] \cup {input[w][t]} /\ DOMAIN approved' = Workflows
      /\ DOMAIN requests' = Workflows
      /\ \A u \in Workflows \ {w} : approved'[u] = approved[u] /\ requests'[u] = requests[u]
  BY <1>1, <1>2, <1>3 DEF Global
<1>7. \A f \in approved'[w] : Artifacts(w, f)
  BY <1>3, <1>6 DEF Chain, Answered, TaskOK, Genuine
<1>8. Chain(w)'
  BY <1>1, <1>3, <1>4, <1>5, <1>6, <1>7, ChainMoves
<1> QED  BY <1>1, <1>3, <1>4, <1>6, <1>8, AgentMoves

LEMMA VerificationFailsStep ==
  ASSUME IInv, NEW w \in Workflows, NEW t, VerificationFails(w, t)
  PROVE  IInv'
PROOF
<1>1. /\ t \in Verifiers(w) /\ Attempt(w, t) /\ Fails(w, t) /\ plan' = plan /\ run' = run
      /\ input' = input /\ output' = output /\ toWrite' = toWrite /\ serial' = serial
      /\ restarts' = restarts /\ forceApp' = forceApp /\ requests' = requests
      /\ approved' = approved /\ (Fault \/ faults' = faults)
  BY DEF VerificationFails
<1>2. Global /\ Chain(w) /\ t \in Tasks(w) /\ serial[w] \in Nat
  BY <1>1, FromInv
<1>3. /\ Updated(phase, phase', w, t) /\ Updated(attempts, attempts', w, t)
      /\ phase'[w][t] \in {"started", "failed"} /\ TaskOK(w, t)'
  BY <1>1, <1>2, FailedTask
<1>4. phase[w][t] = "started" /\ Updated(output, output', w, t)
  BY <1>1, SameUpdates DEF Attempt
<1>5. \A f \in approved'[w] : Artifacts(w, f)
  BY <1>1, <1>2 DEF Chain, Answered
<1>6. Chain(w)'
  BY <1>1, <1>2, <1>3, <1>4, <1>5, ChainMoves
<1>7. DOMAIN approved' = Workflows /\ DOMAIN requests' = Workflows
  BY <1>1, <1>2 DEF Global
<1> QED  BY <1>1, <1>2, <1>3, <1>6, <1>7, AgentMoves

\* The request of a deployment behind a verifier has nothing in it that this had not.
LEMMA DeploysStep ==
  ASSUME IInv, NEW w \in Workflows, NEW t, Deploys(w, t)
  PROVE  IInv'
PROOF
<1>1. /\ t \in Deployments(w) /\ Attempt(w, t) /\ (Succeeds(w, t) \/ Fails(w, t)) /\ plan' = plan
      /\ run' = run /\ input' = input /\ output' = output /\ toWrite' = toWrite /\ serial' = serial
      /\ restarts' = restarts /\ forceApp' = forceApp /\ approved' = approved /\ faults' = faults
  BY DEF Deploys
<1>2. PICK r : r = Requested(w, t)
  OBVIOUS
<1>3. PICK q : q = [task |-> t, artifacts |-> r]
  OBVIOUS
<1>4. requests' = [requests EXCEPT ![w] = requests[w] \cup {q}]
  BY <1>2, <1>3 DEF Deploys
<1>5. /\ Global /\ Chain(w) /\ t \in Tasks(w) /\ TaskOK(w, t) /\ serial[w] \in Nat
      /\ plan[w] \in Plans[w] /\ (\A s \in Tasks(w) : TaskOK(w, s)) /\ t \notin Verifiers(w)
  BY <1>1, FromInv, OneAgent
<1>6. /\ Updated(phase, phase', w, t) /\ Updated(attempts, attempts', w, t) /\ TaskOK(w, t)'
  <2>1. CASE Succeeds(w, t)
    BY <1>1, <1>5, <2>1, SucceededTask
  <2>2. CASE Fails(w, t)
    BY <1>1, <1>5, <2>2, FailedTask
  <2> QED  BY <1>1, <2>1, <2>2
<1>7. phase[w][t] = "started" /\ Updated(output, output', w, t)
  BY <1>1, SameUpdates DEF Attempt
<1>8. ASSUME input[w][t] = Nothing
      PROVE  Artifacts(w, r) /\ (Gated(w, t) => \E f \in approved[w] : Covered(r, f))
  <2>1. "placeholder" \in Kinds
    BY DEF Kinds
  <2>2. /\ Genuine(w, AsTexts({"placeholder"}))
        /\ DOMAIN AsTexts({"placeholder"}) = {TextKey(n) : n \in {"placeholder"}}
    BY <1>5, <2>1, TextsGenuine
  <2>3. r = AsTexts({"placeholder"})
    BY <1>2, <1>8 DEF Requested
  <2>4. Artifacts(w, r) /\ \A f : Covered(r, f)
    BY <2>2, <2>3 DEF Covered, Genuine
  <2>5. ASSUME Gated(w, t)  PROVE \E f \in approved[w] : Covered(r, f)
    <3>1. PICK v \in Tasks(w) : Gates(w, v, t)
      BY <2>5 DEF Gated
    <3>2. v \in Verifiers(w) /\ phase[w][v] = "success"
      BY <1>5, <1>7, <3>1, BeforeDone DEF Gates, Chain
    <3>3. input[w][v] \in approved[w]
      BY <1>5, <3>2 DEF Chain, Answered
    <3> QED  BY <2>4, <3>3
  <2> QED  BY <2>4, <2>5
<1>9. ASSUME input[w][t] # Nothing
      PROVE  Artifacts(w, r) /\ (Gated(w, t) => \E f \in approved[w] : Covered(r, f))
  <2>1. r = input[w][t] /\ Genuine(w, r)
    BY <1>2, <1>5, <1>9 DEF Requested, TaskOK
  <2>2. ASSUME Gated(w, t)  PROVE \E f \in approved[w] : Covered(r, f)
    <3>1. PICK v \in Tasks(w) : Gates(w, v, t)
      BY <2>2 DEF Gated
    <3>2. v \in Verifiers(w) /\ phase[w][v] = "success"
      BY <1>5, <1>7, <3>1, BeforeDone DEF Gates, Chain
    <3>3. input[w][v] \in approved[w] /\ Genuine(w, input[w][v])
      BY <1>5, <3>2 DEF Chain, Answered, TaskOK
    <3>4. DOMAIN r \subseteq DOMAIN input[w][v]
      BY <1>1, <1>5, <2>1, <3>1 DEF Chain, Narrower
    <3> QED  BY <2>1, <3>3, <3>4 DEF Covered, Genuine
  <2> QED  BY <2>1, <2>2 DEF Genuine
<1>10. Artifacts(w, r) /\ (Gated(w, t) => \E f \in approved[w] : Covered(r, f))
  BY <1>8, <1>9
<1>11. /\ requests'[w] = requests[w] \cup {q} /\ DOMAIN requests' = Workflows
       /\ DOMAIN approved' = Workflows
       /\ \A u \in Workflows \ {w} : approved'[u] = approved[u] /\ requests'[u] = requests[u]
  BY <1>1, <1>4, <1>5 DEF Global
<1>12. \A p \in requests'[w] \ requests[w] :
         /\ p.task \in Deployments(w) /\ Artifacts(w, p.artifacts)
         /\ Gated(w, p.task) => \E f \in approved[w] : Covered(p.artifacts, f)
  <2>1. q.task = t /\ q.artifacts = r
    BY <1>3
  <2> QED  BY <1>1, <1>10, <1>11, <2>1
<1>13. \A f \in approved'[w] : Artifacts(w, f)
  BY <1>1, <1>5 DEF Chain, Answered
<1>14. Chain(w)'
  BY <1>1, <1>5, <1>6, <1>7, <1>12, <1>13, ChainMoves
<1> QED  BY <1>1, <1>5, <1>6, <1>11, <1>14, AgentMoves

-----------------------------------------------------------------------------
(* The engine                                                              *)

\* What the tasks before have generated is genuine, and all of it is there.
LEMMA UpstreamGenuine ==
  ASSUME IInv, NEW w \in Workflows
  PROVE  /\ Genuine(w, Upstream(w))
         /\ \A t \in Tasks(w) : phase[w][t] = "success" => DOMAIN output[w][t] \subseteq DOMAIN Upstream(w)
         /\ \A k \in DOMAIN Upstream(w) :
              \E t \in Tasks(w) : phase[w][t] = "success" /\ k \in DOMAIN output[w][t]
PROOF
<1> DEFINE outputs == {output[w][t] : t \in {u \in Tasks(w) : phase[w][u] = "success"}}
           keys == UNION {DOMAIN o : o \in outputs}
<1>1. Upstream(w) = [k \in keys |-> (CHOOSE o \in outputs : k \in DOMAIN o)[k]]
  BY DEF Upstream
<1>2. DOMAIN Upstream(w) = keys
  BY <1>1
<1>3. \A o \in outputs : Genuine(w, o)
  BY FromInv DEF TaskOK
<1>4. ASSUME NEW k \in keys
      PROVE  \E o \in outputs : k \in DOMAIN o /\ Upstream(w)[k] = o[k]
  <2>1. \E o \in outputs : k \in DOMAIN o
    OBVIOUS
  <2>2. /\ (CHOOSE o \in outputs : k \in DOMAIN o) \in outputs
        /\ k \in DOMAIN (CHOOSE o \in outputs : k \in DOMAIN o)
    BY <2>1
  <2>3. Upstream(w)[k] = (CHOOSE o \in outputs : k \in DOMAIN o)[k]
    BY <1>1
  <2> QED  BY <2>2, <2>3
<1>5. \A t \in Tasks(w) : phase[w][t] = "success" => DOMAIN output[w][t] \subseteq keys
  OBVIOUS
<1>6. \A k \in keys : \E t \in Tasks(w) : phase[w][t] = "success" /\ k \in DOMAIN output[w][t]
  OBVIOUS
<1> HIDE DEF outputs, keys
<1>7. Artifacts(w, Upstream(w))
  BY <1>2, <1>3, <1>4 DEF Genuine, Artifacts
<1>8. \A k \in DOMAIN Upstream(w) : Upstream(w)[k] = Canonical(w, k)
  BY <1>2, <1>3, <1>4 DEF Genuine
<1> QED  BY <1>2, <1>5, <1>6, <1>7, <1>8 DEF Genuine

LEMMA InjectedGenuine ==
  ASSUME IInv, NEW w \in Workflows, NEW t \in Tasks(w)
  PROVE  /\ Genuine(w, Injected(w, t))
         /\ DOMAIN Injected(w, t) = DOMAIN input[w][t] \cup DOMAIN Upstream(w)
PROOF
<1>1. Genuine(w, input[w][t]) /\ Genuine(w, Upstream(w))
  BY FromInv, UpstreamGenuine DEF TaskOK
<1>2. PICK i, u : i = input[w][t] /\ u = Upstream(w)
  OBVIOUS
<1>3. Injected(w, t) = [k \in DOMAIN i \cup DOMAIN u |-> IF k \in DOMAIN i THEN i[k] ELSE u[k]]
  BY <1>2 DEF Injected, Merged
<1> QED  BY <1>1, <1>2, <1>3 DEF Genuine, Artifacts

\* A task gets into a batch once its dependencies are done.
LEMMA StartBatchStep ==
  ASSUME IInv, NEW w \in Workflows, StartBatch(w)
  PROVE  IInv'
PROOF
<1>1. /\ Global /\ Shaped(w) /\ Chain(w) /\ (\A t \in Tasks(w) : TaskOK(w, t))
      /\ plan[w] \in Plans[w] /\ serial[w] \in Nat
      /\ Engineers(w) \subseteq Tasks(w) /\ Verifiers(w) \subseteq Tasks(w)
  BY FromInv
<1>2. PICK batch \in SUBSET {t \in Tasks(w) : Ready(w, t)} :
        phase' = [phase EXCEPT ![w] = [t \in Tasks(w) |-> IF t \in batch THEN "batched" ELSE phase[w][t]]]
  BY DEF StartBatch
<1>3. /\ run[w] = "running" /\ plan' = plan /\ run' = run /\ attempts' = attempts /\ input' = input
      /\ output' = output /\ toWrite' = toWrite /\ serial' = serial /\ forceApp' = forceApp
      /\ approved' = approved /\ requests' = requests /\ restarts' = restarts /\ faults' = faults
  BY DEF StartBatch, Idle
<1>4. /\ DOMAIN phase' = Workflows /\ DOMAIN phase'[w] = Tasks(w)
      /\ \A t \in batch : phase'[w][t] = "batched"
      /\ \A t \in Tasks(w) \ batch : phase'[w][t] = phase[w][t]
      /\ \A u \in Workflows \ {w} : phase'[u] = phase[u]
  BY <1>1, <1>2 DEF Global
<1>5. /\ batch \subseteq Tasks(w)
      /\ \A t \in batch : phase[w][t] = "pending" /\ \A d \in Deps(w, t) : phase[w][d] = "success"
  BY <1>2 DEF Ready
<1>6. /\ Tasks(w)' = Tasks(w) /\ Engineers(w)' = Engineers(w) /\ Verifiers(w)' = Verifiers(w)
      /\ Deployments(w)' = Deployments(w)
      /\ \A s : Deps(w, s)' = Deps(w, s) /\ Before(w, s)' = Before(w, s)
      /\ \A v, d : Gates(w, v, d)' = Gates(w, v, d)
      /\ \A d : Gated(w, d)' = Gated(w, d)
  BY <1>3, SamePlan
<1>7. Shaped(w)'
  BY <1>1, <1>3, <1>4, <1>6 DEF Shaped
<1>8. ASSUME NEW t \in Tasks(w)
      PROVE  TaskOK(w, t)'
  <2>1. TaskOK(w, t)
    BY <1>1
  <2>2. Genuine(w, input[w][t])' /\ Genuine(w, output[w][t])'
    BY <1>3, <1>6, <2>1 DEF TaskOK, Genuine, Artifacts, AllKeys, Canonical
  <2>3. CASE t \in batch
    <3>1. phase[w][t] = "pending" /\ phase'[w][t] = "batched"
      BY <1>4, <1>5, <2>3
    <3> QED  BY <1>3, <1>6, <2>1, <2>2, <3>1, DeliveryAssumption DEF TaskOK, InFlight
  <2>4. CASE t \notin batch
    <3>1. phase'[w][t] = phase[w][t]
      BY <1>4, <2>4
    <3> QED  BY <1>3, <1>6, <2>1, <2>2, <3>1 DEF TaskOK, InFlight
  <2> QED  BY <2>3, <2>4
<1>9. \A t \in Tasks(w) : phase[w][t] = "success" <=> phase'[w][t] = "success"
  BY <1>4, <1>5
<1>10. Chain(w)'
  <2>1. Ordered(w)'
    <3>1. ASSUME NEW t \in Tasks(w), phase'[w][t] # "pending", NEW u \in Deps(w, t)
          PROVE  phase'[w][u] = "success"
      <4>1. u \in Tasks(w)
        BY <1>1, PlanFits
      <4>2. phase[w][u] = "success"
        BY <1>1, <1>4, <1>5, <3>1 DEF Chain, Ordered
      <4> QED  BY <1>9, <4>1, <4>2
    <3> QED  BY <1>6, <3>1 DEF Ordered
  <2>2. Complete(w)'
    <3>1. \A v \in Verifiers(w) : phase'[w][v] \notin {"pending", "batched"} =>
            phase[w][v] \notin {"pending", "batched"}
      BY <1>1, <1>4, <1>5
    <3> QED  BY <1>1, <1>3, <1>6, <3>1 DEF Chain, Complete
  <2>3. Narrower(w)'
    BY <1>1, <1>3, <1>6 DEF Chain, Narrower
  <2>4. Answered(w)'
    <3>1. \A f \in approved[w] : Artifacts(w, f)'
      BY <1>1, <1>3, ArtifactsKept DEF Chain, Answered
    <3>2. \A r \in requests'[w] : Artifacts(w, r.artifacts)'
      BY <1>1, <1>3, ArtifactsKept DEF Chain, Answered
    <3>3. \A r \in requests'[w] : Gated(w, r.task)' => \E f \in approved'[w] : Covered(r.artifacts, f)'
      BY <1>1, <1>3, <1>6 DEF Chain, Answered, Covered
    <3>4. /\ \A v \in Verifiers(w) : phase'[w][v] = "success" => input'[w][v] \in approved'[w]
          /\ \A r \in requests'[w] : r.task \in Deployments(w)
      BY <1>1, <1>3, <1>9 DEF Chain, Answered
    <3>5. \A f \in approved'[w] : Artifacts(w, f)'
      BY <1>3, <3>1
    <3> QED  BY <1>6, <3>2, <3>3, <3>4, <3>5 DEF Answered
  <2> QED  BY <2>1, <2>2, <2>3, <2>4 DEF Chain
<1>11. Sound(w)'
  BY <1>1, <1>3, <1>6, <1>7, <1>8, <1>10 DEF Sound
<1>12. Global'
  BY <1>1, <1>3, <1>4 DEF Global
<1>13. Apart(w)
  BY <1>3, <1>4 DEF Apart
<1> QED  BY <1>11, <1>12, <1>13, FromSound

\* A verifier starts with all that the engineers before it have generated, and a
\* deployment behind one with nothing that this has not.
LEMMA StartsStep ==
  ASSUME IInv, NEW w \in Workflows, NEW t \in Tasks(w), Starts(w, t)
  PROVE  IInv'
PROOF
<1>1. /\ Global /\ Shaped(w) /\ Chain(w) /\ (\A s \in Tasks(w) : TaskOK(w, s))
      /\ plan[w] \in Plans[w] /\ serial[w] \in Nat
      /\ Engineers(w) \subseteq Tasks(w) /\ Verifiers(w) \subseteq Tasks(w)
      /\ Deployments(w) \subseteq Tasks(w)
  BY FromInv
<1>2. PICK into : into = Injected(w, t)
  OBVIOUS
<1>3. /\ phase[w][t] = "batched" /\ phase' = Set(phase, w, t, "started")
      /\ input' = Set(input, w, t, into)
      /\ plan' = plan /\ run' = run /\ attempts' = attempts
      /\ output' = output /\ toWrite' = toWrite /\ serial' = serial /\ forceApp' = forceApp
      /\ approved' = approved /\ requests' = requests /\ restarts' = restarts /\ faults' = faults
  BY <1>2 DEF Starts
<1>4. /\ w \in DOMAIN phase /\ t \in DOMAIN phase[w] /\ w \in DOMAIN input /\ t \in DOMAIN input[w]
  BY <1>1 DEF Global, Shaped
<1>5. /\ Updated(phase, phase', w, t) /\ phase'[w][t] = "started"
      /\ Updated(input, input', w, t) /\ input'[w][t] = into
  BY <1>3, <1>4, SetUpdates
<1>6. \A s \in Tasks(w) \ {t} : phase'[w][s] = phase[w][s] /\ input'[w][s] = input[w][s]
  BY <1>1, <1>5 DEF Updated, Shaped
<1>7. /\ Tasks(w)' = Tasks(w) /\ Engineers(w)' = Engineers(w) /\ Verifiers(w)' = Verifiers(w)
      /\ Deployments(w)' = Deployments(w)
      /\ \A s : Deps(w, s)' = Deps(w, s) /\ Before(w, s)' = Before(w, s)
      /\ \A v, d : Gates(w, v, d)' = Gates(w, v, d)
      /\ \A d : Gated(w, d)' = Gated(w, d)
  BY <1>3, SamePlan
<1>8. /\ Genuine(w, into) /\ DOMAIN into = DOMAIN input[w][t] \cup DOMAIN Upstream(w)
      /\ \A s \in Tasks(w) : phase[w][s] = "success" => DOMAIN output[w][s] \subseteq DOMAIN Upstream(w)
      /\ \A k \in DOMAIN Upstream(w) :
           \E s \in Tasks(w) : phase[w][s] = "success" /\ k \in DOMAIN output[w][s]
  BY <1>2, InjectedGenuine, UpstreamGenuine
<1>9. Shaped(w)'
  BY <1>1, <1>3, <1>5, <1>7 DEF Shaped, Updated
<1>10. ASSUME NEW s \in Tasks(w)
       PROVE  TaskOK(w, s)'
  <2>1. TaskOK(w, s)
    BY <1>1
  <2>2. PICK i, o : i = input'[w][s] /\ o = output'[w][s]
    OBVIOUS
  <2>3. Genuine(w, i) /\ Genuine(w, o)
    <3>1. CASE s = t
      BY <1>3, <1>5, <1>8, <2>1, <2>2, <3>1 DEF TaskOK
    <3>2. CASE s # t
      BY <1>3, <1>6, <2>1, <2>2, <3>2 DEF TaskOK
    <3> QED  BY <3>1, <3>2
  <2>4. Genuine(w, i)' /\ Genuine(w, o)'
    BY <1>1, <1>3, <2>3, GenuineKept
  <2>5. Genuine(w, input[w][s])' /\ Genuine(w, output[w][s])'
    BY <2>2, <2>4 DEF Genuine, Artifacts, Canonical
  <2>6. CASE s = t
    BY <1>3, <1>5, <1>7, <2>1, <2>5, <2>6 DEF TaskOK, InFlight
  <2>7. CASE s # t
    <3>1. phase'[w][s] = phase[w][s]
      BY <1>6, <2>7
    <3> QED  BY <1>3, <1>7, <2>1, <2>5, <3>1 DEF TaskOK, InFlight
  <2> QED  BY <2>6, <2>7
<1>11. \A s \in Tasks(w) : /\ phase'[w][s] = "success" <=> phase[w][s] = "success"
                           /\ phase'[w][s] # "pending" <=> phase[w][s] # "pending"
  BY <1>3, <1>5, <1>6
<1>12. Ordered(w)'
  <2>1. \A s \in Tasks(w) : Deps(w, s) \subseteq Tasks(w)
    BY <1>1, PlanFits
  <2> QED  BY <1>1, <1>7, <1>11, <2>1 DEF Chain, Ordered
<1>13. \A s \in Tasks(w) : DOMAIN input[w][s] \subseteq DOMAIN input'[w][s]
  BY <1>5, <1>6, <1>8
<1>14. Complete(w)'
  <2>1. ASSUME NEW v \in Verifiers(w), phase'[w][v] \notin {"pending", "batched"},
               NEW u \in Engineers(w) \cap Before(w, v)
        PROVE  DOMAIN output[w][u] \subseteq DOMAIN input'[w][v]
    <3>1. v \in Tasks(w)
      BY <1>1
    <3>2. CASE v = t
      <4>1. u \in Tasks(w) /\ phase[w][u] = "success"
        BY <1>1, <1>3, <2>1, <3>1, <3>2, BeforeDone DEF Chain
      <4> QED  BY <1>5, <1>8, <3>2, <4>1
    <3>3. CASE v # t
      <4>1. phase[w][v] \notin {"pending", "batched"}
        BY <1>6, <2>1, <3>1, <3>3
      <4>2. DOMAIN output[w][u] \subseteq DOMAIN input[w][v]
        BY <1>1, <2>1, <4>1 DEF Chain, Complete
      <4> QED  BY <1>13, <3>1, <4>2
    <3> QED  BY <3>2, <3>3
  <2> QED  BY <1>3, <1>7, <2>1 DEF Complete
<1>15. Narrower(w)'
  <2>1. ASSUME NEW v \in Tasks(w), NEW d \in Tasks(w), d \in Deployments(w), Gates(w, v, d)
        PROVE  DOMAIN input'[w][d] \subseteq DOMAIN input'[w][v]
    <3>1. DOMAIN input[w][d] \subseteq DOMAIN input[w][v]
      BY <1>1, <2>1 DEF Chain, Narrower
    <3>2. CASE d = t
      <4>1. v \in Verifiers(w) /\ phase[w][v] = "success" /\ Engineers(w) \subseteq Before(w, v)
        BY <1>1, <1>3, <2>1, <3>2, BeforeDone DEF Gates, Chain
      <4>2. \A u \in Engineers(w) : DOMAIN output[w][u] \subseteq DOMAIN input[w][v]
        BY <1>1, <4>1 DEF Chain, Complete
      <4>3. \A u \in Tasks(w) \ Engineers(w) : DOMAIN output[w][u] = {}
        BY <1>1 DEF TaskOK
      <4>4. DOMAIN Upstream(w) \subseteq DOMAIN input[w][v]
        BY <1>8, <4>2, <4>3
      <4>5. DOMAIN input'[w][d] \subseteq DOMAIN input[w][v]
        BY <1>5, <1>8, <3>1, <3>2, <4>4
      <4> QED  BY <1>13, <4>5
    <3>3. CASE d # t
      BY <1>6, <1>13, <2>1, <3>1, <3>3
    <3> QED  BY <3>2, <3>3
  <2> QED  BY <1>7, <2>1 DEF Narrower
<1>16. Answered(w)'
  <2>1. \A f \in approved'[w] : Artifacts(w, f)'
    <3>1. \A f \in approved[w] : Artifacts(w, f)'
      BY <1>1, <1>3, ArtifactsKept DEF Chain, Answered
    <3> QED  BY <1>3, <3>1
  <2>2. \A r \in requests'[w] : Artifacts(w, r.artifacts)'
    BY <1>1, <1>3, ArtifactsKept DEF Chain, Answered
  <2>3. \A r \in requests'[w] : Gated(w, r.task)' => \E f \in approved'[w] : Covered(r.artifacts, f)'
    BY <1>1, <1>3, <1>7 DEF Chain, Answered, Covered
  <2>4. \A r \in requests'[w] : r.task \in Deployments(w)
    BY <1>1, <1>3 DEF Chain, Answered
  <2>5. ASSUME NEW v \in Verifiers(w), phase'[w][v] = "success"
        PROVE  input'[w][v] \in approved'[w]
    <3>1. v \in Tasks(w) /\ v # t
      BY <1>1, <1>5, <2>5
    <3>2. phase[w][v] = "success" /\ input'[w][v] = input[w][v]
      BY <1>6, <2>5, <3>1
    <3> QED  BY <1>1, <1>3, <2>5, <3>2 DEF Chain, Answered
  <2> QED  BY <1>7, <2>1, <2>2, <2>3, <2>4, <2>5 DEF Answered
<1>17. Sound(w)'
  BY <1>1, <1>3, <1>7, <1>9, <1>10, <1>12, <1>14, <1>15, <1>16 DEF Sound, Chain
<1>18. Global'
  BY <1>1, <1>3, <1>5 DEF Global, Updated
<1>19. Apart(w)
  BY <1>1, <1>3, <1>5 DEF Apart, Updated, Global
<1> QED  BY <1>17, <1>18, <1>19, FromSound

\* A run that ends has no task in flight.
LEMMA EndRunStep ==
  ASSUME IInv, NEW w \in Workflows, EndRun(w)
  PROVE  IInv'
PROOF
<1>1. /\ Global /\ Shaped(w) /\ Chain(w) /\ (\A t \in Tasks(w) : TaskOK(w, t))
      /\ plan[w] \in Plans[w] /\ serial[w] \in Nat
  BY FromInv
<1>2. /\ plan' = plan /\ phase' = phase /\ attempts' = attempts /\ input' = input
      /\ output' = output /\ toWrite' = toWrite /\ serial' = serial /\ forceApp' = forceApp
      /\ approved' = approved /\ requests' = requests /\ restarts' = restarts /\ faults' = faults
      /\ (run' = [run EXCEPT ![w] = "failed"] \/ run' = [run EXCEPT ![w] = "success"])
      /\ \A t \in Tasks(w) : ~InFlight(w, t)
  BY DEF EndRun, Idle
<1>3. Tasks(w)' = Tasks(w) /\ Engineers(w)' = Engineers(w)
  BY <1>2 DEF Tasks, Engineers
<1>4. Shaped(w)'
  BY <1>1, <1>2, <1>3 DEF Shaped
<1>5. ASSUME NEW t \in Tasks(w)
      PROVE  TaskOK(w, t)'
  <2>1. TaskOK(w, t) /\ ~InFlight(w, t)'
    BY <1>1, <1>2 DEF InFlight
  <2>2. Genuine(w, input[w][t])' /\ Genuine(w, output[w][t])'
    BY <1>2, <1>3, <2>1 DEF TaskOK, Genuine, Artifacts, AllKeys, Canonical
  <2> QED  BY <1>2, <1>3, <2>1, <2>2 DEF TaskOK
<1>6. Chain(w)'
  BY <1>1, <1>2, ChainSame
<1>7. Sound(w)'
  BY <1>1, <1>2, <1>3, <1>4, <1>5, <1>6 DEF Sound
<1>8. Global'
  BY <1>1, <1>2 DEF Global
<1>9. Apart(w)
  BY <1>1, <1>2 DEF Apart, Global
<1> QED  BY <1>7, <1>8, <1>9, FromSound

\* The inputs of the runs before stay, and are what their keys say.
LEMMA RestartStep ==
  ASSUME IInv, NEW w \in Workflows, Restart(w)
  PROVE  IInv'
PROOF
<1>1. /\ Global /\ Shaped(w) /\ Chain(w) /\ (\A t \in Tasks(w) : TaskOK(w, t))
      /\ Engineers(w) \subseteq Tasks(w) /\ Verifiers(w) \subseteq Tasks(w)
      /\ plan[w] \in Plans[w] /\ serial[w] \in Nat
  BY FromInv
<1>2. /\ run[w] # "running" /\ restarts[w] < MaxRestarts
      /\ plan' = plan /\ input' = input /\ toWrite' = toWrite /\ serial' = serial
      /\ forceApp' = forceApp /\ faults' = faults
      /\ restarts' = [restarts EXCEPT ![w] = restarts[w] + 1]
      /\ run' = [run EXCEPT ![w] = "running"]
      /\ phase' = [phase EXCEPT ![w] = [t \in Tasks(w) |-> "pending"]]
      /\ attempts' = [attempts EXCEPT ![w] = [t \in Tasks(w) |-> 0]]
      /\ output' = [output EXCEPT ![w] = [t \in Tasks(w) |-> Nothing]]
      /\ approved' = [approved EXCEPT ![w] = {}]
      /\ requests' = [requests EXCEPT ![w] = {}]
  BY DEF Restart, PerTask
<1>3. Tasks(w)' = Tasks(w) /\ Engineers(w)' = Engineers(w)
  BY <1>2 DEF Tasks, Engineers
<1>4. /\ phase'[w] = [t \in Tasks(w) |-> "pending"] /\ attempts'[w] = [t \in Tasks(w) |-> 0]
      /\ output'[w] = [t \in Tasks(w) |-> Nothing] /\ approved'[w] = {} /\ requests'[w] = {}
      /\ run'[w] = "running"
  BY <1>1, <1>2 DEF Global
<1>5. Shaped(w)'
  BY <1>1, <1>2, <1>3, <1>4 DEF Shaped
<1>6. DOMAIN Nothing = {}
  BY DEF Nothing
<1>7. ASSUME NEW t \in Tasks(w)
      PROVE  TaskOK(w, t)'
  <2>1. TaskOK(w, t)
    BY <1>1
  <2>2. /\ phase'[w][t] = "pending" /\ attempts'[w][t] = 0 /\ output'[w][t] = Nothing
        /\ input'[w][t] = input[w][t]
    BY <1>2, <1>4
  <2>3. toWrite'[w][t] = {}
    BY <1>2, <2>1 DEF TaskOK, InFlight
  <2>4. Genuine(w, output[w][t])'
    BY <1>6, <2>2 DEF Genuine, Artifacts
  <2>5. Genuine(w, input[w][t])'
    BY <1>2, <1>3, <2>1 DEF TaskOK, Genuine, Artifacts, AllKeys, Canonical
  <2> QED  BY <1>6, <2>2, <2>3, <2>4, <2>5, DeliveryAssumption DEF TaskOK, InFlight
<1>8. Chain(w)'
  <2>1. /\ Verifiers(w)' = Verifiers(w) /\ Deployments(w)' = Deployments(w)
        /\ \A v, d : Gates(w, v, d)' = Gates(w, v, d)
    BY <1>2, SamePlan
  <2>2. \A u \in Tasks(w) : phase'[w][u] = "pending"
    BY <1>4
  <2>3. Ordered(w)' /\ Complete(w)' /\ Answered(w)'
    BY <1>1, <1>3, <1>4, <2>1, <2>2 DEF Ordered, Complete, Answered
  <2>4. Narrower(w)'
    BY <1>1, <1>2, <1>3, <2>1 DEF Chain, Narrower
  <2> QED  BY <2>3, <2>4 DEF Chain
<1>9. Sound(w)'
  BY <1>1, <1>2, <1>3, <1>5, <1>7, <1>8 DEF Sound
<1>10. Global'
  <2>1. restarts' \in [Workflows -> 0..MaxRestarts]
    <3>1. restarts[w] + 1 \in 0..MaxRestarts
      BY <1>1, <1>2, DeliveryAssumption DEF Global
    <3> QED  BY <1>1, <1>2, <3>1 DEF Global
  <2> QED  BY <1>1, <1>2, <2>1 DEF Global
<1>11. Apart(w)
  BY <1>1, <1>2 DEF Apart, Global
<1> QED  BY <1>9, <1>10, <1>11, FromSound

LEMMA InvStep == IInv /\ [Next]_vars => IInv'
PROOF
<1> SUFFICES ASSUME IInv, [Next]_vars  PROVE IInv'
  OBVIOUS
<1>1. ASSUME NEW w \in Workflows, Step(w) \/ Restart(w)
      PROVE  IInv'
  <2>1. CASE StartBatch(w)
    BY <2>1, StartBatchStep
  <2>2. CASE EndRun(w)
    BY <2>2, EndRunStep
  <2>3. ASSUME NEW t \in Tasks(w), TaskStep(w, t)
        PROVE  IInv'
    <3>1. CASE Starts(w, t)
      BY <3>1, StartsStep
    <3>2. CASE EngineerFails(w, t)
      BY <3>2, EngineerFailsStep
    <3>3. CASE Generates(w, t)
      BY <3>3, GeneratesStep
    <3>4. CASE Written(w, t)
      BY <3>4, WrittenStep
    <3>5. CASE \E file \in toWrite[w][t] : WriteFile(w, t, file)
      BY <3>5, WriteFileStep
    <3>6. CASE Approves(w, t)
      BY <3>6, ApprovesStep
    <3>7. CASE VerificationFails(w, t)
      BY <3>7, VerificationFailsStep
    <3>8. CASE Deploys(w, t)
      BY <3>8, DeploysStep
    <3> QED  BY <2>3, <3>1, <3>2, <3>3, <3>4, <3>5, <3>6, <3>7, <3>8 DEF TaskStep
  <2>4. CASE Restart(w)
    BY <2>4, RestartStep
  <2> QED  BY <1>1, <2>1, <2>2, <2>3, <2>4 DEF Step
<1>2. CASE UNCHANGED vars
  <2>1. \A u \in Workflows : Sound(u)'
    BY <1>2, SameSound DEF IInv, Global, vars
  <2>2. Global'
    BY <1>2 DEF IInv, Global, vars
  <2> QED  BY <2>1, <2>2 DEF IInv
<1> QED  BY <1>1, <1>2 DEF Next

-----------------------------------------------------------------------------
(* The theorems                                                            *)

\* Every artifact between the tasks of a workflow is what its key says, whoever restarts
\* it and whatever fails (_inject_upstream_artifacts, the adapters, restart).
THEOREM Invariance == Spec => []IInv
PROOF
<1>1. Init => IInv
  BY InitInv
<1>2. IInv /\ [Next]_vars => IInv'
  BY InvStep
<1> QED  BY <1>1, <1>2, PTL DEF Spec

\* Types; no task has more than MaxAttempts attempts, and none is in flight in a run that
\* has ended (the retries of the engine, the batches it waits for).
THEOREM DeliveryTypes == Spec => []DeliveryTypeOK
PROOF
<1>1. IInv => DeliveryTypeOK
  <2> SUFFICES ASSUME IInv  PROVE DeliveryTypeOK
    OBVIOUS
  <2>1. ASSUME NEW w \in Workflows
        PROVE  /\ plan[w] \in Plans[w]
               /\ \A f \in approved[w] : Artifacts(w, f)
               /\ \A r \in requests[w] : r.task \in Deployments(w) /\ Artifacts(w, r.artifacts)
               /\ \A t \in Tasks(w) :
                    /\ phase[w][t] \in {"pending", "batched", "started", "writing", "success", "failed"}
                    /\ attempts[w][t] \in 0..MaxAttempts
                    /\ Artifacts(w, input[w][t]) /\ Artifacts(w, output[w][t])
                    /\ toWrite[w][t] # {} => phase[w][t] = "writing"
                    /\ InFlight(w, t) => run[w] = "running"
    BY FromInv DEF Chain, Answered, TaskOK, Genuine
  <2> QED  BY <2>1 DEF IInv, Global, DeliveryTypeOK
<1> QED  BY <1>1, Invariance, PTL

\* What a deployment behind a verifier requests was approved in the same run, restarts and
\* the inputs that earlier runs left notwithstanding, for every plan and whatever the
\* verifiers find (VerifierTaskAdapter, DeploymentTaskAdapter, _inject_upstream_artifacts).
THEOREM DeployedIsApproved == Spec => []DeployedWasApproved
PROOF
<1>1. IInv => DeployedWasApproved
  BY FromInv DEF DeployedWasApproved, Chain, Answered
<1> QED  BY <1>1, Invariance, PTL

\* A verifier is given all that the engineers before it have generated in this run, and
\* nothing of an earlier run in its place (_collect_workflow_artifacts,
\* _inject_upstream_artifacts).
THEOREM GenerationIsVerified == Spec => []GeneratedIsVerified
PROOF
<1>1. IInv => GeneratedIsVerified
  <2> SUFFICES ASSUME IInv, NEW w \in Workflows, NEW v \in Verifiers(w), phase[w][v] = "started",
                      NEW t \in Engineers(w) \cap Before(w, v), NEW k \in DOMAIN output[w][t]
               PROVE  k \in DOMAIN input[w][v] /\ input[w][v][k] = output[w][t][k]
    BY DEF GeneratedIsVerified
  <2>1. TaskOK(w, t) /\ TaskOK(w, v) /\ Chain(w)
    BY FromInv
  <2>2. k \in DOMAIN input[w][v]
    BY <2>1 DEF Chain, Complete
  <2> QED  BY <2>1, <2>2 DEF TaskOK, Genuine
<1> QED  BY <1>1, Invariance, PTL

=============================================================================
