---------------------------- MODULE ToolLayerProofs ----------------------------
(***************************************************************************)
(* Every request makes a bounded number of attempts and starts no more     *)
(* processes, its announcements reach those who listen, in their order,    *)
(* and nobody twice under one name: for any number of requests, handlers   *)
(* and changes of subscriptions while the bus delivers.                    *)
(***************************************************************************)
EXTENDS ToolLayer, TLAPS

Events == Names \cup {"*"}
Announcement(r, event) == [name |-> event, by |-> r]
Call == [handler : Handlers, list : Events]
ToAll(h) == [handler |-> h, list |-> "*"]

\* The points behind the first announcement.
Heeded == {"requested", "attempting", "running", "backoff", "answered", "answering", "returned"}

\* No list has a handler twice, and who is loyal is on the list for everything.
ListsKept ==
  /\ \A event \in Events : IsInjective(handlers[event])
  /\ \A h \in Loyal : h \in Range(handlers["*"])

\* What is left of the attempts, and of the processes that may still be started.
Attempted(r) ==
  /\ pc[r] \in {"idle", "announcing", "requested"} => attempt[r] = 0
  /\ pc[r] = "attempting" => live[r] < attempt[r]
  /\ pc[r] = "running" /\ RunsProcess(name[r]) => live[r] > 0
  /\ pc[r] = "backoff" => attempt[r] < Attempts

\* A loyal handler has seen an announcement, or publish has still to call it.
Heard(r) ==
  \A h \in Loyal :
    /\ pc[r] = "announcing" => Saw(h, "tool.requested", r) \/ ToAll(h) \in Range(pending[r])
    /\ pc[r] \in Heeded \/ attempt[r] > 0 => Saw(h, "tool.requested", r)
    /\ pc[r] = "answering" => Saw(h, "tool.responded", r) \/ ToAll(h) \in Range(pending[r])
    /\ pc[r] = "returned" => Saw(h, "tool.responded", r)

\* The calls that an announcement is for, each of them once.
Due(c, event) == IF c.list \in {event, "*"} THEN 1 ELSE 0

\* The calls that publish has still to make are calls for the event, all different, and
\* none of them has been made.
StillToMake(list, event, r) ==
  /\ IsInjective(list)
  /\ \A i \in 1..Len(list) : list[i].list \in {event, "*"} /\ seen[list[i]][<<event, r>>] = 0

Called(r) ==
  /\ \A c \in Call : \A event \in Names : seen[c][<<event, r>>] <= Due(c, event)
  /\ pc[r] = "idle" => \A c \in Call : seen[c][<<"tool.requested", r>>] = 0
  /\ pc[r] \notin {"answering", "returned", "raised"} =>
       \A c \in Call : seen[c][<<"tool.responded", r>>] = 0
  /\ pc[r] = "announcing" => publishing[r] = Announcement(r, "tool.requested")
  /\ pc[r] = "answering" => publishing[r] = Announcement(r, "tool.responded")
  /\ pc[r] \in {"announcing", "answering"} =>
       StillToMake(pending[r], publishing[r].name, r)

IInv ==
  /\ ToolsTypeOK /\ ListsKept
  /\ \A r \in Requests : Attempted(r) /\ Heard(r) /\ Called(r)

-----------------------------------------------------------------------------
(* Lists                                                                   *)

LEMMA TailOf ==
  ASSUME NEW S, NEW list \in Seq(S), list # <<>>
  PROVE  /\ Head(list) \in S /\ Head(list) = list[1] /\ Len(list) \in Nat \ {0}
         /\ Tail(list) \in Seq(S) /\ Len(Tail(list)) = Len(list) - 1
         /\ \A i \in 1..(Len(list) - 1) : Tail(list)[i] = list[i + 1]
OBVIOUS

LEMMA Longer ==
  ASSUME NEW S, NEW list \in Seq(S), NEW e \in S
  PROVE  /\ Append(list, e) \in Seq(S) /\ Len(list) \in Nat
         /\ Len(Append(list, e)) = Len(list) + 1
OBVIOUS

LEMMA Joined ==
  ASSUME NEW S, NEW a \in Seq(S), NEW b \in Seq(S)
  PROVE  /\ a \o b \in Seq(S) /\ Len(a \o b) = Len(a) + Len(b) /\ Len(a) \in Nat /\ Len(b) \in Nat
         /\ \A i \in 1..Len(a) : (a \o b)[i] = a[i]
         /\ \A i \in (Len(a) + 1)..(Len(a) + Len(b)) : (a \o b)[i] = b[i - Len(a)]
OBVIOUS

LEMMA Listed ==
  ASSUME NEW S, NEW list \in Seq(S), NEW h
  PROVE  h \in Range(list) <=> \E i \in 1..Len(list) : list[i] = h
BY DEF Range

\* append at the end, unless it is there.
LEMMA Subscribing ==
  ASSUME NEW S, NEW list \in Seq(S), NEW h \in S, IsInjective(list),
         \A i \in 1..Len(list) : list[i] # h
  PROVE  /\ Append(list, h) \in Seq(S) /\ IsInjective(Append(list, h))
         /\ Range(list) \subseteq Range(Append(list, h))
PROOF
<1>1. /\ Append(list, h) \in Seq(S) /\ Len(Append(list, h)) = Len(list) + 1 /\ Len(list) \in Nat
      /\ Append(list, h)[Len(list) + 1] = h
      /\ \A i \in 1..Len(list) : Append(list, h)[i] = list[i]
  OBVIOUS
<1>2. IsInjective(Append(list, h))
  <2>1. DOMAIN Append(list, h) = 1..(Len(list) + 1) /\ DOMAIN list = 1..Len(list)
    BY <1>1
  <2>2. ASSUME NEW i \in 1..(Len(list) + 1), NEW j \in 1..(Len(list) + 1),
               Append(list, h)[i] = Append(list, h)[j]
        PROVE  i = j
    <3>1. CASE i \in 1..Len(list) /\ j \in 1..Len(list)
      BY <1>1, <2>1, <2>2, <3>1 DEF IsInjective
    <3>2. CASE i = Len(list) + 1 \/ j = Len(list) + 1
      BY <1>1, <2>2, <3>2
    <3> QED  BY <1>1, <3>1, <3>2
  <2> QED  BY <2>1, <2>2 DEF IsInjective
<1>3. Range(list) \subseteq Range(Append(list, h))
  <2>1. ASSUME NEW g \in Range(list)
        PROVE  g \in Range(Append(list, h))
    <3>1. PICK i \in 1..Len(list) : list[i] = g
      BY Listed
    <3>2. i \in 1..Len(Append(list, h)) /\ Append(list, h)[i] = g
      BY <1>1, <3>1
    <3> QED  BY <1>1, <3>2, Listed
  <2> QED  BY <2>1
<1> QED  BY <1>1, <1>2, <1>3

\* list.remove at the place k.
LEMMA Removed ==
  ASSUME NEW S, NEW list \in Seq(S), NEW k \in 1..Len(list)
  PROVE  /\ Bus!RemoveAt(list, k) \in Seq(S) /\ Len(Bus!RemoveAt(list, k)) = Len(list) - 1
         /\ \A i \in 1..(k - 1) : Bus!RemoveAt(list, k)[i] = list[i]
         /\ \A i \in k..(Len(list) - 1) : Bus!RemoveAt(list, k)[i] = list[i + 1]
PROOF
<1> DEFINE a == SubSeq(list, 1, k - 1)
           b == SubSeq(list, k + 1, Len(list))
<1>1. Len(list) \in Nat /\ k \in Nat
  OBVIOUS
<1>2. a \in Seq(S) /\ Len(a) = k - 1 /\ \A i \in 1..(k - 1) : a[i] = list[i]
  OBVIOUS
<1>3. b \in Seq(S) /\ Len(b) = Len(list) - k /\ \A i \in 1..(Len(list) - k) : b[i] = list[k + i]
  OBVIOUS
<1>4. Bus!RemoveAt(list, k) = a \o b
  BY DEF Bus!RemoveAt
<1> HIDE DEF a, b
<1>5. /\ a \o b \in Seq(S) /\ Len(a \o b) = Len(list) - 1
      /\ \A i \in 1..(k - 1) : (a \o b)[i] = a[i]
      /\ \A i \in k..(Len(list) - 1) : (a \o b)[i] = b[i - (k - 1)]
  <2>1. a \in Seq(S) /\ b \in Seq(S)
    BY <1>2, <1>3
  <2>2. /\ a \o b \in Seq(S) /\ Len(a \o b) = Len(a) + Len(b)
        /\ \A i \in 1..Len(a) : (a \o b)[i] = a[i]
        /\ \A i \in (Len(a) + 1)..(Len(a) + Len(b)) : (a \o b)[i] = b[i - Len(a)]
    BY ONLY <2>1, Joined
  <2>3. Len(a) = k - 1 /\ Len(b) = Len(list) - k
    BY <1>2, <1>3
  <2>4. Len(a) + Len(b) = Len(list) - 1 /\ Len(a) + 1 = k
    BY ONLY <1>1, <2>3
  <2>5. /\ \A i \in 1..(k - 1) : (a \o b)[i] = a[i]
        /\ \A i \in k..(Len(list) - 1) : (a \o b)[i] = b[i - (k - 1)]
    BY ONLY <2>2, <2>3, <2>4
  <2> QED  BY ONLY <2>2, <2>4, <2>5
<1>6. ASSUME NEW i \in k..(Len(list) - 1)
      PROVE  (a \o b)[i] = list[i + 1]
  <2>1. i \in Int /\ i - (k - 1) \in 1..(Len(list) - k) /\ k + (i - (k - 1)) = i + 1
    BY <1>1
  <2> QED  BY <1>3, <1>5, <2>1
<1> QED  BY <1>2, <1>4, <1>5, <1>6

LEMMA Unsubscribing ==
  ASSUME NEW S, NEW list \in Seq(S), IsInjective(list), NEW k \in 1..Len(list)
  PROVE  /\ Bus!RemoveAt(list, k) \in Seq(S) /\ IsInjective(Bus!RemoveAt(list, k))
         /\ \A g \in Range(list) : g # list[k] => g \in Range(Bus!RemoveAt(list, k))
PROOF
<1>1. PICK new : new = Bus!RemoveAt(list, k)
  OBVIOUS
<1>2. /\ new \in Seq(S) /\ Len(new) = Len(list) - 1 /\ Len(list) \in Nat
      /\ \A i \in 1..(k - 1) : new[i] = list[i]
      /\ \A i \in k..(Len(list) - 1) : new[i] = list[i + 1]
  BY <1>1, Removed
<1>3. ASSUME NEW i \in 1..Len(new), NEW j \in 1..Len(new), new[i] = new[j]
      PROVE  i = j
  <2>1. \A m, n \in 1..Len(list) : list[m] = list[n] => m = n
    BY DEF IsInjective
  <2>2. CASE i < k /\ j < k
    BY <1>2, <1>3, <2>1, <2>2
  <2>3. CASE i < k /\ j >= k
    BY <1>2, <1>3, <2>1, <2>3
  <2>4. CASE i >= k /\ j < k
    BY <1>2, <1>3, <2>1, <2>4
  <2>5. CASE i >= k /\ j >= k
    BY <1>2, <1>3, <2>1, <2>5
  <2> QED  BY <2>2, <2>3, <2>4, <2>5
<1>4. IsInjective(new)
  BY <1>2, <1>3 DEF IsInjective
<1>5. ASSUME NEW g \in Range(list), g # list[k]
      PROVE  g \in Range(new)
  <2>1. PICK i \in 1..Len(list) : list[i] = g
    BY Listed
  <2>2. CASE i < k
    <3>1. i \in 1..Len(new) /\ new[i] = g
      BY <1>2, <2>1, <2>2
    <3> QED  BY <1>2, <3>1, Listed
  <2>3. CASE i > k
    <3>1. i - 1 \in 1..Len(new) /\ new[i - 1] = g
      BY <1>2, <2>1, <2>3
    <3> QED  BY <1>2, <3>1, Listed
  <2> QED  BY <1>5, <2>1, <2>2, <2>3
<1> QED  BY <1>1, <1>2, <1>4, <1>5

\* The calls for a list: one for each handler on it.
LEMMA CallsOf ==
  ASSUME NEW event \in Events, handlers[event] \in Seq(Handlers), IsInjective(handlers[event])
  PROVE  /\ Bus!Calls(event) \in Seq(Call) /\ IsInjective(Bus!Calls(event))
         /\ \A i \in 1..Len(Bus!Calls(event)) : Bus!Calls(event)[i].list = event
         /\ \A h \in Range(handlers[event]) :
              [handler |-> h, list |-> event] \in Range(Bus!Calls(event))
PROOF
<1>1. PICK list \in Seq(Handlers) : list = handlers[event]
  OBVIOUS
<1>2. PICK n \in Nat : n = Len(list) /\ DOMAIN list = 1..n
  OBVIOUS
<1>3. PICK q : q = [i \in 1..n |-> [handler |-> list[i], list |-> event]]
  OBVIOUS
<1>4. Bus!Calls(event) = q
  BY <1>1, <1>2, <1>3 DEF Bus!Calls
<1>5. \A i \in 1..n : q[i] = [handler |-> list[i], list |-> event] /\ list[i] \in Handlers
  BY <1>1, <1>2, <1>3
<1>6. ASSUME NEW i \in 1..n
      PROVE  q[i] \in Call /\ q[i].handler = list[i] /\ q[i].list = event
  <2>1. PICK h \in Handlers : h = list[i] /\ q[i] = [handler |-> h, list |-> event]
    BY <1>5
  <2>2. [handler |-> h, list |-> event] \in Call
    BY DEF Call
  <2> QED  BY <2>1, <2>2
<1>7. q \in Seq(Call) /\ Len(q) = n /\ DOMAIN q = 1..n
  <2>1. q \in [1..n -> Call]
    BY <1>3, <1>6
  <2> QED  BY <1>3, <2>1
<1>8. IsInjective(q)
  <2>1. \A i, j \in 1..n : list[i] = list[j] => i = j
    BY <1>1, <1>2 DEF IsInjective
  <2>2. \A i, j \in 1..n : q[i] = q[j] => i = j
    BY <1>6, <2>1
  <2> QED  BY <1>7, <2>2 DEF IsInjective
<1>9. ASSUME NEW h \in Range(list)
      PROVE  [handler |-> h, list |-> event] \in Range(q)
  <2>1. PICK i \in 1..n : list[i] = h
    BY <1>2, Listed
  <2>2. i \in 1..Len(q) /\ q[i] = [handler |-> h, list |-> event]
    BY <1>5, <1>7, <2>1
  <2> QED  BY <1>7, <2>2, Listed
<1> QED  BY <1>1, <1>4, <1>6, <1>7, <1>8, <1>9

\* Two lists of different calls after each other.
LEMMA TwoParts ==
  ASSUME NEW a \in Seq(Call), NEW b \in Seq(Call), IsInjective(a), IsInjective(b),
         NEW e1 \in Events, NEW e2 \in Events,
         e1 # e2, \A i \in 1..Len(a) : a[i].list = e1, \A i \in 1..Len(b) : b[i].list = e2
  PROVE  /\ a \o b \in Seq(Call) /\ IsInjective(a \o b)
         /\ \A i \in 1..Len(a \o b) : (a \o b)[i].list \in {e1, e2}
         /\ Range(b) \subseteq Range(a \o b)
PROOF
<1>1. PICK q : q = a \o b
  OBVIOUS
<1>2. /\ q \in Seq(Call) /\ Len(q) = Len(a) + Len(b) /\ Len(a) \in Nat /\ Len(b) \in Nat
      /\ \A i \in 1..Len(a) : q[i] = a[i]
      /\ \A i \in (Len(a) + 1)..Len(q) : q[i] = b[i - Len(a)]
  BY <1>1, Joined
<1>3. \A i \in (Len(a) + 1)..Len(q) : i - Len(a) \in 1..Len(b)
  BY <1>2
<1>4. /\ \A i \in 1..Len(a) : q[i].list = e1
      /\ \A i \in (Len(a) + 1)..Len(q) : q[i].list = e2
  BY <1>2, <1>3
<1>5. ASSUME NEW i \in 1..Len(q), NEW j \in 1..Len(q), q[i] = q[j]
      PROVE  i = j
  <2>1. CASE i \in 1..Len(a) /\ j \in 1..Len(a)
    BY <1>2, <1>5, <2>1 DEF IsInjective
  <2>2. CASE i \in (Len(a) + 1)..Len(q) /\ j \in (Len(a) + 1)..Len(q)
    <3>1. b[i - Len(a)] = b[j - Len(a)]
      BY <1>2, <1>5, <2>2
    <3>2. PICK m \in 1..Len(b), n \in 1..Len(b) : m = i - Len(a) /\ n = j - Len(a)
      BY <1>3, <2>2
    <3>3. m = n
      BY <3>1, <3>2 DEF IsInjective
    <3> QED  BY <1>2, <3>2, <3>3
  <2>3. CASE \/ i \in 1..Len(a) /\ j \in (Len(a) + 1)..Len(q)
             \/ j \in 1..Len(a) /\ i \in (Len(a) + 1)..Len(q)
    <3>1. q[i].list = q[j].list
      BY <1>5
    <3>2. (q[i].list = e1 /\ q[j].list = e2) \/ (q[i].list = e2 /\ q[j].list = e1)
      BY <1>4, <2>3
    <3> QED  BY ONLY <3>1, <3>2, e1 # e2
  <2>4. i \in 1..Len(a) \/ i \in (Len(a) + 1)..Len(q)
    BY <1>2
  <2>5. j \in 1..Len(a) \/ j \in (Len(a) + 1)..Len(q)
    BY <1>2
  <2> QED  BY <2>1, <2>2, <2>3, <2>4, <2>5
<1>6. ASSUME NEW c \in Range(b)
      PROVE  c \in Range(q)
  <2>1. PICK i \in 1..Len(b) : b[i] = c
    BY Listed
  <2>2. PICK k \in (Len(a) + 1)..Len(q) : k - Len(a) = i /\ k \in 1..Len(q)
    <3>1. PICK m \in Nat, n \in Nat : m = Len(a) /\ n = Len(b) /\ Len(q) = m + n /\ i \in 1..n
      BY <1>2, <2>1
    <3>2. m + i \in (m + 1)..(m + n) /\ (m + i) - m = i /\ m + i \in 1..(m + n)
      BY ONLY <3>1, m \in Nat, n \in Nat
    <3> QED  BY <3>1, <3>2
  <2>3. q[k] = c
    BY <1>2, <2>1, <2>2
  <2> QED  BY <1>2, <2>2, <2>3, Listed
<1>7. IsInjective(q)
  <2>1. DOMAIN q = 1..Len(q)
    BY <1>2
  <2> QED  BY ONLY <2>1, <1>5 DEF IsInjective
<1>8. \A i \in 1..Len(q) : q[i].list \in {e1, e2}
  BY <1>2, <1>4
<1> QED  BY <1>1, <1>2, <1>6, <1>7, <1>8

\* What is left of different calls when the first is made: other calls.
LEMMA OneLess ==
  ASSUME NEW q \in Seq(Call), q # <<>>, IsInjective(q)
  PROVE  /\ IsInjective(Tail(q)) /\ Len(Tail(q)) \in Nat
         /\ \A i \in 1..Len(Tail(q)) :
              Tail(q)[i] # Head(q) /\ i + 1 \in 1..Len(q) /\ Tail(q)[i] = q[i + 1]
PROOF
<1>1. PICK t : t = Tail(q)
  OBVIOUS
<1>2. /\ t \in Seq(Call) /\ Len(t) = Len(q) - 1 /\ Len(q) \in Nat \ {0} /\ Head(q) = q[1]
      /\ \A i \in 1..(Len(q) - 1) : t[i] = q[i + 1]
  BY <1>1, TailOf
<1>3. \A i \in 1..Len(t) : i + 1 \in 1..Len(q) /\ t[i] = q[i + 1]
  BY <1>2
<1>4. \A m, n \in 1..Len(q) : q[m] = q[n] => m = n
  BY DEF IsInjective
<1>5. ASSUME NEW i \in 1..Len(t), NEW j \in 1..Len(t), t[i] = t[j]
      PROVE  i = j
  <2>1. i + 1 = j + 1
    BY <1>3, <1>4, <1>5
  <2> QED  BY <2>1
<1>6. ASSUME NEW i \in 1..Len(t), t[i] = q[1]
      PROVE  FALSE
  <2>1. i + 1 = 1
    BY <1>2, <1>3, <1>4, <1>6
  <2> QED  BY <2>1
<1>7. IsInjective(t)
  BY <1>2, <1>5 DEF IsInjective
<1> QED  BY <1>1, <1>2, <1>3, <1>6, <1>7

-----------------------------------------------------------------------------
(* Types, and requests that leave each other alone                         *)

LEMMA Typed ==
  ASSUME ToolsTypeOK
  PROVE  /\ pc \in [Requests -> Points] /\ name \in Assignments
         /\ attempt \in [Requests -> 0..Attempts]
         /\ response \in [Requests -> {"none", "success", "failed", "timeout"}]
         /\ live \in [Requests -> 0..Attempts] /\ \A r \in Requests : live[r] <= attempt[r]
         /\ changes \in 0..Changes
         /\ handlers \in [Events -> Seq(Handlers)]
         /\ history \in Seq([name : Names, by : Requests]) /\ Len(history) <= HistoryLimit
         /\ publishing \in [Requests -> [name : Names, by : Requests] \cup {[name |-> "none"]}]
         /\ pending \in [Requests -> Seq(Call)]
         /\ seen \in [Call -> [Names \X Requests -> Nat]]
BY DEF ToolsTypeOK, Bus!BusTypeOK, Bus!Event, Bus!NoEvent, Bus!Lists, Bus!Call, Events, Call

\* What a request's part of the invariant reads.
LEMMA SameRequest ==
  ASSUME ToolsTypeOK, NEW u \in Requests, Attempted(u), Heard(u), Called(u), pc'[u] = pc[u], name' = name,
         attempt'[u] = attempt[u], live'[u] = live[u], publishing'[u] = publishing[u],
         pending'[u] = pending[u],
         \A c \in Call : \A event \in Names : seen'[c][<<event, u>>] = seen[c][<<event, u>>]
  PROVE  Attempted(u)' /\ Heard(u)' /\ Called(u)'
PROOF
<1>1. Attempted(u)'
  BY DEF Attempted
<1>2. Heard(u)'
  <2>1. \A h \in Loyal : ToAll(h) \in Call
    BY ToolAssumption DEF ToAll, Call, Events
  <2>2. \A h \in Loyal, event \in Names : Saw(h, event, u)' <=> Saw(h, event, u)
    BY <2>1 DEF Saw, ToAll
  <2> QED  BY <2>2 DEF Heard, Names
<1>3. Called(u)'
  <2>1. PICK q \in Seq(Call) : q = pending[u] /\ q = pending'[u]
    BY Typed
  <2>2. pc[u] \in {"announcing", "answering"} => publishing[u].name \in Names
    <3>1. \A event \in Names : Announcement(u, event).name = event
      BY DEF Announcement
    <3>2. "tool.requested" \in Names /\ "tool.responded" \in Names
      BY DEF Names
    <3>3. pc[u] \in {"announcing", "answering"} =>
            \E event \in Names : publishing[u] = Announcement(u, event)
      BY <3>2 DEF Called
    <3> QED  BY <3>1, <3>3
  <2>3. ASSUME pc[u] \in {"announcing", "answering"}
        PROVE  StillToMake(pending[u], publishing[u].name, u)'
    <3>1. StillToMake(q, publishing[u].name, u)
      BY <2>1, <2>3 DEF Called
    <3>2. \A i \in 1..Len(q) : q[i] \in Call
      OBVIOUS
    <3> QED  BY <2>1, <2>2, <2>3, <3>1, <3>2 DEF StillToMake
  <2> QED  BY <2>3 DEF Called, Names
<1> QED  BY <1>1, <1>2, <1>3

-----------------------------------------------------------------------------
(* The attempts of a tool                                                  *)

Working == {"requested", "attempting", "running", "backoff"}

\* A step of the executor or the tool between the two announcements.
LEMMA ToolMoves ==
  ASSUME IInv, NEW r \in Requests, NEW p \in {"attempting", "running", "backoff", "answered"},
         pc' = pc \/ (pc[r] \in Working /\ pc' = [pc EXCEPT ![r] = p]),
         name' = name, changes' = changes, busVars' = busVars,
         attempt' \in [Requests -> 0..Attempts], live' \in [Requests -> 0..Attempts],
         live'[r] <= attempt'[r], attempt'[r] = attempt[r] \/ pc[r] \in Working,
         response' \in [Requests -> {"none", "success", "failed", "timeout"}],
         \A u \in Requests \ {r} : attempt'[u] = attempt[u] /\ live'[u] = live[u],
         Attempted(r)'
  PROVE  IInv'
PROOF
<1>1. ToolsTypeOK /\ Attempted(r) /\ Heard(r) /\ Called(r) /\ ListsKept
  BY DEF IInv
<1>2. /\ handlers' = handlers /\ history' = history /\ publishing' = publishing
      /\ pending' = pending /\ seen' = seen
  BY DEF busVars
<1>3. ASSUME NEW u \in Requests \ {r}
      PROVE  Attempted(u)' /\ Heard(u)' /\ Called(u)'
  <2>1. pc'[u] = pc[u]
    BY <1>1, Typed
  <2>2. Attempted(u) /\ Heard(u) /\ Called(u)
    BY DEF IInv
  <2> QED  BY <1>1, <1>2, <2>1, <2>2, SameRequest
<1>4. pc'[r] = pc[r] \/ (pc[r] \in Working /\ pc'[r] = p)
  BY <1>1, Typed
<1>5. Heard(r)'
  BY <1>1, <1>2, <1>4 DEF Heard, Saw, Working, Heeded
<1>6. Called(r)'
  BY <1>1, <1>2, <1>4 DEF Called, Working, StillToMake
<1>7. ToolsTypeOK'
  <2>1. pc' \in [Requests -> Points]
    BY <1>1, Typed DEF Points
  <2>2. \A u \in Requests : live'[u] <= attempt'[u]
    BY <1>1, Typed
  <2>3. Bus!BusTypeOK'
    BY <1>1, <1>2 DEF ToolsTypeOK, Bus!BusTypeOK
  <2> QED  BY <1>1, <2>1, <2>2, <2>3 DEF ToolsTypeOK
<1>8. ListsKept'
  BY <1>1, <1>2 DEF ListsKept
<1> QED  BY <1>3, <1>5, <1>6, <1>7, <1>8 DEF IInv

\* An attempt that ends in an error.
LEMMA FailedMoves ==
  ASSUME IInv, NEW r \in Requests, NEW error, pc[r] \in {"attempting", "running"}, Failed(r, error),
         name' = name, attempt' = attempt, changes' = changes, busVars' = busVars,
         live' \in [Requests -> 0..Attempts], live'[r] <= attempt[r],
         \A u \in Requests \ {r} : live'[u] = live[u]
  PROVE  IInv'
PROOF
<1>1. ToolsTypeOK /\ Attempted(r)
  BY DEF IInv
<1>2. /\ attempt[r] \in 0..Attempts /\ pc[r] \in Working
      /\ attempt' \in [Requests -> 0..Attempts]
      /\ pc \in [Requests -> Points]
      /\ response \in [Requests -> {"none", "success", "failed", "timeout"}]
  BY <1>1, Typed DEF Working
<1>3. CASE attempt[r] < Attempts /\ Goto(r, "backoff") /\ response' = response
  <2>1. pc' = [pc EXCEPT ![r] = "backoff"] /\ pc'[r] = "backoff"
    BY <1>2, <1>3 DEF Goto
  <2>2. Attempted(r)'
    BY <1>3, <2>1 DEF Attempted, Attempts
  <2> QED  BY <1>2, <1>3, <2>1, <2>2, ToolMoves
<1>4. CASE Respond(r, IF error = "timeout" THEN "timeout" ELSE "failed")
  <2>1. PICK status \in {"timeout", "failed"} : Respond(r, status)
    BY <1>4
  <2>2. pc' = [pc EXCEPT ![r] = "answered"] /\ pc'[r] = "answered"
    BY <1>2, <2>1 DEF Goto, Respond
  <2>3. response' \in [Requests -> {"none", "success", "failed", "timeout"}]
    BY <1>2, <2>1 DEF Respond
  <2>4. Attempted(r)'
    BY <2>2 DEF Attempted
  <2> QED  BY <1>2, <2>2, <2>3, <2>4, ToolMoves
<1> QED  BY <1>3, <1>4 DEF Failed

LEMMA SucceededMoves ==
  ASSUME IInv, NEW r \in Requests, pc[r] \in {"attempting", "running"}, Succeeded(r),
         name' = name, attempt' = attempt, changes' = changes, busVars' = busVars,
         live' \in [Requests -> 0..Attempts], live'[r] <= attempt[r],
         \A u \in Requests \ {r} : live'[u] = live[u]
  PROVE  IInv'
PROOF
<1>1. CASE Respond(r, "success")
  <2>1. ToolsTypeOK
    BY DEF IInv
  <2>2. /\ pc[r] \in Working /\ attempt' \in [Requests -> 0..Attempts]
        /\ pc \in [Requests -> Points]
        /\ response \in [Requests -> {"none", "success", "failed", "timeout"}]
    BY <2>1, Typed DEF Working
  <2>3. pc' = [pc EXCEPT ![r] = "answered"] /\ pc'[r] = "answered"
    BY <1>1, <2>2 DEF Goto, Respond
  <2>4. response' \in [Requests -> {"none", "success", "failed", "timeout"}]
    BY <1>1, <2>2 DEF Respond
  <2>5. Attempted(r)'
    BY <2>3 DEF Attempted
  <2> QED  BY <2>2, <2>3, <2>4, <2>5, ToolMoves
<1>2. CASE \E error \in {"validation", "unknown"} : Failed(r, error)
  BY <1>2, FailedMoves
<1> QED  BY <1>1, <1>2 DEF Succeeded

LEMMA ToolSteps ==
  ASSUME IInv, NEW r \in Requests,
         \/ NotDispatched(r) \/ Dispatch(r) \/ InputRejected(r) \/ RunsAtOnce(r) \/ RunStarts(r)
         \/ RunEnds(r) \/ TimesOut(r) \/ OrphanEnds(r) \/ Retry(r)
  PROVE  IInv'
PROOF
<1>1. ToolsTypeOK /\ Attempted(r)
  BY DEF IInv
<1>2. /\ pc \in [Requests -> Points] /\ attempt \in [Requests -> 0..Attempts]
      /\ response \in [Requests -> {"none", "success", "failed", "timeout"}]
      /\ live \in [Requests -> 0..Attempts] /\ live[r] <= attempt[r]
      /\ Attempts \in Nat \ {0} /\ attempt[r] \in 0..Attempts /\ live[r] \in 0..Attempts
  BY <1>1, Typed, ToolAssumption DEF Attempts
<1>3. CASE NotDispatched(r)
  <2>1. /\ pc[r] = "requested" /\ pc' = [pc EXCEPT ![r] = "answered"] /\ pc'[r] = "answered"
        /\ response' = [response EXCEPT ![r] = "failed"] /\ attempt' = attempt /\ live' = live
        /\ name' = name /\ changes' = changes /\ busVars' = busVars
    BY <1>2, <1>3 DEF NotDispatched, Respond, Goto
  <2>2. response' \in [Requests -> {"none", "success", "failed", "timeout"}] /\ pc[r] \in Working
    BY <1>2, <2>1 DEF Working
  <2>3. Attempted(r)'
    BY <2>1 DEF Attempted
  <2> QED  BY <1>2, <2>1, <2>2, <2>3, ToolMoves
<1>4. CASE Dispatch(r)
  <2>1. /\ pc[r] = "requested" /\ pc' = [pc EXCEPT ![r] = "attempting"] /\ pc'[r] = "attempting"
        /\ attempt' = [attempt EXCEPT ![r] = 1] /\ attempt'[r] = 1 /\ response' = response
        /\ live' = live /\ name' = name /\ changes' = changes /\ busVars' = busVars
    BY <1>2, <1>4 DEF Dispatch, Goto
  <2>2. attempt' \in [Requests -> 0..Attempts] /\ pc[r] \in Working
    BY <1>2, <2>1 DEF Working
  <2>3. live[r] = 0
    BY <1>1, <1>2, <2>1 DEF Attempted
  <2>4. Attempted(r)'
    BY <2>1, <2>3 DEF Attempted
  <2>5. /\ \A u \in Requests \ {r} : attempt'[u] = attempt[u] /\ live'[u] = live[u]
        /\ live' \in [Requests -> 0..Attempts] /\ live'[r] <= attempt'[r]
        /\ response' \in [Requests -> {"none", "success", "failed", "timeout"}]
    BY <1>2, <2>1, <2>3
  <2> QED  BY <2>1, <2>2, <2>4, <2>5, ToolMoves
<1>5. CASE InputRejected(r)
  BY <1>2, <1>5, FailedMoves DEF InputRejected
<1>6. CASE RunsAtOnce(r)
  <2>1. CASE Succeeded(r)
    BY <1>2, <1>6, <2>1, SucceededMoves DEF RunsAtOnce
  <2>2. CASE \E error \in Errors(name[r]) : Failed(r, error)
    BY <1>2, <1>6, <2>2, FailedMoves DEF RunsAtOnce
  <2> QED  BY <1>6, <2>1, <2>2 DEF RunsAtOnce
<1>7. CASE RunStarts(r)
  <2>1. PICK more \in {live[r], live[r] + 1} :
          /\ RunsProcess(name[r]) => more = live[r] + 1
          /\ live' = [live EXCEPT ![r] = more]
    BY <1>7 DEF RunStarts
  <2>2. /\ pc[r] = "attempting" /\ pc' = [pc EXCEPT ![r] = "running"] /\ pc'[r] = "running"
        /\ attempt' = attempt /\ response' = response
        /\ name' = name /\ changes' = changes /\ busVars' = busVars
    BY <1>2, <1>7 DEF RunStarts, Goto
  <2>3. live[r] < attempt[r] /\ pc[r] \in Working
    BY <1>1, <2>2 DEF Attempted, Working
  <2>4. more \in 0..Attempts /\ more <= attempt[r]
    BY <1>2, <2>1, <2>3
  <2>5. live' \in [Requests -> 0..Attempts] /\ live'[r] = more /\ \A u \in Requests \ {r} : live'[u] = live[u]
    BY <1>2, <2>1, <2>4
  <2>6. Attempted(r)'
    BY <1>2, <2>1, <2>2, <2>5 DEF Attempted
  <2> QED  BY <1>2, <2>2, <2>3, <2>4, <2>5, <2>6, ToolMoves
<1>8. CASE RunEnds(r)
  <2>1. PICK less \in {live[r], live[r] - 1} :
          /\ ~RunsProcess(name[r]) => less = live[r]
          /\ live' = [live EXCEPT ![r] = less]
    BY <1>8 DEF RunEnds
  <2>2. /\ pc[r] = "running" /\ attempt' = attempt /\ name' = name /\ changes' = changes
        /\ busVars' = busVars /\ (Succeeded(r) \/ \E error \in Errors(name[r]) : Failed(r, error))
    BY <1>8 DEF RunEnds
  <2>3. less \in 0..Attempts /\ less <= attempt[r]
    BY <1>1, <1>2, <2>1, <2>2 DEF Attempted
  <2>4. live' \in [Requests -> 0..Attempts] /\ live'[r] <= attempt[r] /\ \A u \in Requests \ {r} : live'[u] = live[u]
    BY <1>2, <2>1, <2>3
  <2>5. CASE Succeeded(r)
    BY <2>2, <2>4, <2>5, SucceededMoves
  <2>6. CASE \E error \in Errors(name[r]) : Failed(r, error)
    BY <2>2, <2>4, <2>6, FailedMoves
  <2> QED  BY <2>2, <2>5, <2>6
<1>9. CASE TimesOut(r)
  BY <1>2, <1>9, FailedMoves DEF TimesOut
<1>10. CASE OrphanEnds(r)
  <2>1. /\ live' = [live EXCEPT ![r] = live[r] - 1] /\ pc' = pc /\ name' = name /\ attempt' = attempt
        /\ response' = response /\ changes' = changes /\ busVars' = busVars
        /\ live[r] > 0 /\ (pc[r] = "running" => live[r] > 1)
    BY <1>2, <1>10 DEF OrphanEnds
  <2>2. /\ live'[r] = live[r] - 1 /\ live' \in [Requests -> 0..Attempts]
        /\ \A u \in Requests \ {r} : live'[u] = live[u]
    BY <1>2, <2>1
  <2>3. Attempted(r)'
    BY <1>1, <1>2, <2>1, <2>2 DEF Attempted
  <2>4. live'[r] <= attempt'[r]
    BY <1>2, <2>1, <2>2
  <2> QED  BY <1>2, <2>1, <2>2, <2>3, <2>4, ToolMoves
<1>11. CASE Retry(r)
  <2>1. /\ pc[r] = "backoff" /\ pc' = [pc EXCEPT ![r] = "attempting"] /\ pc'[r] = "attempting"
        /\ attempt' = [attempt EXCEPT ![r] = attempt[r] + 1] /\ attempt'[r] = attempt[r] + 1
        /\ response' = response /\ live' = live /\ name' = name /\ changes' = changes
        /\ busVars' = busVars
    BY <1>2, <1>11 DEF Retry, Goto
  <2>2. attempt[r] < Attempts /\ pc[r] \in Working
    BY <1>1, <2>1 DEF Attempted, Working
  <2>3. attempt' \in [Requests -> 0..Attempts] /\ \A u \in Requests \ {r} : attempt'[u] = attempt[u]
    BY <1>2, <2>1, <2>2
  <2>4. Attempted(r)'
    BY <1>2, <2>1 DEF Attempted
  <2>5. live'[r] <= attempt'[r]
    BY <1>2, <2>1
  <2> QED  BY <1>2, <2>1, <2>2, <2>3, <2>4, <2>5, ToolMoves
<1> QED  BY <1>3, <1>4, <1>5, <1>6, <1>7, <1>8, <1>9, <1>10, <1>11


-----------------------------------------------------------------------------
(* The event bus                                                           *)

\* The history stays within its limit when an event is appended to it.
LEMMA HistoryFits ==
  ASSUME NEW S, NEW list \in Seq(S), NEW e \in S, Len(list) <= HistoryLimit
  PROVE  /\ Bus!Retained(Append(list, e)) \in Seq(S)
         /\ Len(Bus!Retained(Append(list, e))) <= HistoryLimit
PROOF
<1>1. PICK longer \in Seq(S) :
        longer = Append(list, e) /\ Len(longer) = Len(list) + 1 /\ Len(list) \in Nat
  BY Longer
<1>2. CASE Len(longer) <= HistoryLimit
  BY <1>1, <1>2 DEF Bus!Retained
<1>3. CASE ~(Len(longer) <= HistoryLimit)
  <2>1. longer # <<>>
    BY <1>1
  <2>2. Tail(longer) \in Seq(S) /\ Len(Tail(longer)) = Len(longer) - 1
    BY ONLY <2>1, TailOf, longer \in Seq(S)
  <2>3. Bus!Retained(longer) = Tail(longer)
    BY <1>3 DEF Bus!Retained
  <2> QED  BY <1>1, <2>2, <2>3
<1> QED  BY <1>2, <1>3

\* publish copies the lists; nobody has been called with the event before.
LEMMA PublishMoves ==
  ASSUME IInv, NEW r \in Requests, NEW event \in Names, NEW point, Bus!Publish(r, event),
         \/ pc[r] = "idle" /\ event = "tool.requested" /\ point = "announcing"
         \/ pc[r] = "answered" /\ event = "tool.responded" /\ point = "answering",
         Goto(r, point), UNCHANGED <<toolVars, changes>>
  PROVE  IInv'
PROOF
<1>1. ToolsTypeOK /\ ListsKept /\ Attempted(r) /\ Heard(r) /\ Called(r)
  BY DEF IInv
<1>2. /\ pc \in [Requests -> Points] /\ handlers \in [Events -> Seq(Handlers)]
      /\ history \in Seq([name : Names, by : Requests]) /\ Len(history) <= HistoryLimit
      /\ publishing \in [Requests -> [name : Names, by : Requests] \cup {[name |-> "none"]}]
      /\ pending \in [Requests -> Seq(Call)] /\ seen \in [Call -> [Names \X Requests -> Nat]]
  BY <1>1, Typed
<1>3. PICK a \in Seq(Call), b \in Seq(Call) :
        /\ a = Bus!Calls(event) /\ b = Bus!Calls("*") /\ IsInjective(a) /\ IsInjective(b)
        /\ \A i \in 1..Len(a) : a[i].list = event
        /\ \A i \in 1..Len(b) : b[i].list = "*"
        /\ \A h \in Range(handlers["*"]) : ToAll(h) \in Range(b)
  <2>1. ASSUME NEW list \in Events
        PROVE  /\ Bus!Calls(list) \in Seq(Call) /\ IsInjective(Bus!Calls(list))
               /\ \A i \in 1..Len(Bus!Calls(list)) : Bus!Calls(list)[i].list = list
               /\ \A h \in Range(handlers[list]) :
                    [handler |-> h, list |-> list] \in Range(Bus!Calls(list))
    <3>1. handlers[list] \in Seq(Handlers) /\ IsInjective(handlers[list])
      BY <1>1, <1>2 DEF ListsKept
    <3> QED  BY <3>1, CallsOf
  <2>2. event \in Events /\ "*" \in Events
    BY DEF Events
  <2> QED  BY <2>1, <2>2 DEF ToAll
<1>4. PICK e : e = Announcement(r, event)
  OBVIOUS
<1>5. e \in [name : Names, by : Requests] /\ e.name = event
  BY <1>4 DEF Announcement
<1>6. /\ history' = Bus!Retained(Append(history, e))
      /\ publishing' = [publishing EXCEPT ![r] = e]
      /\ pending' = [pending EXCEPT ![r] = a \o b]
      /\ handlers' = handlers /\ seen' = seen
  BY <1>3, <1>4 DEF Bus!Publish, Announcement
<1>7. /\ pc' = [pc EXCEPT ![r] = point] /\ name' = name /\ attempt' = attempt
      /\ response' = response /\ live' = live /\ changes' = changes
  BY DEF Goto, toolVars
<1>8. \A h \in Loyal : ToAll(h) \in Range(b)
  BY <1>1, <1>3 DEF ListsKept
<1>9. /\ a \o b \in Seq(Call) /\ Range(b) \subseteq Range(a \o b) /\ IsInjective(a \o b)
      /\ \A i \in 1..Len(a \o b) : (a \o b)[i].list \in {event, "*"}
  <2>1. event # "*" /\ event \in Events /\ "*" \in Events
    BY DEF Names, Events
  <2> QED  BY <1>3, <2>1, TwoParts
<1>10. PICK q \in Seq(Call) : q = a \o b
  BY <1>9
<1>11. pc'[r] = point /\ publishing'[r] = e /\ pending'[r] = q
  BY <1>2, <1>6, <1>7, <1>10
<1>12. \A c \in Call : seen[c][<<event, r>>] = 0
  BY <1>1 DEF Called
<1>13. StillToMake(q, event, r)'
  <2>1. \A i \in 1..Len(q) : q[i] \in Call
    OBVIOUS
  <2> QED  BY <1>6, <1>9, <1>10, <1>12, <2>1 DEF StillToMake
<1>14. Called(r)'
  <2>1. point \in {"announcing", "answering"}
    OBVIOUS
  <2>2. StillToMake(pending[r], publishing[r].name, r)'
    BY <1>5, <1>11, <1>13 DEF StillToMake
  <2>3. \A c \in Call : \A n \in Names : seen'[c][<<n, r>>] <= Due(c, n)
    BY <1>1, <1>6 DEF Called
  <2>4. pc'[r] \notin {"answering", "returned", "raised"} => \A c \in Call : seen'[c][<<"tool.responded", r>>] = 0
    BY <1>1, <1>6, <1>11 DEF Called
  <2>5. /\ pc'[r] = "announcing" => event = "tool.requested"
        /\ pc'[r] = "answering" => event = "tool.responded"
        /\ pc'[r] # "idle"
    BY <1>11
  <2> QED  BY <1>4, <1>11, <2>1, <2>2, <2>3, <2>4, <2>5 DEF Called, Announcement
<1>15. Heard(r)'
  <2>1. \A h \in Loyal : ToAll(h) \in Range(pending'[r])
    BY <1>8, <1>9, <1>10, <1>11
  <2>2. pc[r] = "answered" => \A h \in Loyal : Saw(h, "tool.requested", r)
    BY <1>1 DEF Heard, Heeded
  <2>3. attempt[r] > 0 => \A h \in Loyal : Saw(h, "tool.requested", r)
    BY <1>1 DEF Heard
  <2>4. point = "announcing" \/ (point = "answering" /\ pc[r] = "answered")
    OBVIOUS
  <2> QED  BY <1>6, <1>7, <1>11, <2>1, <2>2, <2>3, <2>4 DEF Heard, Saw, Heeded
<1>16. Attempted(r)'
  <2>1. pc[r] = "idle" => attempt[r] = 0
    BY <1>1 DEF Attempted
  <2> QED  BY <1>7, <1>11, <2>1 DEF Attempted
<1>17. ASSUME NEW u \in Requests \ {r}
       PROVE  Attempted(u)' /\ Heard(u)' /\ Called(u)'
  <2>1. Attempted(u) /\ Heard(u) /\ Called(u)
    BY DEF IInv
  <2>2. pc'[u] = pc[u] /\ publishing'[u] = publishing[u] /\ pending'[u] = pending[u]
    BY <1>2, <1>6, <1>7
  <2> QED  BY <1>1, <1>6, <1>7, <2>1, <2>2, SameRequest
<1>18. ToolsTypeOK'
  <2>1. pc' \in [Requests -> Points]
    BY <1>2, <1>7 DEF Points
  <2>2. history' \in Seq([name : Names, by : Requests]) /\ Len(history') <= HistoryLimit
    <3>1. PICK all : all = [name : Names, by : Requests]
      OBVIOUS
    <3>2. history \in Seq(all) /\ e \in all
      BY <1>2, <1>5, <3>1
    <3>3. history' \in Seq(all) /\ Len(history') <= HistoryLimit
      BY <1>2, <1>6, <3>2, HistoryFits
    <3> QED  BY <3>1, <3>3
  <2>3. publishing' \in [Requests -> [name : Names, by : Requests] \cup {[name |-> "none"]}]
    <3>1. PICK all : all = [name : Names, by : Requests] \cup {[name |-> "none"]} /\ e \in all
      BY <1>5
    <3>2. publishing \in [Requests -> all]
      BY <1>2, <3>1
    <3>3. publishing' \in [Requests -> all]
      BY <1>6, <3>1, <3>2
    <3> QED  BY <3>1, <3>3
  <2>4. pending' = [pending EXCEPT ![r] = q]
    BY <1>6, <1>10
  <2>5. pending' \in [Requests -> Seq(Call)]
    BY <1>2, <2>4
  <2>6. Bus!BusTypeOK'
    BY <1>2, <1>6, <2>2, <2>3, <2>5 DEF Bus!BusTypeOK, Bus!Event, Bus!NoEvent, Bus!Lists, Bus!Call, Events, Call
  <2> QED  BY <1>1, <1>7, <2>1, <2>6 DEF ToolsTypeOK
<1>19. ListsKept'
  BY <1>1, <1>6 DEF ListsKept
<1> QED  BY <1>14, <1>15, <1>16, <1>17, <1>18, <1>19 DEF IInv

\* A call of a handler counts for this request and this event only.
LEMMA OneCall ==
  ASSUME NEW r \in Requests, NEW event \in Names, NEW c \in Call,
         seen \in [Call -> [Names \X Requests -> Nat]],
         seen' = [seen EXCEPT ![c][<<event, r>>] = @ + 1]
  PROVE  /\ seen' \in [Call -> [Names \X Requests -> Nat]]
         /\ seen'[c][<<event, r>>] = seen[c][<<event, r>>] + 1
         /\ \A g \in Call, n \in Names, u \in Requests :
              <<g, n, u>> # <<c, event, r>> => seen'[g][<<n, u>>] = seen[g][<<n, u>>]
PROOF
<1>1. PICK d, x : d = Names \X Requests /\ x = <<event, r>>
  OBVIOUS
<1>2. x \in d /\ seen[c] \in [d -> Nat] /\ seen \in [Call -> [d -> Nat]]
  BY <1>1
<1>3. PICK f : f = [seen[c] EXCEPT ![x] = seen[c][x] + 1]
  OBVIOUS
<1>4. f \in [d -> Nat] /\ f[x] = seen[c][x] + 1 /\ \A y \in d : y # x => f[y] = seen[c][y]
  BY <1>2, <1>3
<1>5. seen' = [seen EXCEPT ![c] = f]
  BY <1>1, <1>3
<1>6. seen' \in [Call -> [d -> Nat]] /\ seen'[c] = f /\ \A g \in Call : g # c => seen'[g] = seen[g]
  BY <1>2, <1>4, <1>5
<1>7. ASSUME NEW g \in Call, NEW n \in Names, NEW u \in Requests,
             <<g, n, u>> # <<c, event, r>>
      PROVE  seen'[g][<<n, u>>] = seen[g][<<n, u>>]
  <2>1. CASE g # c
    BY <1>6, <2>1
  <2>2. CASE g = c
    <3>1. <<n, u>> \in d /\ <<n, u>> # x
      BY <1>1, <1>7, <2>2
    <3> QED  BY <1>4, <1>6, <2>2, <3>1
  <2> QED  BY <2>1, <2>2
<1> QED  BY <1>1, <1>4, <1>6, <1>7

LEMMA DeliverMoves ==
  ASSUME IInv, NEW r \in Requests, Announcing(r)
  PROVE  IInv'
PROOF
<1>1. ToolsTypeOK /\ ListsKept /\ Attempted(r) /\ Heard(r) /\ Called(r)
  BY DEF IInv
<1>2. /\ pc \in [Requests -> Points] /\ handlers \in [Events -> Seq(Handlers)]
      /\ publishing \in [Requests -> [name : Names, by : Requests] \cup {[name |-> "none"]}]
      /\ pending \in [Requests -> Seq(Call)] /\ seen \in [Call -> [Names \X Requests -> Nat]]
  BY <1>1, Typed
<1>3. PICK event \in Names :
        /\ publishing[r] = Announcement(r, event)
        /\ pc[r] = "announcing" => event = "tool.requested"
        /\ pc[r] = "answering" => event = "tool.responded"
        /\ pc[r] \in {"announcing", "answering"}
  BY <1>1 DEF Announcing, Called, Names
<1>4. publishing[r].name = event
  BY <1>3 DEF Announcement
<1>5. PICK q \in Seq(Call) : q = pending[r] /\ q # <<>>
  BY <1>2 DEF Announcing, Bus!Deliver, Bus!DeliveryRaises
<1>6. StillToMake(q, event, r)
  BY <1>1, <1>3, <1>4, <1>5 DEF Called
<1>7. PICK c \in Call : c = Head(q) /\ c = q[1] /\ c.list \in {event, "*"} /\ seen[c][<<event, r>>] = 0
  <2>1. 1 \in 1..Len(q) /\ Head(q) = q[1] /\ Head(q) \in Call
    BY <1>5, TailOf
  <2> QED  BY <1>6, <2>1 DEF StillToMake
<1>8. /\ seen' = [seen EXCEPT ![c][<<event, r>>] = @ + 1]
      /\ handlers' = handlers /\ history' = history /\ name' = name /\ attempt' = attempt
      /\ response' = response /\ live' = live /\ changes' = changes
      /\ \/ /\ pending' = [pending EXCEPT ![r] = Tail(q)] /\ publishing' = publishing /\ pc' = pc
         \/ /\ pending' = [pending EXCEPT ![r] = <<>>]
            /\ publishing' = [publishing EXCEPT ![r] = [name |-> "none"]]
            /\ pc' = [pc EXCEPT ![r] = "raised"]
  BY <1>4, <1>5, <1>7 DEF Announcing, Bus!Deliver, Bus!DeliveryRaises, Goto, toolVars, Bus!NoEvent
<1>9. /\ seen' \in [Call -> [Names \X Requests -> Nat]]
      /\ seen'[c][<<event, r>>] = seen[c][<<event, r>>] + 1
      /\ \A g \in Call, m \in Names, u \in Requests :
           <<g, m, u>> # <<c, event, r>> => seen'[g][<<m, u>>] = seen[g][<<m, u>>]
  BY <1>2, <1>8, OneCall
<1>10. \A g \in Handlers, m \in Names, u \in Requests : Saw(g, m, u) => Saw(g, m, u)'
  <2>1. ASSUME NEW g \in Call, NEW m \in Names, NEW u \in Requests, seen[g][<<m, u>>] > 0
        PROVE  seen'[g][<<m, u>>] > 0
    <3>1. seen[g][<<m, u>>] \in Nat
      BY <1>2
    <3>2. CASE g = c /\ m = event /\ u = r
      BY <1>9, <2>1, <3>1, <3>2
    <3>3. CASE ~(g = c /\ m = event /\ u = r)
      BY <1>9, <2>1, <3>3
    <3> QED  BY <3>2, <3>3
  <2>2. \A g \in Handlers : ToAll(g) \in Call
    BY DEF ToAll, Call, Events
  <2> QED  BY <2>1, <2>2 DEF Saw, ToAll
<1>11. \A g \in Handlers : c = ToAll(g) => Saw(g, event, r)'
  BY <1>7, <1>9 DEF Saw, ToAll
<1>12. /\ "tool.requested" \in Names /\ "tool.responded" \in Names /\ Loyal \subseteq Handlers
       /\ "tool.requested" # "tool.responded"
  BY ToolAssumption DEF Names
<1>13. \A g \in Call : seen'[g][<<event, r>>] <= Due(g, event)
  <2>1. Due(c, event) = 1 /\ seen'[c][<<event, r>>] = 1
    BY <1>7, <1>9 DEF Due
  <2>2. \A g \in Call : g # c => seen'[g][<<event, r>>] <= Due(g, event)
    BY <1>1, <1>9 DEF Called
  <2> QED  BY <2>1, <2>2
<1>14. \A m \in Names \ {event} : \A g \in Call : seen'[g][<<m, r>>] = seen[g][<<m, r>>]
  BY <1>9
<1>15. /\ \A g \in Call : \A m \in Names : seen'[g][<<m, r>>] <= Due(g, m)
       /\ pc[r] = "announcing" => \A g \in Call : seen'[g][<<"tool.responded", r>>] = 0
  <2>1. \A g \in Call : \A m \in Names : seen[g][<<m, r>>] <= Due(g, m)
    BY <1>1 DEF Called
  <2>2. pc[r] = "announcing" => \A g \in Call : seen[g][<<"tool.responded", r>>] = 0
    BY <1>1 DEF Called
  <2> QED  BY <1>3, <1>12, <1>13, <1>14, <2>1, <2>2
<1>16. ASSUME NEW u \in Requests \ {r}
       PROVE  Attempted(u)' /\ Heard(u)' /\ Called(u)'
  <2>1. Attempted(u) /\ Heard(u) /\ Called(u)
    BY DEF IInv
  <2>2. pc'[u] = pc[u] /\ publishing'[u] = publishing[u] /\ pending'[u] = pending[u]
    BY <1>2, <1>8
  <2>3. \A g \in Call : \A m \in Names : seen'[g][<<m, u>>] = seen[g][<<m, u>>]
    BY <1>9
  <2> QED  BY <1>1, <1>8, <2>1, <2>2, <2>3, SameRequest
<1>17. ListsKept'
  BY <1>1, <1>8 DEF ListsKept
<1>18. CASE /\ pending' = [pending EXCEPT ![r] = Tail(q)] /\ publishing' = publishing /\ pc' = pc
  <2>1. PICK t \in Seq(Call) :
          /\ t = Tail(q) /\ pending'[r] = t /\ Len(t) = Len(q) - 1
          /\ \A i \in 1..(Len(q) - 1) : t[i] = q[i + 1]
    <3>1. /\ Tail(q) \in Seq(Call) /\ Len(Tail(q)) = Len(q) - 1
          /\ \A i \in 1..(Len(q) - 1) : Tail(q)[i] = q[i + 1]
      BY <1>5, TailOf
    <3>2. pending'[r] = Tail(q)
      BY <1>2, <1>18
    <3> QED  BY <3>1, <3>2
  <2>2. /\ IsInjective(t)
        /\ \A i \in 1..Len(t) : t[i] # c /\ i + 1 \in 1..Len(q) /\ t[i] = q[i + 1]
    <3>1. IsInjective(q)
      BY <1>6 DEF StillToMake
    <3> QED  BY <1>5, <1>7, <2>1, <3>1, OneLess
  <2>3. StillToMake(t, event, r)'
    <3>1. ASSUME NEW i \in 1..Len(t)
          PROVE  t[i].list \in {event, "*"} /\ seen'[t[i]][<<event, r>>] = 0
      <4>1. t[i].list \in {event, "*"} /\ seen[t[i]][<<event, r>>] = 0
        BY <1>6, <2>2 DEF StillToMake
      <4>2. t[i] \in Call /\ t[i] # c
        BY <2>2
      <4> QED  BY <1>9, <4>1, <4>2
    <3> QED  BY <2>2, <3>1 DEF StillToMake
  <2>4. Called(r)'
    <3>1. StillToMake(pending[r], publishing[r].name, r)'
      BY <1>4, <1>18, <2>1, <2>3 DEF StillToMake
    <3>2. pc'[r] = pc[r] /\ publishing'[r] = publishing[r]
      BY <1>18
    <3> QED  BY <1>3, <1>15, <3>1, <3>2 DEF Called
  <2>5. Heard(r)'
    <3>1. ASSUME NEW g \in Loyal, Saw(g, event, r) \/ ToAll(g) \in Range(q)
          PROVE  Saw(g, event, r)' \/ ToAll(g) \in Range(t)
      <4>1. CASE Saw(g, event, r)
        BY <1>10, <1>12, <4>1
      <4>2. CASE ToAll(g) \in Range(q)
        <5>1. PICK i \in 1..Len(q) : q[i] = ToAll(g)
          BY <4>2, Listed
        <5>2. CASE i = 1
          BY <1>7, <1>11, <1>12, <5>1, <5>2
        <5>3. CASE i > 1
          <6>1. i - 1 \in 1..Len(t) /\ t[i - 1] = ToAll(g)
            BY <2>1, <5>1, <5>3
          <6> QED  BY <6>1, Listed
        <5> QED  BY <5>1, <5>2, <5>3
      <4> QED  BY <3>1, <4>1, <4>2
    <3>2. pc'[r] = pc[r] /\ pc[r] # "returned" /\ attempt'[r] = attempt[r]
      BY <1>3, <1>8, <1>18
    <3> QED  BY <1>1, <1>3, <1>5, <1>10, <1>12, <2>1, <3>1, <3>2 DEF Heard
  <2>6. Attempted(r)'
    BY <1>1, <1>8, <1>18 DEF Attempted
  <2>7. ToolsTypeOK'
    <3>1. pending' \in [Requests -> Seq(Call)]
      BY <1>2, <1>18, <2>1
    <3>2. Bus!BusTypeOK'
      BY <1>1, <1>8, <1>9, <1>18, <3>1 DEF ToolsTypeOK, Bus!BusTypeOK, Bus!Lists, Bus!Call, Events, Call
    <3> QED  BY <1>1, <1>8, <1>18, <3>2 DEF ToolsTypeOK
  <2> QED  BY <1>16, <1>17, <2>4, <2>5, <2>6, <2>7 DEF IInv
<1>19. CASE /\ pending' = [pending EXCEPT ![r] = <<>>]
            /\ publishing' = [publishing EXCEPT ![r] = [name |-> "none"]]
            /\ pc' = [pc EXCEPT ![r] = "raised"]
  <2>1. pc'[r] = "raised"
    BY <1>2, <1>19
  <2>2. Called(r)'
    BY <1>15, <2>1 DEF Called
  <2>3. Heard(r)'
    BY <1>1, <1>8, <1>10, <1>12, <2>1 DEF Heard, Heeded
  <2>4. Attempted(r)'
    BY <2>1 DEF Attempted
  <2>5. ToolsTypeOK'
    <3>1. /\ pending' \in [Requests -> Seq(Call)] /\ pc' \in [Requests -> Points]
          /\ publishing' \in [Requests -> [name : Names, by : Requests] \cup {[name |-> "none"]}]
      BY <1>2, <1>19 DEF Points
    <3>2. Bus!BusTypeOK'
      BY <1>1, <1>8, <1>9, <3>1 DEF ToolsTypeOK, Bus!BusTypeOK, Bus!Event, Bus!NoEvent, Bus!Lists, Bus!Call, Events, Call
    <3> QED  BY <1>1, <1>8, <3>1, <3>2 DEF ToolsTypeOK
  <2> QED  BY <1>16, <1>17, <2>2, <2>3, <2>4, <2>5 DEF IInv
<1> QED  BY <1>8, <1>18, <1>19


LEMMA AnnouncedStep ==
  ASSUME IInv, NEW r \in Requests, Announced(r)
  PROVE  IInv'
PROOF
<1>1. ToolsTypeOK /\ ListsKept /\ Attempted(r) /\ Heard(r) /\ Called(r)
  BY DEF IInv
<1>2. /\ pc \in [Requests -> Points] /\ pending \in [Requests -> Seq(Call)]
      /\ publishing \in [Requests -> [name : Names, by : Requests] \cup {[name |-> "none"]}]
  BY <1>1, Typed
<1>3. PICK point \in {"requested", "returned"} :
        /\ \/ pc[r] = "announcing" /\ point = "requested"
           \/ pc[r] = "answering" /\ point = "returned"
        /\ pc' = [pc EXCEPT ![r] = point]
  BY DEF Announced, Goto
<1>4. /\ pending[r] = <<>> /\ publishing' = [publishing EXCEPT ![r] = [name |-> "none"]]
      /\ handlers' = handlers /\ history' = history /\ pending' = pending /\ seen' = seen
      /\ name' = name /\ attempt' = attempt /\ response' = response /\ live' = live
      /\ changes' = changes
  BY DEF Announced, Bus!Published, Bus!NoEvent, toolVars
<1>5. pc'[r] = point
  BY <1>2, <1>3
<1>6. ASSUME NEW u \in Requests \ {r}
      PROVE  Attempted(u)' /\ Heard(u)' /\ Called(u)'
  <2>1. Attempted(u) /\ Heard(u) /\ Called(u)
    BY DEF IInv
  <2>2. pc'[u] = pc[u] /\ publishing'[u] = publishing[u]
    BY <1>2, <1>3, <1>4
  <2> QED  BY <1>1, <1>4, <2>1, <2>2, SameRequest
<1>7. Range(pending[r]) = {}
  BY <1>4 DEF Range
<1>8. Heard(r)'
  BY <1>1, <1>3, <1>4, <1>5, <1>7 DEF Heard, Saw, Heeded
<1>9. Called(r)'
  BY <1>1, <1>3, <1>4, <1>5 DEF Called
<1>10. Attempted(r)'
  BY <1>1, <1>3, <1>4, <1>5 DEF Attempted
<1>11. ToolsTypeOK'
  <2>1. pc' \in [Requests -> Points]
    BY <1>2, <1>3 DEF Points
  <2>2. publishing' \in [Requests -> [name : Names, by : Requests] \cup {[name |-> "none"]}]
    BY <1>2, <1>4
  <2>3. Bus!BusTypeOK'
    BY <1>1, <1>4, <2>2 DEF ToolsTypeOK, Bus!BusTypeOK, Bus!Event, Bus!NoEvent
  <2> QED  BY <1>1, <1>4, <2>1, <2>3 DEF ToolsTypeOK
<1>12. ListsKept'
  BY <1>1, <1>4 DEF ListsKept
<1> QED  BY <1>6, <1>8, <1>9, <1>10, <1>11, <1>12 DEF IInv

\* Lists change while the bus delivers; the copies of publish do not.
LEMMA SubscriptionStep ==
  ASSUME IInv, ChangeSubscription
  PROVE  IInv'
PROOF
<1>1. ToolsTypeOK /\ ListsKept
  BY DEF IInv
<1>2. handlers \in [Events -> Seq(Handlers)] /\ changes \in 0..Changes
  BY <1>1, Typed
<1>3. PICK event \in Events, h \in Handlers \ Loyal :
        Bus!Subscribe(event, h) \/ Bus!Unsubscribe(event, h)
  BY DEF ChangeSubscription, Events
<1>4. /\ history' = history /\ publishing' = publishing /\ pending' = pending /\ seen' = seen
      /\ pc' = pc /\ name' = name /\ attempt' = attempt /\ response' = response /\ live' = live
      /\ changes' = changes + 1 /\ changes < Changes
  BY <1>3 DEF ChangeSubscription, Bus!Subscribe, Bus!Unsubscribe, toolVars
<1>5. PICK list \in Seq(Handlers) : list = handlers[event] /\ IsInjective(list)
  BY <1>1, <1>2 DEF ListsKept
<1>6. \E new \in Seq(Handlers) :
        /\ IsInjective(new) /\ handlers' = [handlers EXCEPT ![event] = new]
        /\ \A g \in Range(list) : g # h => g \in Range(new)
  <2>1. CASE Bus!Subscribe(event, h) /\ Bus!Contains(list, h)
    <3>1. handlers' = [handlers EXCEPT ![event] = list]
      BY <1>5, <2>1 DEF Bus!Subscribe
    <3> QED  BY <1>5, <3>1
  <2>2. CASE Bus!Subscribe(event, h) /\ ~Bus!Contains(list, h)
    <3>1. handlers' = [handlers EXCEPT ![event] = Append(list, h)]
      BY <1>5, <2>2 DEF Bus!Subscribe
    <3>2. \A i \in 1..Len(list) : list[i] # h
      BY <2>2 DEF Bus!Contains
    <3> QED  BY <1>5, <3>1, <3>2, Subscribing
  <2>3. CASE Bus!Unsubscribe(event, h) /\ handlers' = handlers
    <3>1. handlers' = [handlers EXCEPT ![event] = list]
      BY <1>2, <1>5, <2>3
    <3> QED  BY <1>5, <3>1
  <2>4. CASE Bus!Unsubscribe(event, h) /\ handlers' # handlers
    <3>1. PICK k \in DOMAIN list : /\ list[k] = h
                                   /\ handlers' = [handlers EXCEPT ![event] = Bus!RemoveAt(list, k)]
      BY <1>5, <2>4 DEF Bus!Unsubscribe
    <3>2. k \in 1..Len(list)
      OBVIOUS
    <3> QED  BY <1>5, <3>1, <3>2, Unsubscribing
  <2> QED  BY <1>3, <2>1, <2>2, <2>3, <2>4
<1>7. PICK new \in Seq(Handlers) :
        /\ IsInjective(new) /\ handlers' = [handlers EXCEPT ![event] = new]
        /\ \A g \in Range(list) : g # h => g \in Range(new)
  BY <1>6
<1>8. /\ handlers' \in [Events -> Seq(Handlers)] /\ handlers'[event] = new
      /\ \A e \in Events \ {event} : handlers'[e] = handlers[e]
  BY <1>2, <1>7
<1>9. ListsKept'
  <2>1. \A e \in Events : IsInjective(handlers'[e])
    BY <1>1, <1>7, <1>8 DEF ListsKept
  <2>2. ASSUME NEW g \in Loyal
        PROVE  g \in Range(handlers'["*"])
    <3>1. g \in Range(handlers["*"]) /\ g # h
      BY <1>1, <1>3 DEF ListsKept
    <3>2. CASE event = "*"
      BY <1>5, <1>7, <1>8, <3>1, <3>2
    <3>3. CASE event # "*"
      BY <1>8, <3>1, <3>3 DEF Events
    <3> QED  BY <3>2, <3>3
  <2> QED  BY <2>1, <2>2 DEF ListsKept
<1>10. ASSUME NEW u \in Requests
       PROVE  Attempted(u)' /\ Heard(u)' /\ Called(u)'
  <2>1. Attempted(u) /\ Heard(u) /\ Called(u)
    BY DEF IInv
  <2> QED  BY <1>1, <1>4, <2>1, SameRequest
<1>11. ToolsTypeOK'
  <2>1. Bus!BusTypeOK'
    BY <1>1, <1>4, <1>8 DEF ToolsTypeOK, Bus!BusTypeOK, Bus!Lists, Events
  <2>2. changes' \in 0..Changes
    BY <1>2, <1>4, ToolAssumption
  <2> QED  BY <1>1, <1>4, <2>1, <2>2 DEF ToolsTypeOK
<1> QED  BY <1>9, <1>10, <1>11 DEF IInv

-----------------------------------------------------------------------------
(* The theorems                                                            *)

LEMMA InitInv == Init => IInv
PROOF
<1> SUFFICES ASSUME Init  PROVE IInv
  OBVIOUS
<1>1. /\ pc = [r \in Requests |-> "idle"] /\ name \in Assignments
      /\ attempt = [r \in Requests |-> 0] /\ response = [r \in Requests |-> "none"]
      /\ live = [r \in Requests |-> 0] /\ changes = 0
      /\ handlers = Subscribed /\ history = <<>>
      /\ publishing = [r \in Requests |-> [name |-> "none"]]
      /\ pending = [r \in Requests |-> <<>>]
      /\ seen = [c \in Call |-> [e \in Names \X Requests |-> 0]]
  BY DEF Init, Bus!BusInit, Bus!NoEvent, Bus!Call, Bus!Lists, Call, Events
<1>2. Attempts \in Nat
  BY ToolAssumption DEF Attempts
<1>3. \A c \in Call, event \in Names, r \in Requests : seen[c][<<event, r>>] = 0
  BY <1>1
<1>4. ToolsTypeOK
  <2>1. /\ handlers \in [Events -> Seq(Handlers)] /\ history \in Seq(Bus!Event)
        /\ Len(history) <= HistoryLimit
        /\ publishing \in [Requests -> Bus!Event \cup {Bus!NoEvent}]
        /\ pending \in [Requests -> Seq(Call)]
    BY <1>1, ToolAssumption DEF Events, Bus!NoEvent
  <2>2. seen \in [Call -> [Names \X Requests -> Nat]]
    BY <1>1
  <2>3. Bus!BusTypeOK
    BY <2>1, <2>2 DEF Bus!BusTypeOK, Bus!Lists, Bus!Call, Events, Call
  <2> QED  BY <1>1, <1>2, <2>3, ToolAssumption DEF ToolsTypeOK, Points
<1>5. ListsKept
  BY <1>1, ToolAssumption DEF ListsKept, Events
<1>6. ASSUME NEW r \in Requests
      PROVE  Attempted(r) /\ Heard(r) /\ Called(r)
  <2>1. pc[r] = "idle" /\ attempt[r] = 0
    BY <1>1
  <2>2. "tool.requested" \in Names /\ "tool.responded" \in Names
    BY DEF Names
  <2>3. \A c \in Call, event \in Names : seen[c][<<event, r>>] <= Due(c, event)
    BY <1>3 DEF Due
  <2> QED  BY <1>3, <2>1, <2>2, <2>3 DEF Attempted, Heard, Heeded, Called
<1> QED  BY <1>4, <1>5, <1>6 DEF IInv

LEMMA InvStep == IInv /\ [Next]_vars => IInv'
PROOF
<1> SUFFICES ASSUME IInv, [Next]_vars  PROVE IInv'
  OBVIOUS
<1>1. ASSUME NEW r \in Requests, Step(r) \/ Outside(r)
      PROVE  IInv'
  <2>1. CASE Request(r)
    BY <2>1, PublishMoves DEF Request, Names
  <2>2. CASE Answer(r)
    BY <2>2, PublishMoves DEF Answer, Names
  <2>3. CASE Announcing(r)
    BY <2>3, DeliverMoves
  <2>4. CASE Announced(r)
    BY <2>4, AnnouncedStep
  <2>5. CASE \/ NotDispatched(r) \/ Dispatch(r) \/ InputRejected(r) \/ RunsAtOnce(r) \/ RunStarts(r)
             \/ RunEnds(r) \/ TimesOut(r) \/ OrphanEnds(r) \/ Retry(r)
    BY <2>5, ToolSteps
  <2> QED  BY <1>1, <2>1, <2>2, <2>3, <2>4, <2>5 DEF Step, Outside
<1>2. CASE ChangeSubscription
  BY <1>2, SubscriptionStep
<1>3. CASE UNCHANGED vars
  <2>1. /\ pc' = pc /\ name' = name /\ attempt' = attempt /\ response' = response /\ live' = live
        /\ changes' = changes /\ handlers' = handlers /\ history' = history
        /\ publishing' = publishing /\ pending' = pending /\ seen' = seen
    BY <1>3 DEF vars, toolVars, busVars
  <2>2. ToolsTypeOK' /\ ListsKept'
    BY <2>1 DEF IInv, ToolsTypeOK, Bus!BusTypeOK, ListsKept
  <2>3. \A u \in Requests : Attempted(u)' /\ Heard(u)' /\ Called(u)'
    BY <2>1, SameRequest DEF IInv
  <2> QED  BY <2>2, <2>3 DEF IInv
<1> QED  BY <1>1, <1>2, <1>3 DEF Next

\* Whatever the requests, the tools and the handlers do, every request is at a point with
\* the attempts, the processes and the deliveries that belong to it (ToolExecutor.execute,
\* BaseTool.execute, EventBus.publish).
THEOREM Invariance == Spec => []IInv
PROOF
<1>1. Init => IInv
  BY InitInv
<1>2. IInv /\ [Next]_vars => IInv'
  BY InvStep
<1> QED  BY <1>1, <1>2, PTL DEF Spec

\* Types, and no more processes of a request run than it has made attempts, at most
\* Retries + 1 of them, though time-outs leave processes behind (base.py, process.py).
THEOREM ToolTypes == Spec => []ToolsTypeOK
PROOF
<1>1. IInv => ToolsTypeOK
  BY DEF IInv
<1> QED  BY <1>1, Invariance, PTL

\* A handler that stays subscribed to everything has seen a request announced before its
\* tool is run, and its response before that is returned (emit_lifecycle, publish).
THEOREM AnnouncedFirst == Spec => []AnnouncedInOrder
PROOF
<1>1. IInv => AnnouncedInOrder
  BY DEF IInv, Heard, Heeded, AnnouncedInOrder
<1> QED  BY <1>1, Invariance, PTL

\* No handler is called more than once for an announcement as a subscriber to its name, nor
\* more than once as one to everything, however subscriptions and deliveries interleave
\* (subscribe, publish).
THEOREM CalledOnce == Spec => []CalledOncePerName
PROOF
<1>1. IInv => CalledOncePerName
  <2>1. Bus!Call = Call
    BY DEF Bus!Call, Bus!Lists, Call, Events
  <2> QED  BY <2>1 DEF IInv, Called, Due, CalledOncePerName, Bus!CalledOncePerName
<1> QED  BY <1>1, Invariance, PTL
=============================================================================
