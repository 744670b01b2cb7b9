-------------------------- MODULE OrchestrationProofs --------------------------
(***************************************************************************)
(* Of a workflow there is one snapshot record, and an accepted workflow is *)
(* always found, for any number of workflows, clients, calls, crashes and  *)
(* writes that raise, while the lookups see every record of the category.  *)
(***************************************************************************)
EXTENDS Orchestration, TLAPS

\* The hypothesis of the theorems: the lookup window holds everything stored.
Small == Len(records) <= Limit

HasRecord(w) == \E i \in DOMAIN records : records[i].of = w
Recorded(id, w) == \E i \in DOMAIN records : records[i].id = id /\ records[i].of = w

\* Snapshots have ids of their own, which metrics do not share.
Identified ==
  /\ \A i \in DOMAIN records : IF records[i].of = None THEN records[i].id = 0
                               ELSE records[i].id \in 1..Len(records)
  /\ \A i, j \in DOMAIN records :
       records[i].of # None /\ records[j].of # None /\ records[i].id = records[j].id => i = j

Paused == {"pausing", "waiting", "woken"}
Over == {"ending", "learning", "remember"}

\* Who may be at work for a workflow.  Until it is accepted that is its POST alone, so
\* the checkpoint that creates the record has no rival; afterwards the record is there,
\* and every search finds it.
Fits(p) ==
  /\ p \in Workflows => on[p] = p
  /\ pc[p] \in {"new", "seeded"} => p \in Workflows /\ p \notin accepted
  /\ pc[p] \in {"new"} \cup Operations => save[p] = "no"
  /\ pc[p] \notin {"new", "seeded", "idle"} => on[p] \in accepted
  /\ pc[p] = "idle" /\ save[p] # "no" => on[p] \in accepted
  /\ pc[p] = "seeded" /\ save[p] \in {"state", "no"} => HasRecord(p)
  /\ save[p] = "store" /\ found[p] = 0 => pc[p] = "seeded" /\ ~HasRecord(on[p])
  /\ save[p] = "store" /\ found[p] # 0 => Recorded(found[p], on[p])
  /\ pc[p] \in Paused => copy[p] = "PAUSED"
  /\ pc[p] \in Over => copy[p] \in Terminal \cup {"PAUSED"}

AcceptedRecorded == \A w \in accepted : HasRecord(w)

IInv ==
  /\ OrchestrationTypeOK /\ (\A p \in Procs : Fits(p))
  /\ AcceptedRecorded /\ Identified /\ OneRecord /\ AcceptedFindable

-----------------------------------------------------------------------------
(* The records                                                             *)

\* The parts of the invariant that speak of the records alone.
Orderly ==
  /\ records \in Seq(Records)
  /\ \A i \in DOMAIN records : records[i].of # None => records[i].status \in Statuses
  /\ Identified /\ OneRecord

LEMMA InvOrderly == IInv => Orderly
  BY DEF IInv, OrchestrationTypeOK, Orderly

\* Every search finds the record of a workflow that has one.
LEMMA SearchFinds ==
  ASSUME Orderly, Small, NEW w \in Workflows
  PROVE  /\ HasRecord(w) => FindRecord(w) # 0 /\ Recorded(FindRecord(w), w)
         /\ HasRecord(w) => Stored(w) \in Statuses
         /\ ~HasRecord(w) => FindRecord(w) = 0
         /\ FindRecord(w) \in Nat
PROOF
<1>1. w # None
  BY OrchestrationAssumption DEF Procs
<1>2. ASSUME HasRecord(w)
      PROVE  FindRecord(w) \in Nat \ {0} /\ Recorded(FindRecord(w), w) /\ Stored(w) \in Statuses
  <2>1. PICK i \in DOMAIN records : records[i].of = w
    BY <1>2 DEF HasRecord
  <2>2. i \in 1..Len(records) /\ i <= Limit
    BY OrchestrationAssumption DEF Orderly, Small
  <2>3. Snapshots(w) = {i}
    BY <1>1, <2>1, <2>2 DEF Snapshots, Window, Orderly, OneRecord
  <2>4. (CHOOSE k \in Snapshots(w) : \A j \in Snapshots(w) : k <= j) = i
    BY <2>2, <2>3
  <2>5. Latest(w) = records[i] /\ Snapshots(w) # {}
    BY <2>3, <2>4 DEF Latest
  <2>6. records[i].id \in 1..Len(records) /\ records[i].status \in Statuses
    BY <1>1, <2>1 DEF Orderly, Identified
  <2> QED  BY <2>1, <2>5, <2>6 DEF FindRecord, Stored, Recorded, Orderly
<1>3. ASSUME ~HasRecord(w)
      PROVE  FindRecord(w) = 0
  BY <1>3 DEF HasRecord, Snapshots, Window, FindRecord
<1> QED  BY <1>2, <1>3

\* What adding a record at the front does.
LEMMA AtFront ==
  ASSUME Orderly, NEW r \in Records, records' = Created(r)
  PROVE  /\ records' \in Seq(Records) /\ Len(records) \in Nat
         /\ Len(records') = Len(records) + 1 /\ DOMAIN records' = 1..(Len(records) + 1)
         /\ DOMAIN records = 1..Len(records)
         /\ records'[1] = r
         /\ \A i \in DOMAIN records : records'[i + 1] = records[i]
         /\ \A i \in DOMAIN records' : i = 1 \/ (i - 1 \in DOMAIN records /\ records'[i] = records[i - 1])
PROOF
<1>1. records \in Seq(Records) /\ Len(records) \in Nat /\ DOMAIN records = 1..Len(records)
  BY DEF Orderly
<1>2. records' = <<r>> \o records
  BY DEF Created
<1>3. <<r>> \in Seq(Records) /\ Len(<<r>>) = 1 /\ <<r>>[1] = r
  OBVIOUS
<1>4. /\ records' \in Seq(Records) /\ Len(records') = Len(records) + 1
      /\ DOMAIN records' = 1..(Len(records) + 1) /\ records'[1] = r
  BY <1>1, <1>2, <1>3
<1>5. \A i \in DOMAIN records : records'[i + 1] = records[i]
  BY <1>1, <1>2, <1>3
<1>6. \A i \in DOMAIN records' : i = 1 \/ (i - 1 \in DOMAIN records /\ records'[i] = records[i - 1])
  <2> TAKE i \in DOMAIN records'
  <2>1. CASE i # 1
    <3>1. i - 1 \in DOMAIN records /\ (i - 1) + 1 = i
      BY <1>1, <1>4, <2>1
    <3> QED  BY <1>5, <3>1
  <2> QED  BY <2>1
<1> QED  BY <1>1, <1>4, <1>5, <1>6

LEMMA Joined ==
  ASSUME NEW S, NEW s \in Seq(S), NEW t \in Seq(S)
  PROVE  /\ s \o t \in Seq(S) /\ Len(s \o t) = Len(s) + Len(t)
         /\ \A i \in 1..(Len(s) + Len(t)) :
              (s \o t)[i] = IF i <= Len(s) THEN s[i] ELSE t[i - Len(s)]
  OBVIOUS

\* What moving an entry to the front, changed, does.
LEMMA Removed ==
  ASSUME NEW S, NEW s \in Seq(S), NEW k \in 1..Len(s)
  PROVE  /\ RemoveAt(s, k) \in Seq(S) /\ Len(RemoveAt(s, k)) = Len(s) - 1
         /\ \A i \in 1..(k - 1) : RemoveAt(s, k)[i] = s[i]
         /\ \A i \in k..(Len(s) - 1) : RemoveAt(s, k)[i] = s[i + 1]
PROOF
<1> DEFINE a == SubSeq(s, 1, k - 1)
           b == SubSeq(s, k + 1, Len(s))
<1>1. Len(s) \in Nat /\ k \in Nat
  OBVIOUS
<1>2. a \in Seq(S) /\ Len(a) = k - 1 /\ \A i \in 1..(k - 1) : a[i] = s[i]
  OBVIOUS
<1>3. b \in Seq(S) /\ Len(b) = Len(s) - k /\ \A i \in 1..(Len(s) - k) : b[i] = s[k + i]
  OBVIOUS
<1>4. RemoveAt(s, k) = a \o b
  BY DEF RemoveAt
<1> HIDE DEF a, b
<1>5. a \o b \in Seq(S) /\ Len(a \o b) = Len(s) - 1
  <2>1. a \in Seq(S) /\ b \in Seq(S)
    BY <1>2, <1>3
  <2>2. a \o b \in Seq(S) /\ Len(a \o b) = Len(a) + Len(b)
    BY ONLY <2>1, Joined
  <2> QED  BY <1>1, <1>2, <1>3, <2>1, <2>2
<1>6. \A i \in 1..(k - 1) : (a \o b)[i] = s[i]
  BY <1>1, <1>2, <1>3
<1>7. ASSUME NEW i \in k..(Len(s) - 1)
      PROVE  (a \o b)[i] = s[i + 1]
  <2>1. i \in Int /\ i - (k - 1) \in 1..(Len(s) - k) /\ k + (i - (k - 1)) = i + 1
    BY <1>1
  <2>2. (a \o b)[i] = b[i - (k - 1)]
    BY <1>1, <1>2, <1>3, <2>1
  <2> QED  BY <1>3, <2>1, <2>2
<1> QED  BY <1>4, <1>5, <1>6, <1>7

LEMMA Fronted ==
  ASSUME NEW S, NEW s \in Seq(S), NEW r \in S
  PROVE  /\ <<r>> \o s \in Seq(S) /\ Len(<<r>> \o s) = Len(s) + 1
         /\ (<<r>> \o s)[1] = r
         /\ \A i \in 2..(Len(s) + 1) : (<<r>> \o s)[i] = s[i - 1]
PROOF
<1>1. <<r>> \in Seq(S) /\ Len(<<r>>) = 1 /\ <<r>>[1] = r /\ Len(s) \in Nat
  OBVIOUS
<1> DEFINE a == <<r>>
<1> HIDE DEF a
<1>2. a \in Seq(S) /\ Len(a) = 1 /\ a[1] = r
  BY <1>1 DEF a
<1>3. /\ a \o s \in Seq(S) /\ Len(a \o s) = Len(s) + 1 /\ (a \o s)[1] = r
      /\ \A i \in 2..(Len(s) + 1) : (a \o s)[i] = s[i - 1]
  <2>1. a \in Seq(S) /\ s \in Seq(S)
    BY <1>2
  <2>2. /\ a \o s \in Seq(S) /\ Len(a \o s) = Len(a) + Len(s)
        /\ \A i \in 1..(Len(a) + Len(s)) :
             (a \o s)[i] = IF i <= Len(a) THEN a[i] ELSE s[i - Len(a)]
    BY ONLY <2>1, Joined
  <2> QED  BY <1>1, <1>2, <2>2
<1> QED  BY <1>3 DEF a

LEMMA MetricStored ==
  ASSUME Orderly, records' = Created(Metric)
  PROVE  /\ Orderly'
         /\ \A w \in Workflows : HasRecord(w)' <=> HasRecord(w)
         /\ \A w \in Workflows, id \in Nat : Recorded(id, w)' <=> Recorded(id, w)
PROOF
<1>1. Metric \in Records /\ Metric.of = None /\ Metric.id = 0
  BY DEF Metric, Records, Statuses, Missing
<1>2. None \notin Workflows
  BY OrchestrationAssumption DEF Procs
<1>3. /\ records' \in Seq(Records) /\ Len(records) \in Nat
      /\ Len(records') = Len(records) + 1 /\ DOMAIN records' = 1..(Len(records) + 1)
      /\ DOMAIN records = 1..Len(records)
      /\ records'[1] = Metric
      /\ \A i \in DOMAIN records : records'[i + 1] = records[i]
      /\ \A i \in DOMAIN records' : i = 1 \/ (i - 1 \in DOMAIN records /\ records'[i] = records[i - 1])
  BY <1>1, AtFront
<1>4. \A i \in DOMAIN records' : records'[i].of # None => records'[i].status \in Statuses
  BY <1>1, <1>3 DEF Orderly
<1>5. Identified'
  <2>1. \A i \in DOMAIN records' : IF records'[i].of = None THEN records'[i].id = 0
                                   ELSE records'[i].id \in 1..Len(records')
    BY <1>1, <1>3 DEF Orderly, Identified
  <2>2. \A i, j \in DOMAIN records' :
          records'[i].of # None /\ records'[j].of # None /\ records'[i].id = records'[j].id => i = j
    <3> SUFFICES ASSUME NEW i \in DOMAIN records', NEW j \in DOMAIN records',
                        records'[i].of # None, records'[j].of # None,
                        records'[i].id = records'[j].id
                 PROVE  i = j
      OBVIOUS
    <3>1. i # 1 /\ j # 1
      BY <1>1, <1>3
    <3>2. /\ i - 1 \in DOMAIN records /\ records'[i] = records[i - 1]
          /\ j - 1 \in DOMAIN records /\ records'[j] = records[j - 1]
      BY <1>3, <3>1
    <3>3. i - 1 = j - 1
      BY <3>2 DEF Orderly, Identified
    <3> QED  BY <1>3, <3>3
  <2> QED  BY <2>1, <2>2 DEF Identified
<1>6. OneRecord'
  BY <1>1, <1>3 DEF Orderly, OneRecord
<1>7. \A w \in Workflows : HasRecord(w)' <=> HasRecord(w)
  BY <1>1, <1>2, <1>3 DEF HasRecord
<1>8. \A w \in Workflows, id \in Nat : Recorded(id, w)' <=> Recorded(id, w)
  BY <1>1, <1>2, <1>3 DEF Recorded
<1> QED  BY <1>3, <1>4, <1>5, <1>6, <1>7, <1>8 DEF Orderly

LEMMA SnapshotCreated ==
  ASSUME Orderly, NEW w \in Workflows, ~HasRecord(w), NEW status \in Statuses,
         records' = Created([id |-> NewId, of |-> w, status |-> status])
  PROVE  /\ Orderly' /\ HasRecord(w)'
         /\ \A v \in Workflows : v # w => (HasRecord(v)' <=> HasRecord(v))
         /\ \A v \in Workflows, id \in Nat : Recorded(id, v) => Recorded(id, v)'
PROOF
<1> DEFINE r == [id |-> NewId, of |-> w, status |-> status]
<1>1. Len(records) \in Nat
  BY DEF Orderly
<1>2. r \in Records /\ r.of = w /\ r.id = Len(records) + 1 /\ r.status = status
  BY <1>1 DEF Records, NewId, Statuses
<1>3. w # None
  BY OrchestrationAssumption DEF Procs
<1>4. records' = Created(r)
  OBVIOUS
<1> HIDE DEF r
<1>5. /\ records' \in Seq(Records)
      /\ Len(records') = Len(records) + 1 /\ DOMAIN records' = 1..(Len(records) + 1)
      /\ DOMAIN records = 1..Len(records)
      /\ records'[1] = r
      /\ \A i \in DOMAIN records : records'[i + 1] = records[i]
      /\ \A i \in DOMAIN records' : i = 1 \/ (i - 1 \in DOMAIN records /\ records'[i] = records[i - 1])
  BY <1>2, <1>4, AtFront
<1>6. \A i \in DOMAIN records' : records'[i].of # None => records'[i].status \in Statuses
  <2> TAKE i \in DOMAIN records'
  <2>1. CASE i = 1
    BY <1>2, <1>5, <2>1
  <2>2. CASE i - 1 \in DOMAIN records /\ records'[i] = records[i - 1]
    BY <2>2 DEF Orderly
  <2> QED  BY <1>5, <2>1, <2>2
<1>7. Identified'
  <2>1. ASSUME NEW i \in DOMAIN records'
        PROVE  IF records'[i].of = None THEN records'[i].id = 0
               ELSE records'[i].id \in 1..Len(records')
    <3>1. CASE i = 1
      BY <1>1, <1>2, <1>3, <1>5, <3>1
    <3>2. CASE i # 1
      <4>1. i - 1 \in DOMAIN records /\ records'[i] = records[i - 1]
        BY <1>2, <1>3, <1>5, <3>2
      <4> QED  BY <1>1, <1>2, <1>3, <1>5, <4>1 DEF Orderly, Identified
    <3> QED  BY <3>1, <3>2
  <2>2. \A i, j \in DOMAIN records' :
          records'[i].of # None /\ records'[j].of # None /\ records'[i].id = records'[j].id => i = j
    <3> SUFFICES ASSUME NEW i \in DOMAIN records', NEW j \in DOMAIN records',
                        records'[i].of # None, records'[j].of # None,
                        records'[i].id = records'[j].id, i # j
                 PROVE  FALSE
      OBVIOUS
    <3>1. \A n \in DOMAIN records : records[n].of # None => records[n].id < Len(records) + 1
      BY <1>1 DEF Orderly, Identified
    <3>2. i # 1 /\ j # 1
      BY <1>2, <1>5, <3>1
    <3>3. /\ i - 1 \in DOMAIN records /\ records'[i] = records[i - 1]
          /\ j - 1 \in DOMAIN records /\ records'[j] = records[j - 1]
      BY <1>5, <3>2
    <3>4. i - 1 = j - 1
      BY <3>3 DEF Orderly, Identified
    <3> QED  BY <1>5, <3>4
  <2> QED  BY <2>1, <2>2 DEF Identified
<1>8. OneRecord'
  <2>1. \A i \in DOMAIN records : records[i].of # w
    BY DEF HasRecord
  <2> SUFFICES ASSUME NEW i \in DOMAIN records', NEW j \in DOMAIN records',
                      records'[i].of = records'[j].of, records'[i].of # None, i # j
               PROVE  FALSE
    BY DEF OneRecord
  <2>2. i # 1 /\ j # 1
    BY <1>2, <1>5, <2>1
  <2>3. /\ i - 1 \in DOMAIN records /\ records'[i] = records[i - 1]
        /\ j - 1 \in DOMAIN records /\ records'[j] = records[j - 1]
    BY <1>5, <2>2
  <2>4. i - 1 = j - 1
    BY <2>3 DEF Orderly, OneRecord
  <2> QED  BY <1>5, <2>4
<1>9. \A i \in DOMAIN records : i + 1 \in DOMAIN records' /\ records'[i + 1] = records[i]
  BY <1>1, <1>5
<1>10. 1 \in DOMAIN records'
  BY <1>1, <1>5
<1>11. HasRecord(w)'
  BY <1>2, <1>5, <1>10 DEF HasRecord
<1>12. \A v \in Workflows : v # w => (HasRecord(v)' <=> HasRecord(v))
  <2> TAKE v \in Workflows
  <2>1. HasRecord(v) => HasRecord(v)'
    BY <1>9 DEF HasRecord
  <2>2. ASSUME v # w, NEW i \in DOMAIN records', records'[i].of = v  PROVE HasRecord(v)
    <3>1. i # 1
      BY <1>2, <1>5, <2>2
    <3>2. i - 1 \in DOMAIN records /\ records'[i] = records[i - 1]
      BY <1>1, <1>5, <3>1
    <3> QED  BY <2>2, <3>2 DEF HasRecord
  <2> QED  BY <2>1, <2>2 DEF HasRecord
<1>13. \A v \in Workflows, id \in Nat : Recorded(id, v) => Recorded(id, v)'
  BY <1>9 DEF Recorded
<1> QED  BY <1>5, <1>6, <1>7, <1>8, <1>11, <1>12, <1>13 DEF Orderly

\* An update of a record moves it to the front.
LEMMA SnapshotRewritten ==
  ASSUME Orderly, NEW w \in Workflows, NEW id \in Nat \ {0}, Recorded(id, w), NEW status \in Statuses,
         records' = Rewritten(id, status)
  PROVE  /\ Orderly'
         /\ \A v \in Workflows : HasRecord(v)' <=> HasRecord(v)
         /\ \A v \in Workflows, n \in Nat : Recorded(n, v)' <=> Recorded(n, v)
PROOF
<1> DEFINE k == CHOOSE i \in DOMAIN records : records[i].id = id
           r == [records[k] EXCEPT !.status = status]
<1>1. k \in DOMAIN records /\ records[k].id = id
  BY DEF Recorded
<1>2. PICK m \in DOMAIN records : records[m].id = id /\ records[m].of = w
  BY DEF Recorded
<1>3. w # None
  BY OrchestrationAssumption DEF Procs
<1>4. m = k
  BY <1>1, <1>2, <1>3 DEF Orderly, Identified
<1>5. records[k].of = w
  BY <1>2, <1>4
<1>6. records' = <<r>> \o RemoveAt(records, k)
  BY DEF Rewritten
<1> HIDE DEF k
<1>7. records[k] \in Records /\ Len(records) \in Nat /\ DOMAIN records = 1..Len(records)
  BY <1>1 DEF Orderly
<1>8. r \in Records /\ r.id = id /\ r.of = w /\ r.status = status
  BY <1>1, <1>5, <1>7 DEF Records, Statuses
<1> HIDE DEF r
<1>9. /\ records' \in Seq(Records) /\ Len(records') = Len(records)
      /\ records'[1] = r
      /\ \A i \in 2..k : records'[i] = records[i - 1]
      /\ \A i \in (k + 1)..Len(records) : records'[i] = records[i]
  <2> DEFINE t == RemoveAt(records, k)
  <2>1. records \in Seq(Records) /\ k \in 1..Len(records) /\ k \in Nat
    BY <1>1, <1>7 DEF Orderly
  <2>2. /\ t \in Seq(Records) /\ Len(t) = Len(records) - 1
        /\ \A i \in 1..(k - 1) : t[i] = records[i]
        /\ \A i \in k..(Len(records) - 1) : t[i] = records[i + 1]
    BY <2>1, Removed
  <2> HIDE DEF t
  <2>3. records' = <<r>> \o t
    BY <1>6 DEF t
  <2>4. /\ records' \in Seq(Records) /\ Len(records') = Len(t) + 1 /\ records'[1] = r
        /\ \A i \in 2..(Len(t) + 1) : records'[i] = t[i - 1]
    BY <1>8, <2>2, <2>3, Fronted
  <2>5. Len(records') = Len(records)
    BY <1>7, <2>2, <2>4
  <2>6. ASSUME NEW i \in 2..k
        PROVE  records'[i] = records[i - 1]
    <3>1. i \in 2..(Len(t) + 1) /\ i - 1 \in 1..(k - 1)
      BY <1>7, <2>1, <2>2
    <3> QED  BY <2>2, <2>4, <3>1
  <2>7. ASSUME NEW i \in (k + 1)..Len(records)
        PROVE  records'[i] = records[i]
    <3>1. i \in 2..(Len(t) + 1) /\ i - 1 \in k..(Len(records) - 1) /\ (i - 1) + 1 = i
      BY <1>7, <2>1, <2>2
    <3> QED  BY <2>2, <2>4, <3>1
  <2> QED  BY <2>4, <2>5, <2>6, <2>7
<1>10. DOMAIN records' = 1..Len(records) /\ k \in 1..Len(records)
  BY <1>1, <1>7, <1>9
<1>11. \A i \in DOMAIN records' :
         \/ i = 1
         \/ i \in 2..k /\ records'[i] = records[i - 1]
         \/ i \in (k + 1)..Len(records) /\ records'[i] = records[i]
  BY <1>7, <1>9, <1>10
\* Where each record was, and what of it is unchanged.
<1> DEFINE was(i) == IF i = 1 THEN k ELSE IF i \in 2..k THEN i - 1 ELSE i
<1>12. ASSUME NEW i \in DOMAIN records'
       PROVE  /\ was(i) \in DOMAIN records
              /\ records'[i].id = records[was(i)].id /\ records'[i].of = records[was(i)].of
              /\ records'[i].status = status \/ records'[i] = records[was(i)]
  <2>1. CASE i = 1
    BY <1>1, <1>5, <1>8, <1>9, <2>1
  <2>2. CASE i \in 2..k /\ records'[i] = records[i - 1]
    <3>1. i # 1 /\ was(i) = i - 1 /\ i - 1 \in DOMAIN records
      BY <1>7, <1>10, <2>2
    <3> QED  BY <2>2, <3>1
  <2>3. CASE i \in (k + 1)..Len(records) /\ records'[i] = records[i]
    <3>1. i # 1 /\ was(i) = i /\ i \in DOMAIN records
      BY <1>7, <1>10, <2>3
    <3> QED  BY <2>3, <3>1
  <2> QED  BY <1>11, <2>1, <2>2, <2>3
<1>13. ASSUME NEW i \in DOMAIN records', NEW j \in DOMAIN records', was(i) = was(j)
       PROVE  i = j
  BY <1>10, <1>13
<1>19. \A i \in DOMAIN records' : was(i) \in DOMAIN records
  BY <1>12
<1> HIDE DEF was
<1>20. \A i \in DOMAIN records' : records'[i].of # None => records'[i].status \in Statuses
  BY <1>12 DEF Orderly
<1>21. Identified'
  <2>1. \A i \in DOMAIN records' : IF records'[i].of = None THEN records'[i].id = 0
                                   ELSE records'[i].id \in 1..Len(records')
    BY <1>9, <1>12 DEF Orderly, Identified
  <2>2. \A i, j \in DOMAIN records' :
          records'[i].of # None /\ records'[j].of # None /\ records'[i].id = records'[j].id => i = j
    BY <1>12, <1>13 DEF Orderly, Identified
  <2> QED  BY <2>1, <2>2 DEF Identified
<1>14. OneRecord'
  BY <1>12, <1>13 DEF Orderly, OneRecord
<1>15. \A i \in DOMAIN records : \E j \in DOMAIN records' :
         records'[j].id = records[i].id /\ records'[j].of = records[i].of
  <2> TAKE i \in DOMAIN records
  <2>1. CASE i = k
    BY <1>1, <1>5, <1>7, <1>8, <1>9, <1>10, <2>1
  <2>2. CASE i < k
    <3>1. i + 1 \in DOMAIN records' /\ records'[i + 1] = records[i]
      BY <1>7, <1>9, <1>10, <2>2
    <3> QED  BY <3>1
  <2>3. CASE i > k
    <3>1. i \in DOMAIN records' /\ records'[i] = records[i]
      BY <1>7, <1>9, <1>10, <2>3
    <3> QED  BY <3>1
  <2> QED  BY <1>7, <1>10, <2>1, <2>2, <2>3
<1>16. \A i \in DOMAIN records' : \E j \in DOMAIN records :
         records'[i].id = records[j].id /\ records'[i].of = records[j].of
  BY <1>12
<1>17. \A v \in Workflows : HasRecord(v)' <=> HasRecord(v)
  BY <1>15, <1>16 DEF HasRecord
<1>18. \A v \in Workflows, n \in Nat : Recorded(n, v)' <=> Recorded(n, v)
  BY <1>15, <1>16 DEF Recorded
<1> QED  BY <1>9, <1>14, <1>17, <1>18, <1>20, <1>21 DEF Orderly

-----------------------------------------------------------------------------
(* The coroutines                                                          *)

Local ==
  /\ pc \in [Procs -> Points \cup Operations]
  /\ save \in [Procs -> {"no", "find", "store", "state"}]
  /\ on \in [Procs -> Workflows] /\ copy \in [Procs -> Statuses]
  /\ found \in [Procs -> Nat] /\ step \in [Procs -> Nat]

Shared ==
  /\ state \in [Workflows -> Statuses \cup {Missing}]
  /\ history \in [Workflows -> Terminal \cup {"PAUSED", Missing}]
  /\ active \in [Workflows -> Procs \cup {None}]
  /\ cancels \subseteq Workflows /\ pauses \subseteq Workflows
  /\ accepted \subseteq Workflows /\ lost \subseteq Workflows
  /\ calls \in 0..MaxCalls /\ faults \in 0..MaxFaults

LEMMA TypesOf == OrchestrationTypeOK /\ Identified /\ OneRecord <=> Local /\ Shared /\ Orderly
  BY DEF OrchestrationTypeOK, Local, Shared, Orderly

\* Nobody but p changes where it is, except that p may wake who waits.
Apart(p) == \A q \in Procs \ {p} :
  /\ save'[q] = save[q] /\ on'[q] = on[q] /\ copy'[q] = copy[q] /\ found'[q] = found[q]
  /\ pc'[q] = pc[q] \/ (pc[q] = "waiting" /\ pc'[q] = "woken")

\* What p may do to the records and to the accepted workflows.
LEMMA OthersFit ==
  ASSUME IInv, NEW p \in Procs, Apart(p), accepted \subseteq accepted',
         \A v \in accepted' : v # p => v \in accepted,
         \A v \in Workflows : HasRecord(v) => HasRecord(v)',
         \A v \in Workflows : v # p /\ HasRecord(v)' => HasRecord(v),
         \A v \in Workflows, id \in Nat : Recorded(id, v) => Recorded(id, v)'
  PROVE  \A q \in Procs \ {p} : Fits(q)'
PROOF
<1> TAKE q \in Procs \ {p}
<1>1. /\ save'[q] = save[q] /\ on'[q] = on[q] /\ copy'[q] = copy[q] /\ found'[q] = found[q]
      /\ pc'[q] = pc[q] \/ (pc[q] = "waiting" /\ pc'[q] = "woken")
  BY DEF Apart
<1>2. Fits(q) /\ on[q] \in Workflows /\ found[q] \in Nat
  BY DEF IInv, OrchestrationTypeOK
<1>3. PICK a \in Workflows, f \in Nat : a = on[q] /\ f = found[q]
  BY <1>2
<1>4. /\ HasRecord(a) => HasRecord(a)'
      /\ a # p /\ HasRecord(a)' => HasRecord(a)
      /\ Recorded(f, a) => Recorded(f, a)'
      /\ q \in Workflows => (HasRecord(q) => HasRecord(q)')
  OBVIOUS
<1>5. /\ q \in Workflows => on[q] = q
      /\ pc[q] \in {"new", "seeded"} => q \in Workflows /\ q \notin accepted
      /\ pc[q] \in {"new"} \cup Operations => save[q] = "no"
      /\ pc[q] \notin {"new", "seeded", "idle"} => a \in accepted
      /\ pc[q] = "idle" /\ save[q] # "no" => a \in accepted
      /\ pc[q] \in Paused => copy[q] = "PAUSED"
      /\ pc[q] \in Over => copy[q] \in Terminal \cup {"PAUSED"}
  BY <1>2, <1>3 DEF Fits
<1>6. pc'[q] = "seeded" /\ save'[q] \in {"state", "no"} => HasRecord(q)'
  BY <1>1, <1>2, <1>4, <1>5 DEF Fits
<1>7. save'[q] = "store" /\ found'[q] = 0 => pc'[q] = "seeded" /\ ~HasRecord(a)'
  <2>1. save[q] = "store" /\ found[q] = 0 => pc[q] = "seeded" /\ ~HasRecord(a)
    BY <1>2, <1>3 DEF Fits, HasRecord
  <2> QED  BY <1>1, <1>3, <1>4, <1>5, <2>1
<1>8. save'[q] = "store" /\ found'[q] # 0 => Recorded(f, a)'
  <2>1. save[q] = "store" /\ found[q] # 0 => Recorded(f, a)
    BY <1>2, <1>3 DEF Fits, Recorded
  <2> QED  BY <1>1, <1>3, <1>4, <2>1
<1>9. on'[q] = a /\ found'[q] = f
  BY <1>1, <1>3
<1> QED  BY <1>1, <1>3, <1>5, <1>6, <1>7, <1>8, <1>9 DEF Fits, Paused, Over, Operations, HasRecord, Recorded


\* A step of p that leaves the records and the answers alone.
LEMMA QuietStep ==
  ASSUME IInv, NEW p \in Procs, Apart(p), UNCHANGED <<records, accepted, lost>>,
         Local', Shared', Fits(p)'
  PROVE  IInv'
PROOF
<1>1. /\ \A v \in Workflows : HasRecord(v)' <=> HasRecord(v)
      /\ \A v \in Workflows, id \in Nat : Recorded(id, v)' <=> Recorded(id, v)
  BY DEF HasRecord, Recorded
<1>2. \A q \in Procs \ {p} : Fits(q)'
  BY <1>1, OthersFit
<1>3. Orderly'
  <2>1. Orderly
    BY InvOrderly
  <2> QED  BY <2>1 DEF Orderly, Identified, OneRecord
<1>4. OrchestrationTypeOK' /\ Identified' /\ OneRecord'
  BY <1>3 DEF OrchestrationTypeOK, Local, Shared, Orderly
<1>5. AcceptedRecorded' /\ AcceptedFindable'
  BY DEF IInv, AcceptedRecorded, AcceptedFindable, HasRecord
<1> QED  BY <1>2, <1>4, <1>5 DEF IInv

\* What the invariant says of p, which the step lemmas start from.
LEMMA Before ==
  ASSUME IInv, NEW p \in Procs
  PROVE  /\ Local /\ Shared /\ Fits(p)
         /\ on[p] \in Workflows /\ copy[p] \in Statuses /\ found[p] \in Nat /\ step[p] \in Nat
         /\ pc[p] \in Points \cup Operations /\ save[p] \in {"no", "find", "store", "state"}
BY DEF IInv, OrchestrationTypeOK, Local, Shared


LEMMA FaultSpent ==
  ASSUME Shared
  PROVE  faults > 0 /\ faults' = faults - 1 => faults' \in 0..MaxFaults
BY OrchestrationAssumption DEF Shared


LEMMA FindStep ==
  ASSUME IInv, Small, NEW p \in Procs, Find(p)
  PROVE  IInv'
PROOF
<1>1. /\ Local /\ Shared /\ Fits(p)
      /\ on[p] \in Workflows /\ copy[p] \in Statuses /\ found[p] \in Nat /\ step[p] \in Nat
      /\ pc[p] \in Points \cup Operations /\ save[p] \in {"no", "find", "store", "state"}
  BY Before DEF Procs
<1>0. PICK a \in Workflows, f \in Nat :
        /\ a = on[p] /\ f = FindRecord(a) /\ save[p] = "find"
        /\ found' = [found EXCEPT ![p] = f]
        /\ f # 0 => Recorded(f, a)
        /\ f = 0 => pc[p] = "seeded" /\ ~HasRecord(a)
  <2>1. Orderly /\ AcceptedRecorded
    BY InvOrderly DEF IInv
  <2>2. PICK a \in Workflows : a = on[p]
    BY <1>1
  <2>3. /\ HasRecord(a) => FindRecord(a) # 0 /\ Recorded(FindRecord(a), a)
        /\ ~HasRecord(a) => FindRecord(a) = 0
        /\ FindRecord(a) \in Nat
    BY <2>1, SearchFinds
  <2>4. save[p] = "find" /\ found' = [found EXCEPT ![p] = FindRecord(a)]
    BY <2>2 DEF Find
  <2>5. pc[p] = "seeded" \/ HasRecord(a)
    BY <1>1, <2>1, <2>2, <2>4 DEF Fits, AcceptedRecorded
  <2> QED  BY <2>2, <2>3, <2>4, <2>5
<1>2. Local'
  BY <1>1, <1>0 DEF Local, Find, controls, answers, budget, Points, Operations
<1>3. Shared'
  BY <1>1, <1>0 DEF Shared, Find, controls, answers, budget
<1>4. Apart(p)
  BY <1>1 DEF Local, Apart, Find, controls, answers, budget
<1>5. pc'[p] = pc[p] /\ save'[p] = "store" /\ copy'[p] = copy[p] /\ on'[p] = on[p]
  BY <1>1, <1>0 DEF Local, Find, controls, answers, budget
<1>6. Fits(p)'
  <2>1. on'[p] = a /\ found'[p] = f /\ records' = records /\ accepted' = accepted
    BY <1>0, <1>1 DEF Local, Find, answers
  <2>2. Fits(p)
    BY <1>1
  <2>3. /\ p \in Workflows => a = p
        /\ pc[p] \in {"new", "seeded"} => p \in Workflows /\ p \notin accepted
        /\ pc[p] # "new" /\ pc[p] \notin Operations
        /\ pc[p] \notin {"new", "seeded"} => a \in accepted
        /\ pc[p] \in Paused => copy[p] = "PAUSED"
        /\ pc[p] \in Over => copy[p] \in Terminal \cup {"PAUSED"}
    BY <1>0, <2>2 DEF Fits
  <2>4. f = 0 => ~(\E i \in DOMAIN records' : records'[i].of = a)
    BY <1>0, <2>1 DEF HasRecord
  <2>5. f # 0 => \E i \in DOMAIN records' : records'[i].id = f /\ records'[i].of = a
    BY <1>0, <2>1 DEF Recorded
  <2> QED  BY <1>0, <1>5, <2>1, <2>3, <2>4, <2>5 DEF Fits, Paused, Over, HasRecord, Recorded
<1>7. UNCHANGED <<records, accepted, lost>>
  BY DEF Find, controls, answers, budget
<1> QED  BY <1>2, <1>3, <1>4, <1>6, <1>7, QuietStep DEF Procs


LEMMA FlushStep ==
  ASSUME IInv, NEW p \in Procs, Flush(p)
  PROVE  IInv'
PROOF
<1>1. /\ Local /\ Shared /\ Fits(p)
      /\ on[p] \in Workflows /\ copy[p] \in Statuses /\ found[p] \in Nat /\ step[p] \in Nat
      /\ pc[p] \in Points \cup Operations /\ save[p] \in {"no", "find", "store", "state"}
  BY Before DEF Procs
<1>2. Local'
  BY <1>1 DEF Local, Flush, controls, answers, budget, Points, Operations
<1>3. Shared'
  BY <1>1 DEF Shared, Flush, controls, answers, budget
<1>4. Apart(p)
  BY <1>1 DEF Local, Apart, Flush, controls, answers, budget
<1>5. pc'[p] = pc[p] /\ save[p] = "state" /\ save'[p] = "no" /\ copy'[p] = copy[p] /\ on'[p] = on[p]
  BY <1>1 DEF Local, Flush, controls, answers, budget
<1>6. Fits(p)'
  BY <1>1, <1>5 DEF Fits, Paused, Over, Points, Operations, HasRecord, Recorded, Flush, controls, answers, budget
<1>7. UNCHANGED <<records, accepted, lost>>
  BY DEF Flush, controls, answers, budget
<1> QED  BY <1>2, <1>3, <1>4, <1>6, <1>7, QuietStep DEF Procs


LEMMA RaiseStep ==
  ASSUME IInv, NEW p \in Procs, StoreRaises(p)
  PROVE  IInv'
PROOF
<1>1. /\ Local /\ Shared /\ Fits(p)
      /\ on[p] \in Workflows /\ copy[p] \in Statuses /\ found[p] \in Nat /\ step[p] \in Nat
      /\ pc[p] \in Points \cup Operations /\ save[p] \in {"no", "find", "store", "state"}
  BY Before DEF Procs
<1>2. Local'
  BY <1>1 DEF Local, StoreRaises, Goto, controls, answers, Points, Operations
<1>3. Shared'
  <2>1. active' \in [Workflows -> Procs \cup {None}]
    BY <1>1 DEF Shared, StoreRaises
  <2>2. faults' \in 0..MaxFaults
    BY <1>1, FaultSpent DEF StoreRaises
  <2>3. UNCHANGED <<state, history, cancels, pauses, accepted, lost, calls>>
    BY DEF StoreRaises, controls, answers
  <2> QED  BY <1>1, <2>1, <2>2, <2>3 DEF Shared
<1>4. Apart(p)
  BY <1>1 DEF Local, Apart, StoreRaises, Goto, controls, answers
<1>5. pc'[p] = "idle" /\ save'[p] = "no" /\ copy'[p] = copy[p] /\ on'[p] = on[p]
  BY <1>1 DEF Local, StoreRaises, Goto, controls, answers
<1>6. Fits(p)'
  BY <1>1, <1>5 DEF Fits, Paused, Over, Points, Operations, HasRecord, Recorded, StoreRaises, Goto, controls, answers
<1>7. UNCHANGED <<records, accepted, lost>>
  BY DEF StoreRaises, Goto, controls, answers
<1> QED  BY <1>2, <1>3, <1>4, <1>6, <1>7, QuietStep DEF Procs


LEMMA ControlledStep ==
  ASSUME IInv, NEW p \in Procs, Controlled(p)
  PROVE  IInv'
PROOF
<1>1. /\ Local /\ Shared /\ Fits(p)
      /\ on[p] \in Workflows /\ copy[p] \in Statuses /\ found[p] \in Nat /\ step[p] \in Nat
      /\ pc[p] \in Points \cup Operations /\ save[p] \in {"no", "find", "store", "state"}
  BY Before DEF Procs
<1>2. Local'
  BY <1>1 DEF Local, Controlled, Boundary, At, Goto, Checkpoint, Statuses, Terminal, controls, answers, budget, Points, Operations
<1>3. Shared'
  BY <1>1 DEF Shared, Controlled, Boundary, At, Goto, Checkpoint, Statuses, Terminal, controls, answers, budget
<1>4. Apart(p)
  BY <1>1 DEF Local, Apart, Controlled, Boundary, At, Goto, Checkpoint, Statuses, Terminal, controls, answers, budget
<1>5. /\ on'[p] = on[p] /\ save'[p] = "find" /\ pc[p] \in {"start", "turn"}
      /\ \/ pc'[p] = "ending" /\ copy'[p] = "CANCELLED"
         \/ pc'[p] = "pausing" /\ copy'[p] = "PAUSED" 
  BY <1>1 DEF Local, Controlled, Boundary, At, Goto, Checkpoint, Statuses, Terminal, controls, answers, budget
<1>6. Fits(p)'
  BY <1>1, <1>5 DEF Fits, Paused, Over, Points, Operations, HasRecord, Recorded, Controlled, Boundary, At, Goto, Checkpoint, Statuses, Terminal, controls, answers, budget
<1>7. UNCHANGED <<records, accepted, lost>>
  BY DEF Controlled, Boundary, At, Goto, Checkpoint, Statuses, Terminal, controls, answers, budget
<1> QED  BY <1>2, <1>3, <1>4, <1>6, <1>7, QuietStep DEF Procs


LEMMA BatchStep ==
  ASSUME IInv, NEW p \in Procs, RunBatch(p)
  PROVE  IInv'
PROOF
<1>1. /\ Local /\ Shared /\ Fits(p)
      /\ on[p] \in Workflows /\ copy[p] \in Statuses /\ found[p] \in Nat /\ step[p] \in Nat
      /\ pc[p] \in Points \cup Operations /\ save[p] \in {"no", "find", "store", "state"}
  BY Before DEF Procs
<1>2. Local'
  BY <1>1 DEF Local, RunBatch, Boundary, At, Goto, Checkpoint, Statuses, controls, answers, budget, Points, Operations
<1>3. Shared'
  BY <1>1 DEF Shared, RunBatch, Boundary, At, Goto, Checkpoint, Statuses, controls, answers, budget
<1>4. Apart(p)
  BY <1>1 DEF Local, Apart, RunBatch, Boundary, At, Goto, Checkpoint, Statuses, controls, answers, budget
<1>5. /\ on'[p] = on[p] /\ save'[p] = "find" /\ pc[p] \in {"start", "turn"}
      /\ pc'[p] = "turn" 
  BY <1>1 DEF Local, RunBatch, Boundary, At, Goto, Checkpoint, Statuses, controls, answers, budget
<1>6. Fits(p)'
  BY <1>1, <1>5 DEF Fits, Paused, Over, Points, Operations, HasRecord, Recorded, RunBatch, Boundary, At, Goto, Checkpoint, Statuses, controls, answers, budget
<1>7. UNCHANGED <<records, accepted, lost>>
  BY DEF RunBatch, Boundary, At, Goto, Checkpoint, Statuses, controls, answers, budget
<1> QED  BY <1>2, <1>3, <1>4, <1>6, <1>7, QuietStep DEF Procs


LEMMA FinishStep ==
  ASSUME IInv, NEW p \in Procs, Finish(p)
  PROVE  IInv'
PROOF
<1>1. /\ Local /\ Shared /\ Fits(p)
      /\ on[p] \in Workflows /\ copy[p] \in Statuses /\ found[p] \in Nat /\ step[p] \in Nat
      /\ pc[p] \in Points \cup Operations /\ save[p] \in {"no", "find", "store", "state"}
  BY Before DEF Procs
<1>2. Local'
  BY <1>1, OrchestrationAssumption DEF Local, Finish, Boundary, At, Goto, Checkpoint, Statuses, Terminal, controls, answers, budget, Points, Operations
<1>3. Shared'
  BY <1>1, OrchestrationAssumption DEF Shared, Finish, Boundary, At, Goto, Checkpoint, Statuses, Terminal, controls, answers, budget
<1>4. Apart(p)
  BY <1>1 DEF Local, Apart, Finish, Boundary, At, Goto, Checkpoint, Statuses, Terminal, controls, answers, budget
<1>5. /\ on'[p] = on[p] /\ save'[p] = "find" /\ pc[p] \in {"start", "turn"}
      /\ pc'[p] = "ending" /\ copy'[p] \in Terminal
  BY <1>1, OrchestrationAssumption DEF Local, Finish, Boundary, At, Goto, Checkpoint, Statuses, Terminal, controls, answers, budget
<1>6. Fits(p)'
  BY <1>1, <1>5, OrchestrationAssumption DEF Fits, Paused, Over, Points, Operations, HasRecord, Recorded, Finish, Boundary, At, Goto, Checkpoint, Statuses, Terminal, controls, answers, budget
<1>7. UNCHANGED <<records, accepted, lost>>
  BY DEF Finish, Boundary, At, Goto, Checkpoint, Statuses, Terminal, controls, answers, budget
<1> QED  BY <1>2, <1>3, <1>4, <1>6, <1>7, QuietStep DEF Procs


LEMMA WaitStep ==
  ASSUME IInv, NEW p \in Procs, Wait(p)
  PROVE  IInv'
PROOF
<1>1. /\ Local /\ Shared /\ Fits(p)
      /\ on[p] \in Workflows /\ copy[p] \in Statuses /\ found[p] \in Nat /\ step[p] \in Nat
      /\ pc[p] \in Points \cup Operations /\ save[p] \in {"no", "find", "store", "state"}
  BY Before DEF Procs
<1>2. Local'
  BY <1>1 DEF Local, Wait, At, Goto, controls, answers, budget, Points, Operations
<1>3. Shared'
  BY <1>1 DEF Shared, Wait, At, Goto, controls, answers, budget
<1>4. Apart(p)
  BY <1>1 DEF Local, Apart, Wait, At, Goto, controls, answers, budget
<1>5. /\ on'[p] = on[p] /\ save'[p] = "no" /\ pc[p] = "pausing" /\ pc'[p] = "waiting"
      /\ copy'[p] = copy[p]
  BY <1>1 DEF Local, Wait, At, Goto, controls, answers, budget
<1>6. Fits(p)'
  BY <1>1, <1>5 DEF Fits, Paused, Over, Points, Operations, HasRecord, Recorded, Wait, At, Goto, controls, answers, budget
<1>7. UNCHANGED <<records, accepted, lost>>
  BY DEF Wait, At, Goto, controls, answers, budget
<1> QED  BY <1>2, <1>3, <1>4, <1>6, <1>7, QuietStep DEF Procs


LEMMA WokenStep ==
  ASSUME IInv, NEW p \in Procs, Woken(p)
  PROVE  IInv'
PROOF
<1>1. /\ Local /\ Shared /\ Fits(p)
      /\ on[p] \in Workflows /\ copy[p] \in Statuses /\ found[p] \in Nat /\ step[p] \in Nat
      /\ pc[p] \in Points \cup Operations /\ save[p] \in {"no", "find", "store", "state"}
  BY Before DEF Procs
<1>2. Local'
  BY <1>1 DEF Local, Woken, At, Goto, Checkpoint, Statuses, controls, answers, budget, Points, Operations
<1>3. Shared'
  BY <1>1 DEF Shared, Woken, At, Goto, Checkpoint, Statuses, controls, answers, budget
<1>4. Apart(p)
  BY <1>1 DEF Local, Apart, Woken, At, Goto, Checkpoint, Statuses, controls, answers, budget
<1>5. /\ on'[p] = on[p] /\ pc[p] = "woken"
      /\ \/ pc'[p] = "ending" /\ save'[p] = "no" /\ copy'[p] = copy[p]
         \/ pc'[p] = "turn" /\ save'[p] = "find" 
  BY <1>1 DEF Local, Woken, At, Goto, Checkpoint, Statuses, controls, answers, budget
<1>6. Fits(p)'
  BY <1>1, <1>5 DEF Fits, Paused, Over, Points, Operations, HasRecord, Recorded, Woken, At, Goto, Checkpoint, Statuses, controls, answers, budget
<1>7. UNCHANGED <<records, accepted, lost>>
  BY DEF Woken, At, Goto, Checkpoint, Statuses, controls, answers, budget
<1> QED  BY <1>2, <1>3, <1>4, <1>6, <1>7, QuietStep DEF Procs


LEMMA EndStep ==
  ASSUME IInv, NEW p \in Procs, End(p)
  PROVE  IInv'
PROOF
<1>1. /\ Local /\ Shared /\ Fits(p)
      /\ on[p] \in Workflows /\ copy[p] \in Statuses /\ found[p] \in Nat /\ step[p] \in Nat
      /\ pc[p] \in Points \cup Operations /\ save[p] \in {"no", "find", "store", "state"}
  BY Before DEF Procs
<1>2. Local'
  BY <1>1, OrchestrationAssumption DEF Local, End, At, Goto, controls, answers, budget, Points, Operations
<1>3. Shared'
  BY <1>1, OrchestrationAssumption DEF Shared, End, At, Goto, controls, answers, budget
<1>4. Apart(p)
  BY <1>1 DEF Local, Apart, End, At, Goto, controls, answers, budget
<1>5. /\ on'[p] = on[p] /\ save'[p] = "no" /\ pc[p] = "ending" /\ copy'[p] = copy[p]
      /\ pc'[p] \in {"learning", "idle"}
  BY <1>1, OrchestrationAssumption DEF Local, End, At, Goto, controls, answers, budget
<1>6. Fits(p)'
  BY <1>1, <1>5, OrchestrationAssumption DEF Fits, Paused, Over, Points, Operations, HasRecord, Recorded, End, At, Goto, controls, answers, budget
<1>7. UNCHANGED <<records, accepted, lost>>
  BY DEF End, At, Goto, controls, answers, budget
<1> QED  BY <1>2, <1>3, <1>4, <1>6, <1>7, QuietStep DEF Procs


LEMMA SubmitStep ==
  ASSUME IInv, NEW p \in Workflows, Submit(p)
  PROVE  IInv'
PROOF
<1>1. /\ Local /\ Shared /\ Fits(p)
      /\ on[p] \in Workflows /\ copy[p] \in Statuses /\ found[p] \in Nat /\ step[p] \in Nat
      /\ pc[p] \in Points \cup Operations /\ save[p] \in {"no", "find", "store", "state"}
  BY Before DEF Procs
<1>2. Local'
  BY <1>1 DEF Local, Submit, Procs, At, Goto, Checkpoint, Statuses, controls, answers, budget, Points, Operations
<1>3. Shared'
  BY <1>1 DEF Shared, Submit, Procs, At, Goto, Checkpoint, Statuses, controls, answers, budget
<1>4. Apart(p)
  BY <1>1 DEF Local, Apart, Submit, Procs, At, Goto, Checkpoint, Statuses, controls, answers, budget
<1>5. /\ on'[p] = on[p] /\ save'[p] = "find" /\ pc[p] = "new"
      /\ pc'[p] = "seeded" 
  BY <1>1 DEF Local, Submit, Procs, At, Goto, Checkpoint, Statuses, controls, answers, budget
<1>6. Fits(p)'
  BY <1>1, <1>5 DEF Fits, Paused, Over, Points, Operations, HasRecord, Recorded, Submit, Procs, At, Goto, Checkpoint, Statuses, controls, answers, budget
<1>7. UNCHANGED <<records, accepted, lost>>
  BY DEF Submit, Procs, At, Goto, Checkpoint, Statuses, controls, answers, budget
<1> QED  BY <1>2, <1>3, <1>4, <1>6, <1>7, QuietStep DEF Procs


LEMMA PlannedStep ==
  ASSUME IInv, NEW p \in Workflows, Planned(p)
  PROVE  IInv'
PROOF
<1>1. /\ Local /\ Shared /\ Fits(p)
      /\ on[p] \in Workflows /\ copy[p] \in Statuses /\ found[p] \in Nat /\ step[p] \in Nat
      /\ pc[p] \in Points \cup Operations /\ save[p] \in {"no", "find", "store", "state"}
  BY Before DEF Procs
<1>2. Local'
  BY <1>1, OrchestrationAssumption DEF Local, Planned, Procs, Execute, At, Goto, Checkpoint, Statuses, controls, answers, budget, Points, Operations
<1>3. Shared'
  BY <1>1, OrchestrationAssumption DEF Shared, Planned, Procs, Execute, At, Goto, Checkpoint, Statuses, controls, answers, budget
<1>4. Apart(p)
  BY <1>1 DEF Local, Apart, Planned, Procs, Execute, At, Goto, Checkpoint, Statuses, controls, answers, budget
<1>5. /\ on'[p] = on[p] /\ save'[p] = "find" /\ pc[p] = "planning"
      /\ pc'[p] = "start" 
  BY <1>1, OrchestrationAssumption DEF Local, Planned, Procs, Execute, At, Goto, Checkpoint, Statuses, controls, answers, budget
<1>6. Fits(p)'
  BY <1>1, <1>5, OrchestrationAssumption DEF Fits, Paused, Over, Points, Operations, HasRecord, Recorded, Planned, Procs, Execute, At, Goto, Checkpoint, Statuses, controls, answers, budget
<1>7. UNCHANGED <<records, accepted, lost>>
  BY DEF Planned, Procs, Execute, At, Goto, Checkpoint, Statuses, controls, answers, budget
<1> QED  BY <1>2, <1>3, <1>4, <1>6, <1>7, QuietStep DEF Procs


LEMMA UnplannedStep ==
  ASSUME IInv, NEW p \in Workflows, PlanningFails(p)
  PROVE  IInv'
PROOF
<1>1. /\ Local /\ Shared /\ Fits(p)
      /\ on[p] \in Workflows /\ copy[p] \in Statuses /\ found[p] \in Nat /\ step[p] \in Nat
      /\ pc[p] \in Points \cup Operations /\ save[p] \in {"no", "find", "store", "state"}
  BY Before DEF Procs
<1>2. Local'
  BY <1>1 DEF Local, PlanningFails, Procs, At, Goto, controls, answers, budget, Points, Operations
<1>3. Shared'
  BY <1>1 DEF Shared, PlanningFails, Procs, At, Goto, controls, answers, budget
<1>4. Apart(p)
  BY <1>1 DEF Local, Apart, PlanningFails, Procs, At, Goto, controls, answers, budget
<1>5. /\ on'[p] = on[p] /\ save'[p] = "no" /\ pc[p] = "planning"
      /\ pc'[p] = "idle" 
  BY <1>1 DEF Local, PlanningFails, Procs, At, Goto, controls, answers, budget
<1>6. Fits(p)'
  BY <1>1, <1>5 DEF Fits, Paused, Over, Points, Operations, HasRecord, Recorded, PlanningFails, Procs, At, Goto, controls, answers, budget
<1>7. UNCHANGED <<records, accepted, lost>>
  BY DEF PlanningFails, Procs, At, Goto, controls, answers, budget
<1> QED  BY <1>2, <1>3, <1>4, <1>6, <1>7, QuietStep DEF Procs


LEMMA LearnedStep ==
  ASSUME IInv, NEW p \in Workflows, Learned(p)
  PROVE  IInv'
PROOF
<1>1. /\ Local /\ Shared /\ Fits(p)
      /\ on[p] \in Workflows /\ copy[p] \in Statuses /\ found[p] \in Nat /\ step[p] \in Nat
      /\ pc[p] \in Points \cup Operations /\ save[p] \in {"no", "find", "store", "state"}
  BY Before DEF Procs
<1>2. Local'
  BY <1>1 DEF Local, Learned, Procs, At, Goto, controls, answers, budget, Points, Operations
<1>3. Shared'
  <2>1. faults' \in 0..MaxFaults
    <3>1. faults' = faults \/ (faults > 0 /\ faults' = faults - 1)
      BY DEF Learned
    <3> QED  BY <1>1, <3>1, FaultSpent DEF Shared
  <2>2. UNCHANGED <<state, history, active, cancels, pauses, accepted, lost, calls>>
    BY DEF Learned, controls, answers
  <2> QED  BY <1>1, <2>1, <2>2 DEF Shared
<1>4. Apart(p)
  BY <1>1 DEF Local, Apart, Learned, Procs, At, Goto, controls, answers, budget
<1>5. /\ on'[p] = on[p] /\ save'[p] = "no" /\ pc[p] = "learning" /\ copy'[p] = copy[p]
      /\ pc'[p] = "remember" 
  BY <1>1 DEF Local, Learned, Procs, At, Goto, controls, answers, budget
<1>6. Fits(p)'
  BY <1>1, <1>5 DEF Fits, Paused, Over, Points, Operations, HasRecord, Recorded, Learned, Procs, At, Goto, controls, answers, budget
<1>7. UNCHANGED <<records, accepted, lost>>
  BY DEF Learned, Procs, At, Goto, controls, answers, budget
<1> QED  BY <1>2, <1>3, <1>4, <1>6, <1>7, QuietStep DEF Procs


LEMMA RememberStep ==
  ASSUME IInv, NEW p \in Workflows, Remember(p)
  PROVE  IInv'
PROOF
<1>1. /\ Local /\ Shared /\ Fits(p)
      /\ on[p] \in Workflows /\ copy[p] \in Statuses /\ found[p] \in Nat /\ step[p] \in Nat
      /\ pc[p] \in Points \cup Operations /\ save[p] \in {"no", "find", "store", "state"}
  BY Before DEF Procs
<1>0. copy[p] \in Terminal \cup {"PAUSED"}
  BY <1>1 DEF Remember, At, Fits, Over
<1>2. Local'
  BY <1>1, <1>0 DEF Local, Remember, Procs, At, Goto, controls, answers, budget, Points, Operations
<1>3. Shared'
  <2>1. faults' \in 0..MaxFaults
    <3>1. faults' = faults \/ (faults > 0 /\ faults' = faults - 1)
      BY DEF Remember
    <3> QED  BY <1>1, <3>1, FaultSpent DEF Shared
  <2>2. history' \in [Workflows -> Terminal \cup {"PAUSED", Missing}]
    BY <1>0, <1>1 DEF Shared, Remember
  <2>3. UNCHANGED <<state, active, cancels, pauses, accepted, lost, calls>>
    BY DEF Remember, controls
  <2> QED  BY <1>1, <2>1, <2>2, <2>3 DEF Shared
<1>4. Apart(p)
  BY <1>1 DEF Local, Apart, Remember, Procs, At, Goto, controls, answers, budget
<1>5. /\ on'[p] = on[p] /\ save'[p] = "no" /\ pc[p] = "remember" /\ copy'[p] = copy[p]
      /\ pc'[p] = "idle" 
  BY <1>1, <1>0 DEF Local, Remember, Procs, At, Goto, controls, answers, budget
<1>6. Fits(p)'
  BY <1>1, <1>5, <1>0 DEF Fits, Paused, Over, Points, Operations, HasRecord, Recorded, Remember, Procs, At, Goto, controls, answers, budget
<1>7. UNCHANGED <<records, accepted, lost>>
  BY DEF Remember, Procs, At, Goto, controls, answers, budget
<1> QED  BY <1>2, <1>3, <1>4, <1>6, <1>7, QuietStep DEF Procs


-----------------------------------------------------------------------------
(* The steps that store a record                                           *)

LEMMA RecordStep ==
  ASSUME IInv, NEW p \in Procs, Apart(p), UNCHANGED <<accepted, lost>>, Orderly',
         \A v \in Workflows : HasRecord(v) => HasRecord(v)',
         \A v \in Workflows : v # p /\ HasRecord(v)' => HasRecord(v),
         \A v \in Workflows, id \in Nat : Recorded(id, v) => Recorded(id, v)',
         Local', Shared', Fits(p)'
  PROVE  IInv'
PROOF
<1>1. accepted \subseteq accepted' /\ (\A v \in accepted' : v # p => v \in accepted)
  OBVIOUS
<1>2. \A q \in Procs \ {p} : Fits(q)'
  BY <1>1, OthersFit
<1>3. OrchestrationTypeOK' /\ Identified' /\ OneRecord'
  BY DEF OrchestrationTypeOK, Local, Shared, Orderly
<1>4. AcceptedRecorded' /\ AcceptedFindable'
  <2>1. accepted \subseteq Workflows /\ AcceptedRecorded /\ lost = {}
    BY Before DEF IInv, Shared, AcceptedFindable
  <2>2. \A v \in accepted : HasRecord(v)'
    BY <2>1 DEF AcceptedRecorded
  <2> QED  BY <2>1, <2>2 DEF AcceptedRecorded, AcceptedFindable
<1> QED  BY <1>2, <1>3, <1>4 DEF IInv

LEMMA StoreStep ==
  ASSUME IInv, NEW p \in Procs, Store(p)
  PROVE  IInv'
PROOF
<1>1. /\ Local /\ Shared /\ Fits(p)
      /\ on[p] \in Workflows /\ copy[p] \in Statuses /\ found[p] \in Nat /\ step[p] \in Nat
      /\ pc[p] \in Points \cup Operations /\ save[p] \in {"no", "find", "store", "state"}
  BY Before
<1>2. PICK a \in Workflows, f \in Nat, c \in Statuses : a = on[p] /\ f = found[p] /\ c = copy[p]
  BY <1>1
<1>3. Orderly
  BY InvOrderly
<1>4. save[p] = "store" /\ records' = IF f = 0 THEN Created([id |-> NewId, of |-> a, status |-> c])
                                      ELSE Rewritten(f, c)
  BY <1>2 DEF Store
<1>5. /\ Orderly' /\ HasRecord(a)'
      /\ \A v \in Workflows : HasRecord(v) => HasRecord(v)'
      /\ \A v \in Workflows : v # p /\ HasRecord(v)' => HasRecord(v)
      /\ \A v \in Workflows, id \in Nat : Recorded(id, v) => Recorded(id, v)'
  <2>1. CASE f = 0
    <3>1. ~HasRecord(a)
      BY <1>1, <1>2, <1>4, <2>1 DEF Fits, HasRecord
    <3>2. a = p
      BY <1>1, <1>2, <1>4, <2>1 DEF Fits
    <3>3. records' = Created([id |-> NewId, of |-> a, status |-> c])
      BY <1>4, <2>1
    <3>4. /\ Orderly' /\ HasRecord(a)'
          /\ \A v \in Workflows : v # a => (HasRecord(v)' <=> HasRecord(v))
          /\ \A v \in Workflows, id \in Nat : Recorded(id, v) => Recorded(id, v)'
      BY <1>3, <3>1, <3>3, SnapshotCreated
    <3> QED  BY <3>1, <3>2, <3>4
  <2>2. CASE f # 0
    <3>1. Recorded(f, a)
      BY <1>1, <1>2, <1>4, <2>2 DEF Fits, Recorded
    <3>2. records' = Rewritten(f, c) /\ f \in Nat \ {0}
      BY <1>4, <2>2
    <3>3. /\ Orderly' /\ (\A v \in Workflows : HasRecord(v)' <=> HasRecord(v))
          /\ \A v \in Workflows, n \in Nat : Recorded(n, v)' <=> Recorded(n, v)
      BY <1>3, <3>1, <3>2, SnapshotRewritten
    <3>4. HasRecord(a)
      BY <3>1 DEF HasRecord, Recorded
    <3> QED  BY <3>3, <3>4
  <2> QED  BY <2>1, <2>2
<1>6. Local'
  BY <1>1 DEF Local, Store
<1>7. Shared'
  BY <1>1 DEF Shared, Store, controls, answers, budget
<1>8. Apart(p)
  BY <1>1 DEF Local, Apart, Store
<1>9. Fits(p)'
  <2>1. /\ pc'[p] = pc[p] /\ save'[p] = "state" /\ on'[p] = a /\ copy'[p] = copy[p]
        /\ accepted' = accepted
    BY <1>1, <1>2 DEF Local, Store, answers
  <2>2. /\ p \in Workflows => a = p
        /\ pc[p] \in {"new", "seeded"} => p \in Workflows /\ p \notin accepted
        /\ pc[p] # "new" /\ pc[p] \notin Operations
        /\ pc[p] \notin {"new", "seeded"} => a \in accepted
        /\ pc[p] \in Paused => copy[p] = "PAUSED"
        /\ pc[p] \in Over => copy[p] \in Terminal \cup {"PAUSED"}
    BY <1>1, <1>2, <1>4 DEF Fits
  <2>3. pc[p] = "seeded" => \E i \in DOMAIN records' : records'[i].of = p
    BY <1>5, <2>2 DEF HasRecord
  <2> QED  BY <2>1, <2>2, <2>3 DEF Fits, Paused, Over, HasRecord, Recorded
<1>10. UNCHANGED <<accepted, lost>>
  BY DEF Store, answers
<1> QED  BY <1>5, <1>6, <1>7, <1>8, <1>9, <1>10, RecordStep

LEMMA LearnStep ==
  ASSUME IInv, NEW p \in Workflows, Learn(p)
  PROVE  IInv'
PROOF
<1>1. /\ Local /\ Shared /\ Fits(p)
      /\ on[p] \in Workflows /\ copy[p] \in Statuses /\ found[p] \in Nat /\ step[p] \in Nat
      /\ pc[p] \in Points \cup Operations /\ save[p] \in {"no", "find", "store", "state"}
  BY Before DEF Procs
<1>2. /\ Orderly' /\ (\A w \in Workflows : HasRecord(w)' <=> HasRecord(w))
      /\ \A w \in Workflows, id \in Nat : Recorded(id, w)' <=> Recorded(id, w)
  <2>1. Orderly /\ records' = Created(Metric)
    BY InvOrderly DEF Learn
  <2> QED  BY <2>1, MetricStored
<1>3. Local'
  <2>1. step[p] - 1 \in Nat
    BY <1>1 DEF Learn
  <2> QED  BY <1>1, <2>1 DEF Local, Learn
<1>4. Shared'
  BY <1>1 DEF Shared, Learn, controls, answers, budget
<1>5. Apart(p)
  BY DEF Apart, Learn
<1>6. Fits(p)'
  <2>1. /\ pc[p] = "learning" /\ pc'[p] = pc[p] /\ save'[p] = "no" /\ on'[p] = on[p]
        /\ copy'[p] = copy[p] /\ accepted' = accepted
    BY DEF Learn, At, answers
  <2>2. /\ p \in Workflows => on[p] = p
        /\ on[p] \in accepted /\ copy[p] \in Terminal \cup {"PAUSED"}
    BY <1>1, <2>1 DEF Fits, Over
  <2> QED  BY <2>1, <2>2 DEF Fits, Paused, Over, Operations, HasRecord, Recorded
<1>7. UNCHANGED <<accepted, lost>>
  BY DEF Learn, answers
<1> QED  BY <1>2, <1>3, <1>4, <1>5, <1>6, <1>7, RecordStep DEF Procs

-----------------------------------------------------------------------------
(* The steps that change the answers                                       *)

LEMMA AcceptStep ==
  ASSUME IInv, NEW p \in Workflows, Accept(p)
  PROVE  IInv'
PROOF
<1>1. /\ Local /\ Shared /\ Fits(p)
      /\ on[p] \in Workflows /\ copy[p] \in Statuses /\ found[p] \in Nat /\ step[p] \in Nat
      /\ pc[p] \in Points \cup Operations /\ save[p] \in {"no", "find", "store", "state"}
  BY Before DEF Procs
<1>2. Local'
  BY <1>1 DEF Local, Accept, At, Goto, Points, Procs
<1>3. Shared'
  BY <1>1 DEF Shared, Accept, controls, budget
<1>4. Apart(p)
  BY <1>1 DEF Apart, Local, Accept, Goto
<1>5. /\ pc[p] = "seeded" /\ save[p] = "no" /\ pc'[p] = "planning" /\ save'[p] = "no"
      /\ on'[p] = on[p] /\ on[p] = p /\ accepted' = accepted \cup {p} /\ records' = records
      /\ lost' = lost
  BY <1>1 DEF Local, Accept, At, Goto, Procs, Fits
<1>6. Fits(p)'
  BY <1>5 DEF Fits, Paused, Over, Operations, HasRecord, Recorded
<1>7. HasRecord(p)
  BY <1>1, <1>5 DEF Fits
<1>8. /\ \A v \in Workflows : HasRecord(v)' <=> HasRecord(v)
      /\ \A v \in Workflows, id \in Nat : Recorded(id, v)' <=> Recorded(id, v)
  BY <1>5 DEF HasRecord, Recorded
<1>9. \A q \in Procs \ {p} : Fits(q)'
  <2>1. accepted \subseteq accepted' /\ (\A v \in accepted' : v # p => v \in accepted)
    BY <1>5
  <2> QED  BY <1>4, <1>8, <2>1, OthersFit DEF Procs
<1>10. Orderly'
  <2>1. Orderly
    BY InvOrderly
  <2> QED  BY <1>5, <2>1 DEF Orderly, Identified, OneRecord
<1>11. AcceptedRecorded' /\ AcceptedFindable'
  <2>1. accepted \subseteq Workflows /\ AcceptedRecorded /\ lost = {}
    BY <1>1 DEF IInv, Shared, AcceptedFindable
  <2>2. \A v \in accepted \cup {p} : HasRecord(v)'
    BY <1>7, <1>8, <2>1 DEF AcceptedRecorded
  <2> QED  BY <1>5, <2>1, <2>2 DEF AcceptedRecorded, AcceptedFindable
<1>12. OrchestrationTypeOK' /\ Identified' /\ OneRecord'
  BY <1>2, <1>3, <1>10 DEF OrchestrationTypeOK, Local, Shared, Orderly
<1> QED  BY <1>6, <1>9, <1>11, <1>12 DEF IInv

\* Of a workflow that was accepted the call finds a snapshot, whatever it reads it from.
LEMMA LoadedStep ==
  ASSUME IInv, NEW c \in Callers, NEW op \in Operations, NEW w \in accepted,
         NEW status \in Statuses, Loaded(c, op, w, status), save[c] = "no",
         on' = [on EXCEPT ![c] = w],
         UNCHANGED <<found, records, state, accepted, history>>,
         calls' \in 0..MaxCalls, faults' = faults
  PROVE  IInv'
PROOF
<1>1. /\ Local /\ Shared /\ Fits(c)
      /\ on[c] \in Workflows /\ copy[c] \in Statuses /\ found[c] \in Nat /\ step[c] \in Nat
      /\ pc[c] \in Points \cup Operations /\ save[c] \in {"no", "find", "store", "state"}
  BY Before DEF Procs
<1>2. w \in Workflows /\ c \in Procs /\ c \notin Workflows /\ status # Missing
  BY <1>1, OrchestrationAssumption DEF Shared, Procs, Statuses, Terminal, Missing
<1>3. /\ \E a \in {"idle", "start"}, wakes \in BOOLEAN : Moved(c, a, w, wakes)
      /\ (UNCHANGED <<save, copy>> \/ \E s \in Statuses : Checkpoint(c, s))
      /\ pc'[c] = "start" => save'[c] = "find"
      /\ step' = step \/ step' = [step EXCEPT ![c] = Batches]
      /\ active' = active \/ active' = [active EXCEPT ![w] = c]
      /\ cancels' \in {cancels, cancels \cup {w}, cancels \ {w}}
      /\ pauses' \in {pauses, pauses \cup {w}, pauses \ {w}}
      /\ lost' = lost
  <2>1. CASE /\ op \in {"get", "pause"} /\ Moved(c, "idle", w, FALSE) /\ Requested(w, op)
             /\ UNCHANGED <<save, copy, step, active, lost>>
    BY <1>1, <1>2, <2>1 DEF Moved, Requested
  <2>2. CASE /\ op = "cancel" /\ Moved(c, "idle", w, TRUE) /\ Requested(w, op)
             /\ Checkpoint(c, "CANCEL_REQUESTED") /\ UNCHANGED <<step, active, lost>>
    BY <1>1, <1>2, <2>2 DEF Moved, Requested, Statuses
  <2>3. CASE /\ op = "resume" /\ Moved(c, "idle", w, FALSE)
             /\ UNCHANGED <<save, copy, step, active, lost, controls>>
    BY <1>1, <1>2, <2>3 DEF Moved, controls
  <2>4. CASE /\ op = "resume" /\ cancels' = cancels \ {w} /\ pauses' = pauses \ {w}
             /\ Moved(c, "start", w, TRUE) /\ Execute(c, w) /\ UNCHANGED lost
    BY <1>1, <1>2, <2>4 DEF Moved, Execute, Checkpoint, Statuses, Local
  <2> QED  BY <1>2, <2>1, <2>2, <2>3, <2>4 DEF Loaded
<1>4. PICK a \in {"idle", "start"}, wakes \in BOOLEAN : Moved(c, a, w, wakes)
  BY <1>3
<1>5. /\ pc' \in [Procs -> Points \cup Operations] /\ pc'[c] = a
      /\ \A q \in Procs \ {c} : pc'[q] = pc[q] \/ (pc[q] = "waiting" /\ pc'[q] = "woken")
  BY <1>1, <1>2, <1>4 DEF Moved, Local, Points
<1>6. /\ save' \in [Procs -> {"no", "find", "store", "state"}] /\ copy' \in [Procs -> Statuses]
      /\ \A q \in Procs \ {c} : save'[q] = save[q] /\ copy'[q] = copy[q]
      /\ save'[c] = save[c] \/ save'[c] = "find"
  BY <1>1, <1>2, <1>3 DEF Local, Checkpoint
<1>7. Local'
  BY <1>1, <1>2, <1>3, <1>5, <1>6, OrchestrationAssumption DEF Local
<1>8. Shared'
  BY <1>1, <1>2, <1>3 DEF Shared
<1>9. Apart(c)
  BY <1>1, <1>2, <1>5, <1>6 DEF Apart, Local
<1>10. Fits(c)'
  <2>1. on'[c] = w /\ found'[c] = found[c] /\ pc'[c] \in {"idle", "start"}
    BY <1>1, <1>2, <1>5 DEF Local
  <2>2. save'[c] # "store"
    BY <1>6
  <2> QED  BY <1>2, <1>3, <1>5, <1>6, <2>1, <2>2 DEF Fits, Paused, Over, Operations, HasRecord, Recorded
<1>11. UNCHANGED <<records, accepted, lost>>
  BY <1>3
<1> QED  BY <1>2, <1>7, <1>8, <1>9, <1>10, <1>11, QuietStep


LEMMA CallStep ==
  ASSUME IInv, Small, NEW c \in Callers, NEW op \in Operations, NEW w \in Workflows, Call(c, op, w)
  PROVE  IInv'
PROOF
<1>1. /\ Local /\ Shared /\ Fits(c)
      /\ on[c] \in Workflows /\ copy[c] \in Statuses /\ found[c] \in Nat /\ step[c] \in Nat
      /\ pc[c] \in Points \cup Operations /\ save[c] \in {"no", "find", "store", "state"}
  BY Before DEF Procs
<1>2. /\ w \in accepted /\ save[c] = "no" /\ on' = [on EXCEPT ![c] = w]
      /\ UNCHANGED <<found, records, state, accepted, history>> /\ faults' = faults
  BY DEF Call, At
<1>3. calls' \in 0..MaxCalls
  BY <1>1, OrchestrationAssumption DEF Shared, Call
<1>4. CASE active[w] # None /\ Loaded(c, op, w, copy[active[w]])
  <2>1. copy[active[w]] \in Statuses
    BY <1>1, <1>4 DEF Local, Shared
  <2> QED  BY <1>2, <1>3, <1>4, <2>1, LoadedStep
<1>5. CASE /\ Moved(c, op, w, op = "cancel") /\ Requested(w, op)
           /\ UNCHANGED <<save, copy, step, active, lost>>
  <2>1. c \in Procs /\ c \notin Workflows
    BY OrchestrationAssumption DEF Procs
  <2>2. /\ pc' \in [Procs -> Points \cup Operations] /\ pc'[c] = op
        /\ \A q \in Procs \ {c} : pc'[q] = pc[q] \/ (pc[q] = "waiting" /\ pc'[q] = "woken")
    BY <1>1, <1>5, <2>1 DEF Moved, Local, Points
  <2>3. Local'
    BY <1>1, <1>2, <1>5, <2>1, <2>2 DEF Local
  <2>4. Shared'
    BY <1>1, <1>2, <1>3, <1>5 DEF Shared, Requested
  <2>5. Apart(c)
    BY <1>1, <1>2, <1>5, <2>1, <2>2 DEF Apart, Local
  <2>6. Fits(c)'
    <3>1. on'[c] = w /\ save'[c] = "no" /\ accepted' = accepted
      BY <1>1, <1>2, <1>5, <2>1 DEF Local
    <3> QED  BY <1>2, <2>1, <2>2, <3>1 DEF Fits, Paused, Over, Operations, HasRecord, Recorded
  <2> QED  BY <1>2, <1>5, <2>1, <2>3, <2>4, <2>5, <2>6, QuietStep
<1> QED  BY <1>4, <1>5 DEF Call

LEMMA ReadStep ==
  ASSUME IInv, Small, NEW c \in Callers, Read(c)
  PROVE  IInv'
PROOF
<1>1. /\ Local /\ Shared /\ Fits(c)
      /\ on[c] \in Workflows /\ copy[c] \in Statuses /\ found[c] \in Nat /\ step[c] \in Nat
      /\ pc[c] \in Points \cup Operations /\ save[c] \in {"no", "find", "store", "state"}
  BY Before DEF Procs
<1>2. PICK w \in Workflows, op \in Operations : w = on[c] /\ op = pc[c]
  BY <1>1 DEF Read
<1>3. w \in accepted /\ save[c] = "no"
  BY <1>1, <1>2 DEF Fits, Operations
<1>4. Stored(w) \in Statuses
  <2>1. HasRecord(w) /\ Orderly
    BY <1>3, InvOrderly DEF IInv, AcceptedRecorded
  <2> QED  BY <2>1, SearchFinds
<1>5. PICK status \in Statuses : status = Stored(w)
  BY <1>4
<1>6. Loaded(c, op, w, status)
  BY <1>2, <1>5 DEF Read
<1>7. on' = [on EXCEPT ![c] = w]
  BY <1>1, <1>2 DEF Read, Local
<1>8. /\ UNCHANGED <<found, records, state, accepted, history>> /\ faults' = faults
      /\ calls' \in 0..MaxCalls
  BY <1>1 DEF Read, budget, Shared
<1> QED  BY <1>3, <1>6, <1>7, <1>8, LoadedStep

\* The record outlives the server, so an accepted workflow is found after it.
LEMMA CrashStep ==
  ASSUME IInv, Crash
  PROVE  IInv'
PROOF
<1>1. Local /\ Shared /\ Orderly /\ AcceptedRecorded /\ lost = {}
  BY InvOrderly DEF IInv, OrchestrationTypeOK, Local, Shared, AcceptedFindable
<1>2. Local'
  BY <1>1 DEF Local, Crash, Points, Statuses
<1>3. Shared'
  <2>1. faults' \in 0..MaxFaults
    BY <1>1, FaultSpent DEF Crash
  <2>2. state' \in [Workflows -> Statuses \cup {Missing}]
    BY <1>1 DEF Shared, Crash
  <2>3. active' \in [Workflows -> Procs \cup {None}] /\ cancels' = {} /\ pauses' = {}
    BY DEF Crash
  <2>4. UNCHANGED <<history, accepted, lost, calls>>
    BY DEF Crash, answers
  <2> QED  BY <1>1, <2>1, <2>2, <2>3, <2>4 DEF Shared
<1>4. UNCHANGED <<records, accepted, lost>>
  BY DEF Crash, answers
<1>5. ASSUME NEW q \in Procs
      PROVE  Fits(q)'
  <2>1. Fits(q)
    BY DEF IInv
  <2>2. /\ pc'[q] = "idle" \/ (pc[q] = "new" /\ pc'[q] = "new")
        /\ save'[q] = "no" /\ on'[q] = on[q]
    BY DEF Crash
  <2> QED  BY <1>4, <2>1, <2>2 DEF Fits, Paused, Over, Operations, HasRecord, Recorded
<1>6. Orderly'
  BY <1>1, <1>4 DEF Orderly, Identified, OneRecord
<1>7. OrchestrationTypeOK' /\ Identified' /\ OneRecord'
  BY <1>2, <1>3, <1>6 DEF OrchestrationTypeOK, Local, Shared, Orderly
<1>8. AcceptedRecorded' /\ AcceptedFindable'
  BY <1>1, <1>4 DEF AcceptedRecorded, AcceptedFindable, HasRecord
<1> QED  BY <1>5, <1>7, <1>8 DEF IInv

-----------------------------------------------------------------------------
(* The theorems                                                            *)

LEMMA InvInit == Init => IInv
PROOF
<1> SUFFICES ASSUME Init  PROVE IInv
  OBVIOUS
<1>1. Local
  BY DEF Init, Local, Points, Statuses
<1>2. Shared
  BY OrchestrationAssumption DEF Init, Shared
<1>3. records = <<>>
  BY DEF Init
<1>4. Orderly
  BY <1>3 DEF Orderly, Identified, OneRecord
<1>5. ASSUME NEW p \in Procs
      PROVE  Fits(p)
  <2>1. save[p] = "no" /\ (p \in Workflows => on[p] = p) /\ accepted = {}
    BY DEF Init
  <2>2. IF p \in Workflows THEN pc[p] = "new" ELSE pc[p] = "idle"
    BY DEF Init
  <2> QED  BY <2>1, <2>2 DEF Fits, Paused, Over, Operations
<1>6. OrchestrationTypeOK /\ Identified /\ OneRecord
  BY <1>1, <1>2, <1>4, TypesOf
<1>7. AcceptedRecorded /\ AcceptedFindable
  BY DEF Init, AcceptedRecorded, AcceptedFindable
<1> QED  BY <1>5, <1>6, <1>7 DEF IInv

LEMMA InvStep == IInv /\ Small /\ [Next]_vars => IInv'
PROOF
<1> SUFFICES ASSUME IInv, Small, [Next]_vars  PROVE IInv'
  OBVIOUS
<1>1. CASE UNCHANGED vars
  <2>1. UNCHANGED <<pc, save, on, copy, found, step, records, state, active, cancels,
                    pauses, accepted, history, lost, calls, faults>>
    BY <1>1 DEF vars
  <2>2. Local' /\ Shared'
    BY <2>1 DEF IInv, OrchestrationTypeOK, Local, Shared
  <2>3. Orderly' /\ AcceptedRecorded' /\ AcceptedFindable'
    <3>1. Orderly /\ AcceptedRecorded /\ AcceptedFindable
      BY InvOrderly DEF IInv
    <3> QED  BY <2>1, <3>1 DEF Orderly, Identified, OneRecord, AcceptedRecorded,
                               AcceptedFindable, HasRecord
  <2>4. \A p \in Procs : Fits(p)'
    BY <2>1 DEF IInv, Fits, HasRecord, Recorded
  <2>5. OrchestrationTypeOK' /\ Identified' /\ OneRecord'
    BY <2>2, <2>3 DEF OrchestrationTypeOK, Local, Shared, Orderly
  <2> QED  BY <2>3, <2>4, <2>5 DEF IInv
<1>2. ASSUME NEW p \in Procs, CheckpointStep(p) \/ StoreRaises(p)
      PROVE  IInv'
  BY <1>2, FindStep, StoreStep, FlushStep, RaiseStep DEF CheckpointStep
<1>3. ASSUME NEW p \in Procs, RunStep(p)
      PROVE  IInv'
  BY <1>3, ControlledStep, BatchStep, FinishStep, WaitStep, WokenStep, EndStep DEF RunStep
<1>4. ASSUME NEW w \in Workflows, TaskStep(w)
      PROVE  IInv'
  BY <1>4, AcceptStep, PlannedStep, UnplannedStep, LearnStep, LearnedStep, RememberStep DEF TaskStep
<1>5. ASSUME NEW p \in Procs, Step(p)
      PROVE  IInv'
  BY <1>2, <1>3, <1>4, <1>5, ReadStep DEF Step
<1>6. CASE \E w \in Workflows : Submit(w)
  BY <1>6, SubmitStep
<1>7. CASE \E c \in Callers, op \in Operations, w \in Workflows : Call(c, op, w)
  BY <1>7, CallStep
<1>8. CASE Crash
  BY <1>8, CrashStep
<1>9. CASE \E p \in Procs : Step(p) \/ StoreRaises(p)
  BY <1>2, <1>5, <1>9
<1> QED  BY <1>1, <1>6, <1>7, <1>8, <1>9 DEF Next

\* The inductive invariant holds as long as the lookups see every record of the category.
THEOREM Invariance == Spec /\ []Small => []IInv
BY InvInit, InvStep, PTL DEF Spec

\* Every coroutine stays at a point it can be resumed from, and a stored snapshot carries
\* a status of the engine.
THEOREM OrchestrationTypes == Spec /\ []Small => []OrchestrationTypeOK
<1>1. IInv => OrchestrationTypeOK
  BY DEF IInv
<1> QED  BY Invariance, <1>1, PTL

\* _checkpoint looks for the record and creates it in two transactions, yet a workflow
\* never has two: its seed is stored before anyone else knows its id.
THEOREM RecordsAreUnique == Spec /\ []Small => []OneRecord
<1>1. IInv => OneRecord
  BY DEF IInv
<1> QED  BY Invariance, <1>1, PTL

\* No call answers "not found" for an accepted workflow, whatever crashed or was torn.
THEOREM AcceptedIsFound == Spec /\ []Small => []AcceptedFindable
<1>1. IInv => AcceptedFindable
  BY DEF IInv
<1> QED  BY Invariance, <1>1, PTL

=============================================================================
