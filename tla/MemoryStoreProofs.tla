-------------------------- MODULE MemoryStoreProofs --------------------------
(***************************************************************************)
(* The lock of the memory store is held by the one create under way, and   *)
(* therefore no commit, of whichever operation, makes half a create        *)
(* durable.                                                                *)
(***************************************************************************)
EXTENDS MemoryStore, FiniteSetTheorems, TLAPS

Inside == {"check", "insert", "tag"}

\* The lock belongs to the coroutine that is inside create, once.
LockHeld ==
  \/ /\ lock = Unlocked
     /\ \A c \in Clients : pc[c] \notin Inside
  \/ \E o \in Clients :
       /\ lock = [owner |-> o, depth |-> 1]
       /\ pc[o] \in Inside
       /\ \A c \in Clients \ {o} : pc[c] \notin Inside

\* Only a create that is about to insert its tags has left a row without them.
UntaggedPending ==
  \A r \in live.rows \ live.tagged : \E c \in Clients : pc[c] = "tag" /\ Target(c) = r

\* There are finitely many versions to count.
VersionsFinite ==
  \A r \in Records : IsFiniteSet(live.versions[r]) /\ IsFiniteSet(durable.versions[r])

IInv == TypeOK /\ VersionsFinite /\ LockHeld /\ UntaggedPending /\ CreateAtomic

-----------------------------------------------------------------------------
(* Typed facts about the helpers                                           *)

\* A statement of a coroutine that does not hold the lock leaves it as it was.
LEMMA StatementBy ==
  ASSUME TypeOK, LockHeld, NEW c \in Clients, Statement(c), Nobody \notin Clients
  PROVE  /\ lock' = lock
         /\ pc[c] \notin Inside =>
              \A d \in Clients : pc[d] \notin Inside
PROOF
<1>1. CASE lock = Unlocked
  <2>1. Acquired(lock, c) = [owner |-> c, depth |-> 1]
    BY <1>1 DEF Acquired, Unlocked
  <2>2. lock' = Unlocked
    BY <2>1 DEF Statement, Released
  <2>3. \A d \in Clients : pc[d] \notin Inside
    BY <1>1 DEF LockHeld, Unlocked
  <2> QED  BY <1>1, <2>2, <2>3
<1>2. ASSUME NEW o \in Clients, lock = [owner |-> o, depth |-> 1],
             pc[o] \in Inside
      PROVE  lock' = lock /\ pc[c] \in Inside
  <2>1. c = o
    BY <1>2 DEF Statement, Available
  <2>2. Acquired(lock, c) = [owner |-> o, depth |-> 2]
    BY <1>2, <2>1 DEF Acquired
  <2>3. lock' = [owner |-> o, depth |-> 1]
    BY <2>2 DEF Statement, Released
  <2> QED  BY <1>2, <2>1, <2>3
<1> QED  BY <1>1, <1>2 DEF LockHeld

LEMMA HistoryNumber ==
  ASSUME NEW S, IsFiniteSet(S)
  PROVE  NextNumber(Cardinality(S)) \in Nat
PROOF
<1>1. Cardinality(S) \in Nat
  BY FS_CardinalityType
<1> QED  BY <1>1, StoreAssumption DEF NextNumber

\* A database keeps its type when one of its parts is replaced.
LEMMA DatabaseParts ==
  ASSUME NEW db \in Database, NEW r \in Records
  PROVE  /\ [db EXCEPT !.rows = @ \cup {r}] \in Database
         /\ [db EXCEPT !.tagged = @ \cup {r}] \in Database
         /\ \A t \in Content : [db EXCEPT !.content[r] = t] \in Database
         /\ \A v \in Version : [db EXCEPT !.versions[r] = @ \cup {v}] \in Database
PROOF
<1>1. ASSUME NEW t \in Content
      PROVE  [db EXCEPT !.content[r] = t] \in Database
  <2>1. [db.content EXCEPT ![r] = t] \in [Records -> Content]
    BY <1>1 DEF Database
  <2> QED  BY <2>1 DEF Database
<1>2. ASSUME NEW v \in Version
      PROVE  [db EXCEPT !.versions[r] = @ \cup {v}] \in Database
  <2>1. db.versions[r] \cup {v} \in SUBSET Version
    BY <1>2 DEF Database
  <2>2. [db.versions EXCEPT ![r] = db.versions[r] \cup {v}] \in [Records -> SUBSET Version]
    BY <2>1 DEF Database
  <2> QED  BY <2>2 DEF Database
<1> QED  BY <1>1, <1>2 DEF Database

-----------------------------------------------------------------------------
(* Moving one coroutine to another point                                   *)

\* A coroutine that goes from a point outside create to another, with the lock as it
\* was, disturbs neither the lock nor the rows that are pending.
LEMMA OutsideCreate ==
  ASSUME TypeOK, LockHeld, UntaggedPending, NEW c \in Clients,
         pc[c] \notin Inside, pc'[c] \notin Inside,
         \A d \in Clients \ {c} : pc'[d] = pc[d] /\ op'[d] = op[d],
         lock' = lock, live'.rows = live.rows, live'.tagged = live.tagged
  PROVE  LockHeld' /\ UntaggedPending'
PROOF
<1>1. LockHeld'
  BY DEF LockHeld, Inside, Unlocked
<1>2. UntaggedPending'
  BY DEF UntaggedPending, Target, Inside
<1> QED  BY <1>1, <1>2

-----------------------------------------------------------------------------
(* The invariant                                                           *)

LEMMA InitInvariant == Init => IInv
PROOF
<1> SUFFICES ASSUME Init PROVE IInv
  OBVIOUS
<1>1. TypeOK
  <2>1. InitialDatabase \in Database
    BY StoreAssumption DEF InitialDatabase, Database, Content, Version
  <2>2. (CHOOSE r \in Records : TRUE) \in Records
    BY StoreAssumption
  <2> QED  BY <2>1, <2>2 DEF Init, TypeOK, Unlocked, Kinds, Content
<1>2. VersionsFinite
  BY FS_EmptySet DEF Init, VersionsFinite, InitialDatabase
<1>3. LockHeld
  BY DEF Init, LockHeld, Inside
<1>4. UntaggedPending /\ CreateAtomic
  BY DEF Init, UntaggedPending, CreateAtomic, InitialDatabase
<1> QED  BY <1>1, <1>2, <1>3, <1>4 DEF IInv

LEMMA BeginStep ==
  ASSUME IInv, NEW c \in Clients, Begin(c)
  PROVE  IInv'
PROOF
<1> USE DEF IInv
<1>1. PICK kind \in Kinds, r \in Records :
        /\ op' = [op EXCEPT ![c].kind = kind, ![c].record = r]
        /\ Goto(c, IF kind = "create" THEN "enter" ELSE IF kind = "update" THEN "read" ELSE "find")
  BY DEF Begin
<1>2. TypeOK'
  <2>1. [op[c] EXCEPT !.kind = kind, !.record = r]
          \in [kind : Kinds, record : Records, seen : Content, number : Nat]
    BY DEF TypeOK
  <2>2. op' = [op EXCEPT ![c] = [op[c] EXCEPT !.kind = kind, !.record = r]]
    BY <1>1 DEF TypeOK
  <2>3. op' \in [Clients -> [kind : Kinds, record : Records, seen : Content, number : Nat]]
    BY <2>1, <2>2 DEF TypeOK
  <2>4. CASE pc' = [pc EXCEPT ![c] = "enter"]
    BY <1>1, <2>3, <2>4 DEF Begin, Goto, TypeOK
  <2>5. CASE pc' = [pc EXCEPT ![c] = "read"]
    BY <1>1, <2>3, <2>5 DEF Begin, Goto, TypeOK
  <2>6. CASE pc' = [pc EXCEPT ![c] = "find"]
    BY <1>1, <2>3, <2>6 DEF Begin, Goto, TypeOK
  <2> QED  BY <1>1, <2>4, <2>5, <2>6 DEF Goto
<1>3. LockHeld' /\ UntaggedPending'
  <2>1. pc[c] \notin Inside /\ pc'[c] \notin Inside
    BY <1>1 DEF Begin, Goto, TypeOK, Inside
  <2>2. \A d \in Clients \ {c} : pc'[d] = pc[d] /\ op'[d] = op[d]
    BY <1>1 DEF Goto, TypeOK
  <2> QED  BY <2>1, <2>2, OutsideCreate DEF Begin
<1>4. VersionsFinite' /\ CreateAtomic'
  BY DEF Begin, VersionsFinite, CreateAtomic
<1> QED  BY <1>2, <1>3, <1>4

LEMMA CreateEnteredStep ==
  ASSUME IInv, NEW c \in Clients, CreateEntered(c)
  PROVE  IInv'
PROOF
<1> USE DEF IInv
<1>1. lock = Unlocked /\ \A d \in Clients : pc[d] \notin Inside
  BY StoreAssumption DEF CreateEntered, Available, LockHeld, Inside
<1>2. lock' = [owner |-> c, depth |-> 1]
  BY <1>1 DEF CreateEntered, Acquired, Unlocked
<1>3. TypeOK'
  BY <1>2 DEF CreateEntered, Goto, TypeOK
<1>4. LockHeld'
  BY <1>1, <1>2 DEF CreateEntered, Goto, LockHeld, TypeOK, Inside
<1>5. UntaggedPending'
  BY DEF CreateEntered, Goto, UntaggedPending, Target, TypeOK
<1>6. VersionsFinite' /\ CreateAtomic'
  BY DEF CreateEntered, VersionsFinite, CreateAtomic
<1> QED  BY <1>3, <1>4, <1>5, <1>6

\* What LockHeld says of the coroutine that is inside create.
LEMMA Holder ==
  ASSUME LockHeld, NEW c \in Clients, pc[c] \in Inside
  PROVE  /\ lock = [owner |-> c, depth |-> 1]
         /\ \A d \in Clients \ {c} : pc[d] \notin Inside
         /\ Released(Released(Acquired(lock, c))) = Unlocked
PROOF
<1>1. lock = [owner |-> c, depth |-> 1] /\ \A d \in Clients \ {c} : pc[d] \notin Inside
  BY DEF LockHeld
<1>2. Acquired(lock, c) = [owner |-> c, depth |-> 2]
  BY <1>1 DEF Acquired
<1>3. Released(Acquired(lock, c)) = [owner |-> c, depth |-> 1]
  BY <1>2 DEF Released
<1> QED  BY <1>1, <1>3 DEF Released

LEMMA ExistenceCheckedStep ==
  ASSUME IInv, NEW c \in Clients, ExistenceChecked(c)
  PROVE  IInv'
PROOF
<1> USE DEF IInv
<1>1. pc[c] \in Inside
  BY DEF ExistenceChecked, Inside
<1>2. UntaggedPending' /\ VersionsFinite' /\ CreateAtomic'
  BY DEF ExistenceChecked, Goto, End, UntaggedPending, Target, VersionsFinite, CreateAtomic, TypeOK
<1>3. CASE Stored(c)
  <2>1. lock' = Unlocked
    BY <1>1, <1>3, Holder DEF ExistenceChecked
  <2>2. TypeOK'
    BY <1>3, <2>1 DEF ExistenceChecked, End, TypeOK, Unlocked
  <2>3. LockHeld'
    BY <1>1, <1>3, <2>1, Holder DEF ExistenceChecked, End, LockHeld, TypeOK, Inside
  <2> QED  BY <1>2, <2>2, <2>3
<1>4. CASE ~Stored(c)
  <2>1. Statement(c)
    BY <1>4 DEF ExistenceChecked
  <2>2. lock' = lock
    BY <2>1, StatementBy, StoreAssumption
  <2>3. TypeOK'
    BY <1>4, <2>2 DEF ExistenceChecked, Goto, TypeOK
  <2>4. LockHeld'
    BY <1>1, <1>4, <2>2, Holder DEF ExistenceChecked, Goto, LockHeld, TypeOK, Inside
  <2> QED  BY <1>2, <2>3, <2>4
<1> QED  BY <1>3, <1>4

LEMMA RowInsertedStep ==
  ASSUME IInv, NEW c \in Clients, RowInserted(c)
  PROVE  IInv'
PROOF
<1> USE DEF IInv
<1>1. pc[c] \in Inside /\ Target(c) \in Records
  BY DEF RowInserted, Inside, TypeOK, Target
<1>2. live' \in Database
  BY <1>1, DatabaseParts DEF RowInserted, TypeOK
<1>3. TypeOK'
  BY <1>2 DEF RowInserted, Goto, TypeOK
<1>4. /\ live'.rows = live.rows \cup {Target(c)} /\ live'.tagged = live.tagged
      /\ live'.versions = live.versions
  BY DEF RowInserted, TypeOK, Database
<1>5. VersionsFinite' /\ CreateAtomic'
  BY <1>4 DEF RowInserted, VersionsFinite, CreateAtomic
<1>6. LockHeld'
  BY <1>1, Holder DEF RowInserted, Goto, LockHeld, TypeOK, Inside
<1>7. UntaggedPending'
  <2>1. pc'[c] = "tag" /\ Target(c)' = Target(c)
    BY DEF RowInserted, Goto, TypeOK, Target
  <2>2. \A d \in Clients : pc[d] = "tag" => pc'[d] = "tag" /\ Target(d)' = Target(d)
    BY DEF RowInserted, Goto, TypeOK, Target
  <2>3. \A r \in live'.rows \ live'.tagged :
          r = Target(c) \/ \E d \in Clients : pc[d] = "tag" /\ Target(d) = r
    BY <1>4 DEF UntaggedPending
  <2> QED  BY <2>1, <2>2, <2>3 DEF UntaggedPending
<1> QED  BY <1>3, <1>5, <1>6, <1>7

LEMMA TagInsertedStep ==
  ASSUME IInv, NEW c \in Clients, TagInserted(c)
  PROVE  IInv'
PROOF
<1> USE DEF IInv
<1>1. pc[c] \in Inside /\ Target(c) \in Records
  BY DEF TagInserted, Inside, TypeOK, Target
<1>2. live' \in Database /\ durable' = live'
  BY <1>1, DatabaseParts DEF TagInserted, CommitOf, TypeOK
<1>3. lock' = Unlocked
  BY <1>1, Holder DEF TagInserted
<1>4. TypeOK'
  BY <1>2, <1>3 DEF TagInserted, End, TypeOK, Unlocked
<1>5. /\ live'.rows = live.rows /\ live'.tagged = live.tagged \cup {Target(c)}
      /\ live'.versions = live.versions
  BY DEF TagInserted, CommitOf, TypeOK, Database
<1>6. live.rows \subseteq live.tagged \cup {Target(c)}
  BY <1>1, Holder DEF UntaggedPending, Inside
<1>7. LockHeld'
  BY <1>1, <1>3, Holder DEF TagInserted, End, LockHeld, TypeOK, Inside
<1>8. UntaggedPending' /\ CreateAtomic' /\ VersionsFinite'
  BY <1>2, <1>5, <1>6 DEF UntaggedPending, CreateAtomic, VersionsFinite
<1> QED  BY <1>4, <1>7, <1>8

LEMMA RecordReadStep ==
  ASSUME IInv, NEW c \in Clients, RecordRead(c)
  PROVE  IInv'
PROOF
<1> USE DEF IInv
<1>1. lock' = lock
  BY StatementBy, StoreAssumption DEF RecordRead
<1>2. op' \in [Clients -> [kind : Kinds, record : Records, seen : Content, number : Nat]]
  <2>1. Target(c) \in Records /\ live.content[Target(c)] \in Content
    BY DEF TypeOK, Target, Database
  <2>2. [op[c] EXCEPT !.seen = live.content[Target(c)]]
          \in [kind : Kinds, record : Records, seen : Content, number : Nat]
    BY <2>1 DEF TypeOK
  <2>3. [op EXCEPT ![c] = [op[c] EXCEPT !.seen = live.content[Target(c)]]]
          \in [Clients -> [kind : Kinds, record : Records, seen : Content, number : Nat]]
    BY <2>2 DEF TypeOK
  <2> QED  BY <2>3 DEF RecordRead, TypeOK
<1>3. /\ pc' \in [Clients -> {"new", "enter", "check", "insert", "tag", "read", "write",
                             "history", "version", "find", "erase", "done"}]
      /\ outcome' \in [Clients -> {"none", "ok", "notFound", "exists", "failed", "crashed"}]
      /\ pc[c] \notin Inside /\ pc'[c] \notin Inside
      /\ \A d \in Clients \ {c} : pc'[d] = pc[d]
  BY DEF RecordRead, Goto, End, TypeOK, Inside
<1>4. \A d \in Clients \ {c} : op'[d] = op[d]
  BY DEF RecordRead, TypeOK
<1>5. LockHeld' /\ UntaggedPending'
  BY <1>1, <1>3, <1>4, OutsideCreate DEF RecordRead
<1>6. TypeOK'
  BY <1>1, <1>2, <1>3 DEF RecordRead, TypeOK
<1>7. VersionsFinite' /\ CreateAtomic'
  BY DEF RecordRead, VersionsFinite, CreateAtomic
<1> QED  BY <1>5, <1>6, <1>7

LEMMA RowUpdatedStep ==
  ASSUME IInv, NEW c \in Clients, RowUpdated(c)
  PROVE  IInv'
PROOF
<1> USE DEF IInv
<1>1. Target(c) \in Records /\ op[c].seen \cup {c} \in Content
  BY DEF TypeOK, Target, Content
<1>2. live' \in Database
  BY <1>1, DatabaseParts DEF RowUpdated, WithContent, TypeOK
<1>3. TypeOK'
  BY <1>2 DEF RowUpdated, Goto, TypeOK
<1>4. live'.rows = live.rows /\ live'.tagged = live.tagged /\ live'.versions = live.versions
  BY DEF RowUpdated, WithContent, TypeOK, Database
<1>5. LockHeld' /\ UntaggedPending'
  <2>1. pc[c] \notin Inside /\ pc'[c] \notin Inside
    BY DEF RowUpdated, Goto, TypeOK, Inside
  <2>2. \A d \in Clients \ {c} : pc'[d] = pc[d] /\ op'[d] = op[d]
    BY DEF RowUpdated, Goto, TypeOK
  <2> QED  BY <1>4, <2>1, <2>2, OutsideCreate DEF RowUpdated
<1>6. VersionsFinite' /\ CreateAtomic'
  BY <1>4 DEF RowUpdated, VersionsFinite, CreateAtomic
<1> QED  BY <1>3, <1>5, <1>6

LEMMA HistoryReadStep ==
  ASSUME IInv, NEW c \in Clients, HistoryRead(c)
  PROVE  IInv'
PROOF
<1> USE DEF IInv
<1>1. lock' = lock
  BY StatementBy, StoreAssumption DEF HistoryRead
<1>2. op' \in [Clients -> [kind : Kinds, record : Records, seen : Content, number : Nat]]
  <2> DEFINE n == NextNumber(Cardinality(live.versions[Target(c)]))
  <2>1. n \in Nat
    BY HistoryNumber DEF VersionsFinite, TypeOK, Target
  <2>2. [op[c] EXCEPT !.number = n]
          \in [kind : Kinds, record : Records, seen : Content, number : Nat]
    BY <2>1 DEF TypeOK
  <2>3. op' = [op EXCEPT ![c] = [op[c] EXCEPT !.number = n]]
    BY DEF HistoryRead
  <2> HIDE DEF n
  <2> QED  BY <2>2, <2>3 DEF TypeOK
<1>3. TypeOK'
  BY <1>1, <1>2 DEF HistoryRead, Goto, TypeOK
<1>4. LockHeld' /\ UntaggedPending'
  <2>1. pc[c] \notin Inside /\ pc'[c] \notin Inside
    BY DEF HistoryRead, Goto, TypeOK, Inside
  <2>2. \A d \in Clients \ {c} : pc'[d] = pc[d] /\ op'[d] = op[d]
    BY DEF HistoryRead, Goto, TypeOK
  <2> QED  BY <1>1, <2>1, <2>2, OutsideCreate DEF HistoryRead
<1>5. VersionsFinite' /\ CreateAtomic'
  BY DEF HistoryRead, VersionsFinite, CreateAtomic
<1> QED  BY <1>3, <1>4, <1>5

LEMMA VersionInsertedStep ==
  ASSUME IInv, NEW c \in Clients, VersionInserted(c)
  PROVE  IInv'
PROOF
<1> USE DEF IInv
<1>1. pc[c] \notin Inside
  BY DEF VersionInserted, Inside
<1>2. lock' = lock /\ \A d \in Clients : pc[d] \notin Inside
  BY <1>1, StatementBy, StoreAssumption DEF VersionInserted, Inside
<1>3. /\ WithVersion(c) \in Database
      /\ WithVersion(c).rows = live.rows /\ WithVersion(c).tagged = live.tagged
      /\ \A r \in Records : IsFiniteSet(WithVersion(c).versions[r])
  <2> DEFINE v == [number |-> op[c].number, by |-> c]
  <2>1. Target(c) \in Records /\ v \in Version
    BY DEF TypeOK, Target, Version
  <2> HIDE DEF v
  <2>2. WithVersion(c) = [live EXCEPT !.versions[Target(c)] = @ \cup {v}]
    BY DEF WithVersion, v
  <2>3. WithVersion(c) \in Database
    <3>1. live \in Database
      BY DEF TypeOK
    <3>2. \A w \in Version : [live EXCEPT !.versions[Target(c)] = @ \cup {w}] \in Database
      BY <2>1, <3>1, DatabaseParts
    <3>3. [live EXCEPT !.versions[Target(c)] = @ \cup {v}] \in Database
      BY <2>1, <3>2
    <3> QED  BY <2>2, <3>3
  <2>4. WithVersion(c).rows = live.rows /\ WithVersion(c).tagged = live.tagged
    BY <2>2 DEF TypeOK, Database
  <2>5. \A r \in Records : \/ WithVersion(c).versions[r] = live.versions[r]
                         \/ WithVersion(c).versions[r] = live.versions[r] \cup {v}
    BY <2>1, <2>2 DEF TypeOK, Database
  <2>6. \A r \in Records : IsFiniteSet(live.versions[r] \cup {v})
    BY FS_AddElement DEF VersionsFinite
  <2> QED  BY <2>3, <2>4, <2>5, <2>6 DEF VersionsFinite
<1>4. \/ UNCHANGED <<live, durable>>
      \/ live' = WithVersion(c) /\ durable' = WithVersion(c)
  BY DEF VersionInserted, CommitOf
<1>5. live.rows \subseteq live.tagged
  BY <1>2 DEF UntaggedPending, Inside
<1>6. TypeOK'
  BY <1>2, <1>3, <1>4 DEF VersionInserted, End, TypeOK
<1>7. VersionsFinite' /\ CreateAtomic'
  BY <1>3, <1>4, <1>5 DEF VersionsFinite, CreateAtomic
<1>8. LockHeld' /\ UntaggedPending'
  <2>1. pc'[c] \notin Inside /\ \A d \in Clients \ {c} : pc'[d] = pc[d] /\ op'[d] = op[d]
    BY DEF VersionInserted, End, TypeOK, Inside
  <2>2. live'.rows = live.rows /\ live'.tagged = live.tagged
    BY <1>3, <1>4
  <2> QED  BY <1>1, <1>2, <2>1, <2>2, OutsideCreate
<1> QED  BY <1>6, <1>7, <1>8

LEMMA RecordFoundStep ==
  ASSUME IInv, NEW c \in Clients, RecordFound(c)
  PROVE  IInv'
PROOF
<1> USE DEF IInv
<1>1. lock' = lock
  BY StatementBy, StoreAssumption DEF RecordFound
<1>2. TypeOK'
  BY <1>1 DEF RecordFound, Goto, End, TypeOK
<1>3. LockHeld' /\ UntaggedPending'
  <2>1. pc[c] \notin Inside /\ pc'[c] \notin Inside
    BY DEF RecordFound, Goto, End, TypeOK, Inside
  <2>2. \A d \in Clients \ {c} : pc'[d] = pc[d] /\ op'[d] = op[d]
    BY DEF RecordFound, Goto, End, TypeOK
  <2> QED  BY <1>1, <2>1, <2>2, OutsideCreate DEF RecordFound
<1>4. VersionsFinite' /\ CreateAtomic'
  BY DEF RecordFound, VersionsFinite, CreateAtomic
<1> QED  BY <1>2, <1>3, <1>4

LEMMA StatusSetStep ==
  ASSUME IInv, NEW c \in Clients, StatusSet(c)
  PROVE  IInv'
PROOF
<1> USE DEF IInv
<1>1. pc[c] \notin Inside
  BY DEF StatusSet, Inside
<1>2. lock' = lock /\ \A d \in Clients : pc[d] \notin Inside
  BY <1>1, StatementBy, StoreAssumption DEF StatusSet, Inside
<1>3. Target(c) \in Records /\ live.content[Target(c)] \cup {"deleted"} \in Content
  BY DEF TypeOK, Target, Content, Database
<1>4. live' \in Database /\ durable' = live'
  BY <1>3, DatabaseParts DEF StatusSet, CommitOf, WithContent, TypeOK
<1>5. live'.rows = live.rows /\ live'.tagged = live.tagged /\ live'.versions = live.versions
  BY DEF StatusSet, CommitOf, WithContent, TypeOK, Database
<1>6. live.rows \subseteq live.tagged
  BY <1>2 DEF UntaggedPending, Inside
<1>7. TypeOK'
  BY <1>2, <1>4 DEF StatusSet, End, TypeOK
<1>8. VersionsFinite' /\ CreateAtomic'
  BY <1>4, <1>5, <1>6 DEF VersionsFinite, CreateAtomic
<1>9. LockHeld' /\ UntaggedPending'
  <2>1. pc'[c] \notin Inside /\ \A d \in Clients \ {c} : pc'[d] = pc[d] /\ op'[d] = op[d]
    BY DEF StatusSet, End, TypeOK, Inside
  <2> QED  BY <1>1, <1>2, <1>5, <2>1, OutsideCreate
<1> QED  BY <1>7, <1>8, <1>9

LEMMA CrashStep ==
  ASSUME IInv, Crash
  PROVE  IInv'
PROOF
<1> USE DEF IInv
<1>1. TypeOK'
  BY DEF Crash, TypeOK, Unlocked
<1>2. \A c \in Clients : pc'[c] \notin Inside
  BY DEF Crash, Inside
<1>3. LockHeld' /\ UntaggedPending' /\ VersionsFinite' /\ CreateAtomic'
  BY <1>2 DEF Crash, LockHeld, UntaggedPending, VersionsFinite, CreateAtomic, Unlocked
<1> QED  BY <1>1, <1>3

LEMMA StutterStep ==
  ASSUME IInv, UNCHANGED vars
  PROVE  IInv'
PROOF
<1> USE DEF IInv, vars
<1>1. TypeOK' /\ VersionsFinite' /\ CreateAtomic'
  BY DEF TypeOK, VersionsFinite, CreateAtomic
<1>2. LockHeld' /\ UntaggedPending'
  BY DEF LockHeld, UntaggedPending, Target
<1> QED  BY <1>1, <1>2

\* Types, the lock and the pending row are right in every run of the store: the lock is
\* held by one create at a time and free everywhere else (AsyncRLock, create).
THEOREM StoreInvariance == Spec => []IInv
PROOF
<1>1. ASSUME IInv, [Next]_vars PROVE IInv'
  <2>1. CASE UNCHANGED vars
    BY <1>1, <2>1, StutterStep
  <2>2. CASE Crash
    BY <1>1, <2>2, CrashStep
  <2>3. ASSUME NEW c \in Clients, Step(c) PROVE IInv'
    BY <1>1, <2>3, BeginStep, CreateEnteredStep, ExistenceCheckedStep, RowInsertedStep,
       TagInsertedStep, RecordReadStep, RowUpdatedStep, HistoryReadStep,
       VersionInsertedStep, RecordFoundStep, StatusSetStep DEF Step
  <2> QED  BY <1>1, <2>1, <2>2, <2>3 DEF Next
<1> QED  BY <1>1, InitInvariant, PTL DEF Spec

\* For any number of coroutines and records: every committed record is committed with its
\* tags, although each operation commits the unfinished writes of all the others (create,
\* update, delete on one connection).
THEOREM CreationAtomic == Spec => []CreateAtomic
PROOF
<1>1. IInv => CreateAtomic
  BY DEF IInv
<1> QED  BY <1>1, StoreInvariance, PTL

-----------------------------------------------------------------------------
(* What the operations have done so far                                    *)

\* An operation stays with its record once it has begun and has no outcome before its end;
\* between its statements the record it works on is there.
Course ==
  \A c \in Clients :
    /\ pc[c] # "done" => outcome[c] = "none"
    /\ pc[c] \in {"enter", "check", "insert", "tag"} => op[c].kind = "create"
    /\ pc[c] \in {"find", "erase"} => op[c].kind = "delete"
    /\ pc[c] \in {"tag", "write", "history", "version", "erase"} => Stored(c)

\* What is committed the connection sees too, and it sees no version that is not committed:
\* VersionInserted commits at once.
Behind ==
  /\ durable.rows \subseteq live.rows
  /\ \A r \in Records : durable.versions[r] = live.versions[r]

\* A version number may be out of date when it is used, but it has not run ahead.
Chosen ==
  \A c \in Clients :
    pc[c] = "version" => op[c].number \in 1..(Cardinality(live.versions[Target(c)]) + 1)

Numbered(versions) == {v.number : v \in versions} = 1..Cardinality(versions)

AllNumbered == \A r \in Records : Numbered(live.versions[r])

History == Course /\ Behind /\ Chosen /\ AllNumbered /\ AcknowledgedDurable

-----------------------------------------------------------------------------
(* What a step of one coroutine does to the database                       *)

NewVersion(c) == [number |-> op[c].number, by |-> c]

\* The coroutine adds its version, under a number that is not taken.
Appends(c) ==
  /\ pc[c] = "version" /\ ~Taken(c)
  /\ live'.versions[Target(c)] = live.versions[Target(c)] \cup {NewVersion(c)}
  /\ \A r \in Records \ {Target(c)} : live'.versions[r] = live.versions[r]
  /\ durable' = live'

LEMMA VersionAppended ==
  ASSUME TypeOK, NEW c \in Clients, VersionInserted(c), ~Taken(c)
  PROVE  Appends(c) /\ live'.rows = live.rows
PROOF
<1>1. Target(c) \in Records /\ live \in Database
  BY DEF TypeOK, Target
<1>2. live' = [live EXCEPT !.versions[Target(c)] = @ \cup {NewVersion(c)}] /\ durable' = live'
  BY DEF VersionInserted, CommitOf, WithVersion, NewVersion
<1>3. live'.rows = live.rows
  BY <1>1, <1>2 DEF Database
<1>4. /\ live'.versions[Target(c)] = live.versions[Target(c)] \cup {NewVersion(c)}
      /\ \A r \in Records \ {Target(c)} : live'.versions[r] = live.versions[r]
  BY <1>1, <1>2 DEF Database
<1> QED  BY <1>2, <1>3, <1>4 DEF Appends, VersionInserted

\* Rows are only added, versions only appended, and only what the connection sees is ever
\* committed.
LEMMA DatabaseMove ==
  ASSUME TypeOK, NEW c \in Clients, Step(c)
  PROVE  /\ live.rows \subseteq live'.rows
         /\ durable' = durable \/ durable' = live'
         /\ Appends(c) \/ \A r \in Records : live'.versions[r] = live.versions[r]
PROOF
<1>1. Target(c) \in Records /\ live \in Database
  BY DEF TypeOK, Target
<1>2. CASE RowInserted(c) \/ TagInserted(c) \/ RowUpdated(c) \/ StatusSet(c)
  <2>1. live.rows \subseteq live'.rows /\ live'.versions = live.versions
    <3>1. CASE RowInserted(c)
      BY <1>1, <3>1 DEF RowInserted, Database
    <3>2. CASE TagInserted(c)
      BY <1>1, <3>2 DEF TagInserted, CommitOf, Database
    <3>3. CASE RowUpdated(c)
      BY <1>1, <3>3 DEF RowUpdated, WithContent, Database
    <3>4. CASE StatusSet(c)
      BY <1>1, <3>4 DEF StatusSet, CommitOf, WithContent, Database
    <3> QED  BY <1>2, <3>1, <3>2, <3>3, <3>4
  <2>2. durable' = durable \/ durable' = live'
    BY <1>2 DEF RowInserted, TagInserted, RowUpdated, StatusSet, CommitOf
  <2> QED  BY <2>1, <2>2
<1>3. CASE VersionInserted(c)
  <2>1. CASE Taken(c)
    BY <1>3, <2>1 DEF VersionInserted
  <2>2. CASE ~Taken(c)
    BY <1>3, <2>2, VersionAppended DEF Appends
  <2> QED  BY <2>1, <2>2
<1>4. CASE Begin(c) \/ CreateEntered(c) \/ ExistenceChecked(c) \/ RecordRead(c)
           \/ HistoryRead(c) \/ RecordFound(c)
  BY <1>4 DEF Begin, CreateEntered, ExistenceChecked, RecordRead, HistoryRead, RecordFound
<1> QED  BY <1>2, <1>3, <1>4 DEF Step

\* A step of a coroutine is no step of another.
LEMMA OthersStay ==
  ASSUME TypeOK, NEW c \in Clients, Step(c), NEW d \in Clients \ {c}
  PROVE  pc'[d] = pc[d] /\ op'[d] = op[d] /\ outcome'[d] = outcome[d]
PROOF
<1>1. CASE Begin(c) \/ CreateEntered(c) \/ ExistenceChecked(c) \/ RowInserted(c)
  BY <1>1 DEF TypeOK, Begin, CreateEntered, ExistenceChecked, RowInserted, Goto, End
<1>2. CASE TagInserted(c) \/ RecordRead(c) \/ RowUpdated(c) \/ HistoryRead(c)
  BY <1>2 DEF TypeOK, TagInserted, RecordRead, RowUpdated, HistoryRead, Goto, End
<1>3. CASE VersionInserted(c) \/ RecordFound(c) \/ StatusSet(c)
  BY <1>3 DEF TypeOK, VersionInserted, RecordFound, StatusSet, Goto, End
<1> QED  BY <1>1, <1>2, <1>3 DEF Step

\* A version under the next free number leaves no gap.
LEMMA NumberedAppend ==
  ASSUME NEW S, IsFiniteSet(S), Numbered(S), NEW v, v.number = Cardinality(S) + 1
  PROVE  Numbered(S \cup {v}) /\ Cardinality(S \cup {v}) = Cardinality(S) + 1
PROOF
<1>1. Cardinality(S) \in Nat
  BY FS_CardinalityType
<1>2. v \notin S
  BY <1>1 DEF Numbered
<1>3. Cardinality(S \cup {v}) = Cardinality(S) + 1
  BY <1>2, FS_AddElement
<1>4. {w.number : w \in S \cup {v}} = {w.number : w \in S} \cup {Cardinality(S) + 1}
  OBVIOUS
<1>5. 1..(Cardinality(S) + 1) = (1..Cardinality(S)) \cup {Cardinality(S) + 1}
  BY <1>1
<1> QED  BY <1>3, <1>4, <1>5 DEF Numbered

-----------------------------------------------------------------------------
(* The history                                                             *)

LEMMA InitHistory == Init => History
PROOF
<1> SUFFICES ASSUME Init PROVE History
  OBVIOUS
<1>1. \A r \in Records : Numbered(live.versions[r])
  BY FS_EmptySet DEF Init, InitialDatabase, Numbered
<1> QED  BY <1>1 DEF Init, InitialDatabase, History, Course, Behind, Chosen, AllNumbered,
                     AcknowledgedDurable

\* The number a coroutine adds its version under is the next one.
LEMMA AppendsNext ==
  ASSUME IInv, History, NEW c \in Clients, Appends(c)
  PROVE  /\ Numbered(live'.versions[Target(c)])
         /\ Cardinality(live'.versions[Target(c)]) = Cardinality(live.versions[Target(c)]) + 1
PROOF
<1> DEFINE S == live.versions[Target(c)]
<1>1. Target(c) \in Records /\ IsFiniteSet(S) /\ Numbered(S)
  BY DEF IInv, TypeOK, Target, VersionsFinite, History, AllNumbered
<1>2. Cardinality(S) \in Nat
  BY <1>1, FS_CardinalityType
<1>3. op[c].number \in 1..(Cardinality(S) + 1) /\ op[c].number \notin {v.number : v \in S}
  BY DEF Appends, History, Chosen, Taken
<1>4. NewVersion(c).number = Cardinality(S) + 1
  BY <1>1, <1>2, <1>3 DEF NewVersion, Numbered
<1> HIDE DEF S
<1>5. Numbered(S \cup {NewVersion(c)}) /\ Cardinality(S \cup {NewVersion(c)}) = Cardinality(S) + 1
  BY <1>1, <1>4, NumberedAppend
<1> QED  BY <1>5 DEF Appends, S

\* The parts of the history that speak of the database alone.
LEMMA DatabaseHistory ==
  ASSUME IInv, History, NEW c \in Clients, Step(c)
  PROVE  /\ Behind' /\ AllNumbered'
         /\ durable.rows \subseteq durable'.rows
         /\ \A r \in Records : /\ durable.versions[r] \subseteq durable'.versions[r]
                               /\ Cardinality(live.versions[r]) \in Nat
                               /\ Cardinality(live'.versions[r]) \in
                                    {Cardinality(live.versions[r]), Cardinality(live.versions[r]) + 1}
PROOF
<1>1. /\ live.rows \subseteq live'.rows
      /\ durable' = durable \/ durable' = live'
      /\ Appends(c) \/ \A r \in Records : live'.versions[r] = live.versions[r]
  BY DatabaseMove DEF IInv
<1>2. Behind /\ AllNumbered
  BY DEF History
<1>3. \A r \in Records : Cardinality(live.versions[r]) \in Nat
  BY FS_CardinalityType DEF IInv, VersionsFinite
<1>4. CASE Appends(c)
  <2>1. Behind' /\ durable.rows \subseteq durable'.rows
    BY <1>1, <1>2, <1>4 DEF Appends, Behind
  <2>2. \A r \in Records : r = Target(c) \/ live'.versions[r] = live.versions[r]
    BY <1>4 DEF Appends
  <2>3. AllNumbered'
    BY <1>2, <1>4, <2>2, AppendsNext DEF AllNumbered
  <2>4. \A r \in Records : durable.versions[r] \subseteq durable'.versions[r]
    BY <1>2, <1>4, <2>2 DEF Appends, Behind
  <2>5. \A r \in Records : Cardinality(live'.versions[r]) \in
                             {Cardinality(live.versions[r]), Cardinality(live.versions[r]) + 1}
    BY <1>4, <2>2, AppendsNext
  <2> QED  BY <1>3, <2>1, <2>3, <2>4, <2>5
<1>5. CASE \A r \in Records : live'.versions[r] = live.versions[r]
  <2>1. Behind' /\ durable.rows \subseteq durable'.rows
    BY <1>1, <1>2, <1>5 DEF Behind
  <2>2. AllNumbered'
    BY <1>2, <1>5 DEF AllNumbered
  <2> QED  BY <1>1, <1>2, <1>3, <1>5, <2>1, <2>2 DEF Behind
<1> QED  BY <1>1, <1>4, <1>5

LEMMA StepCourse ==
  ASSUME IInv, History, NEW c \in Clients, Step(c)
  PROVE  Course'
PROOF
<1>1. TypeOK /\ Course /\ live.rows \subseteq live'.rows
  BY DatabaseMove DEF IInv, History
<1>2. ASSUME NEW d \in Clients \ {c}
      PROVE  /\ pc'[d] # "done" => outcome'[d] = "none"
             /\ pc'[d] \in {"enter", "check", "insert", "tag"} => op'[d].kind = "create"
             /\ pc'[d] \in {"find", "erase"} => op'[d].kind = "delete"
             /\ pc'[d] \in {"tag", "write", "history", "version", "erase"} => Stored(d)'
  <2>1. pc'[d] = pc[d] /\ op'[d] = op[d] /\ outcome'[d] = outcome[d]
    BY <1>1, OthersStay
  <2> QED  BY <1>1, <2>1 DEF Course, Stored, Target
<1>3. /\ pc'[c] # "done" => outcome'[c] = "none"
      /\ pc'[c] \in {"enter", "check", "insert", "tag"} => op'[c].kind = "create"
      /\ pc'[c] \in {"find", "erase"} => op'[c].kind = "delete"
      /\ pc'[c] \in {"tag", "write", "history", "version", "erase"} => Stored(c)'
  <2>1. CASE Begin(c)
    <3>1. PICK kind \in Kinds, r \in Records :
            /\ op' = [op EXCEPT ![c].kind = kind, ![c].record = r]
            /\ Goto(c, IF kind = "create" THEN "enter" ELSE IF kind = "update" THEN "read" ELSE "find")
      BY <2>1 DEF Begin
    <3>2. op'[c].kind = kind
      BY <3>1, <1>1 DEF TypeOK
    <3>3. pc'[c] = IF kind = "create" THEN "enter" ELSE IF kind = "update" THEN "read" ELSE "find"
      BY <3>1, <1>1 DEF TypeOK, Goto
    <3>4. outcome'[c] = "none"
      BY <2>1, <3>1, <1>1 DEF Begin, Goto, Course
    <3> QED  BY <3>2, <3>3, <3>4 DEF Kinds
  <2>2. CASE CreateEntered(c) \/ ExistenceChecked(c)
    BY <1>1, <2>2 DEF TypeOK, Course, CreateEntered, ExistenceChecked, Goto, End
  <2>3. CASE RowInserted(c)
    <3>1. Target(c) \in live'.rows
      BY <1>1, <2>3 DEF RowInserted, TypeOK, Database
    <3> QED  BY <1>1, <2>3, <3>1 DEF TypeOK, Course, RowInserted, Goto, Stored, Target
  <2>4. CASE TagInserted(c) \/ VersionInserted(c) \/ StatusSet(c)
    BY <1>1, <2>4 DEF TypeOK, TagInserted, VersionInserted, StatusSet, End
  <2>5. CASE RecordRead(c)
    <3>1. op'[c].record = op[c].record
      BY <1>1, <2>5 DEF RecordRead, TypeOK
    <3> QED  BY <1>1, <2>5, <3>1 DEF TypeOK, Course, RecordRead, Goto, End, Stored, Target
  <2>6. CASE RowUpdated(c)
    BY <1>1, <2>6 DEF TypeOK, Course, RowUpdated, Goto, Stored, Target
  <2>7. CASE HistoryRead(c)
    <3>1. op'[c].record = op[c].record
      BY <1>1, <2>7 DEF HistoryRead, TypeOK
    <3> QED  BY <1>1, <2>7, <3>1 DEF TypeOK, Course, HistoryRead, Goto, Stored, Target
  <2>8. CASE RecordFound(c)
    BY <1>1, <2>8 DEF TypeOK, Course, RecordFound, Goto, End, Stored, Target
  <2> QED  BY <2>1, <2>2, <2>3, <2>4, <2>5, <2>6, <2>7, <2>8 DEF Step
<1> QED  BY <1>2, <1>3 DEF Course

LEMMA StepChosen ==
  ASSUME IInv, History, NEW c \in Clients, Step(c)
  PROVE  Chosen'
PROOF
<1>1. TypeOK /\ Chosen
  BY DEF IInv, History
<1>2. ASSUME NEW d \in Clients \ {c}, pc'[d] = "version"
      PROVE  op'[d].number \in 1..(Cardinality(live'.versions[Target(d)']) + 1)
  <2>1. pc'[d] = pc[d] /\ op'[d] = op[d]
    BY <1>1, OthersStay
  <2>2. Target(d) \in Records /\ Target(d)' = Target(d)
    BY <1>1, <2>1 DEF TypeOK, Target
  <2>3. op[d].number \in 1..(Cardinality(live.versions[Target(d)]) + 1)
    BY <1>1, <1>2, <2>1 DEF Chosen
  <2>4. /\ Cardinality(live.versions[Target(d)]) \in Nat
        /\ Cardinality(live'.versions[Target(d)]) \in
             {Cardinality(live.versions[Target(d)]), Cardinality(live.versions[Target(d)]) + 1}
    BY <2>2, DatabaseHistory
  <2> QED  BY <2>1, <2>2, <2>3, <2>4
<1>3. ASSUME pc'[c] = "version"
      PROVE  op'[c].number \in 1..(Cardinality(live'.versions[Target(c)']) + 1)
  <2>1. HistoryRead(c)
    <3>1. CASE Begin(c) \/ CreateEntered(c) \/ ExistenceChecked(c) \/ RowInserted(c)
      BY <1>1, <1>3, <3>1 DEF TypeOK, Begin, CreateEntered, ExistenceChecked, RowInserted, Goto, End
    <3>2. CASE TagInserted(c) \/ RecordRead(c) \/ RowUpdated(c)
      BY <1>1, <1>3, <3>2 DEF TypeOK, TagInserted, RecordRead, RowUpdated, Goto, End
    <3>3. CASE VersionInserted(c) \/ RecordFound(c) \/ StatusSet(c)
      BY <1>1, <1>3, <3>3 DEF TypeOK, VersionInserted, RecordFound, StatusSet, Goto, End
    <3> QED  BY <3>1, <3>2, <3>3 DEF Step
  <2> DEFINE n == Cardinality(live.versions[Target(c)])
  <2>2. Target(c) \in Records
    BY <1>1 DEF TypeOK, Target
  <2>3. n \in Nat
    BY <2>2, DatabaseHistory
  <2>4. /\ op'[c].number = NextNumber(n) /\ op'[c].record = op[c].record
        /\ live' = live
    BY <1>1, <2>1 DEF HistoryRead, TypeOK
  <2>5. NextNumber(n) \in 1..(n + 1)
    BY <2>3, StoreAssumption DEF NextNumber
  <2> QED  BY <2>4, <2>5 DEF Target
<1> QED  BY <1>2, <1>3 DEF Chosen

LEMMA StepAcknowledged ==
  ASSUME IInv, History, NEW c \in Clients, Step(c)
  PROVE  AcknowledgedDurable'
PROOF
<1>1. TypeOK /\ Course /\ Behind /\ AcknowledgedDurable
  BY DEF IInv, History
<1>2. /\ durable.rows \subseteq durable'.rows
      /\ \A r \in Records : durable.versions[r] \subseteq durable'.versions[r]
  BY DatabaseHistory
<1>3. ASSUME NEW d \in Clients \ {c}, outcome'[d] = "ok"
      PROVE  /\ Target(d)' \in durable'.rows
             /\ op'[d].kind = "update" => \E v \in durable'.versions[Target(d)'] : v.by = d
  <2>1. op'[d] = op[d] /\ outcome'[d] = outcome[d]
    BY <1>1, OthersStay
  <2>2. Target(d) \in Records /\ Target(d)' = Target(d)
    BY <1>1, <2>1 DEF TypeOK, Target
  <2>3. /\ Target(d) \in durable.rows
        /\ op[d].kind = "update" => \E v \in durable.versions[Target(d)] : v.by = d
    BY <1>1, <1>3, <2>1 DEF AcknowledgedDurable
  <2> QED  BY <1>2, <2>1, <2>2, <2>3
<1>4. ASSUME outcome'[c] = "ok"
      PROVE  /\ Target(c)' \in durable'.rows
             /\ op'[c].kind = "update" => \E v \in durable'.versions[Target(c)'] : v.by = c
  <2>1. pc[c] # "done"
    BY DEF Step, Begin, CreateEntered, ExistenceChecked, RowInserted, TagInserted, RecordRead,
           RowUpdated, HistoryRead, VersionInserted, RecordFound, StatusSet
  <2>2. outcome[c] = "none"
    BY <1>1, <2>1 DEF Course
  <2>3. CASE TagInserted(c)
    <3>1. /\ durable'.rows = live.rows /\ op'[c] = op[c]
          /\ Stored(c) /\ op[c].kind = "create"
      BY <1>1, <2>3 DEF TagInserted, CommitOf, TypeOK, Database, Course
    <3> QED  BY <3>1 DEF Stored, Target
  <2>4. CASE StatusSet(c)
    <3>1. /\ durable'.rows = live.rows /\ op'[c] = op[c]
          /\ Stored(c) /\ op[c].kind = "delete"
      BY <1>1, <2>4 DEF StatusSet, CommitOf, WithContent, TypeOK, Database, Course
    <3> QED  BY <3>1 DEF Stored, Target
  <2>5. CASE VersionInserted(c)
    <3>1. ~Taken(c) /\ op'[c] = op[c]
      BY <1>1, <1>4, <2>5 DEF VersionInserted, End, TypeOK
    <3>2. Appends(c) /\ live'.rows = live.rows
      BY <1>1, <2>5, <3>1, VersionAppended
    <3>3. Stored(c)
      BY <1>1, <2>5 DEF VersionInserted, Course
    <3>4. NewVersion(c) \in durable'.versions[Target(c)] /\ NewVersion(c).by = c
      BY <3>2 DEF Appends, NewVersion
    <3> QED  BY <3>1, <3>2, <3>3, <3>4 DEF Appends, Stored, Target
  <2>6. CASE Begin(c) \/ CreateEntered(c) \/ ExistenceChecked(c) \/ RowInserted(c)
    BY <1>1, <1>4, <2>2, <2>6
       DEF TypeOK, Begin, CreateEntered, ExistenceChecked, RowInserted, Goto, End
  <2>7. CASE RecordRead(c) \/ RowUpdated(c) \/ HistoryRead(c) \/ RecordFound(c)
    BY <1>1, <1>4, <2>2, <2>7 DEF TypeOK, RecordRead, RowUpdated, HistoryRead, RecordFound, Goto, End
  <2> QED  BY <2>3, <2>4, <2>5, <2>6, <2>7 DEF Step
<1> QED  BY <1>3, <1>4 DEF AcknowledgedDurable

\* A crash takes the rows nobody has committed, and with them every operation under way.
LEMMA CrashHistory ==
  ASSUME IInv, History, Crash
  PROVE  History'
PROOF
<1>1. TypeOK /\ Course /\ Behind /\ AllNumbered /\ AcknowledgedDurable
  BY DEF IInv, History
<1>2. Course'
  <2>1. \A c \in Clients : pc'[c] = "new" => outcome'[c] = "none"
    BY <1>1 DEF Crash, Course
  <2>2. \A c \in Clients : pc'[c] \in {"new", "done"}
    BY DEF Crash
  <2> QED  BY <2>1, <2>2 DEF Course
<1>3. Behind' /\ AllNumbered'
  BY <1>1 DEF Crash, Behind, AllNumbered
<1>4. Chosen'
  BY DEF Crash, Chosen
<1>5. AcknowledgedDurable'
  <2>1. \A c \in Clients : outcome'[c] = "ok" => outcome[c] = "ok"
    BY DEF Crash
  <2> QED  BY <1>1, <2>1 DEF Crash, AcknowledgedDurable, Target
<1> QED  BY <1>2, <1>3, <1>4, <1>5 DEF History

LEMMA StepHistory ==
  ASSUME IInv, History, [Next]_vars
  PROVE  History'
PROOF
<1>1. CASE UNCHANGED vars
  BY <1>1 DEF vars, History, Course, Behind, Chosen, AllNumbered, AcknowledgedDurable, Stored, Target
<1>2. CASE Crash
  BY <1>2, CrashHistory
<1>3. ASSUME NEW c \in Clients, Step(c) PROVE History'
  BY <1>3, DatabaseHistory, StepCourse, StepChosen, StepAcknowledged DEF History
<1> QED  BY <1>1, <1>2, <1>3 DEF Next

\* What has been acknowledged and how versions are numbered in every run of the store.
THEOREM Histories == Spec => []History
PROOF
  BY InitHistory, StepHistory, StoreInvariance, PTL DEF Spec

\* A created record, and the version an update wrote, survive every crash once the call has
\* returned, although the transaction is shared (create, update and delete commit first).
THEOREM AcknowledgedSurvives == Spec => []AcknowledgedDurable
PROOF
<1>1. History => AcknowledgedDurable
  BY DEF History
<1> QED  BY <1>1, Histories, PTL

\* For any number of concurrent updates and any limit of the history, the versions of a
\* record are numbered from 1 without a gap: a number out of date is one that is taken, and
\* the update that chose it raises.
THEOREM VersionsAreNumbered == Spec => []VersionsNumbered
PROOF
<1>1. History => VersionsNumbered
  BY DEF History, Behind, AllNumbered, Numbered, VersionsNumbered
<1> QED  BY <1>1, Histories, PTL

=============================================================================
