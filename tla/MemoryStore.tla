----------------------------- MODULE MemoryStore -----------------------------
(***************************************************************************)
(* memory/sqlite_store.py: SQLiteMemoryStore under concurrent coroutines.  *)
(*                                                                         *)
(* All coroutines use one sqlite3 connection, hence one transaction: what  *)
(* one of them has written the others see, and a commit of one commits the *)
(* writes of all.  A statement runs in the thread pool while its coroutine *)
(* waits; an action is one statement with the code that follows it up to   *)
(* the next one.  The AsyncRLock is held across a whole create but only    *)
(* across single statements of the other operations.                       *)
(*                                                                         *)
(* Each coroutine performs one operation.  An update changes a field of    *)
(* its own, so the content of a record is the set of the updates in it,    *)
(* with "deleted" for the status.  A created record has one tag.           *)
(***************************************************************************)
EXTENDS Naturals, FiniteSets

CONSTANTS
  Clients,       \* the coroutines
  Records,       \* record ids
  Existing,      \* the records stored before
  HistoryLimit,  \* default limit of get_history
  Nobody         \* AsyncRLock._owner is None

ASSUME StoreAssumption ==
  /\ Records # {} /\ Existing \subseteq Records /\ HistoryLimit \in Nat
  /\ Nobody \notin Clients

VARIABLES
  live,     \* the database as the connection sees it
  durable,  \* the database as last committed
  lock,     \* AsyncRLock: owner and depth
  pc,       \* the statement each coroutine executes next
  op,       \* its operation, record, the content it has read and its version number
  outcome   \* how its operation has ended

vars == <<live, durable, lock, pc, op, outcome>>

Kinds == {"create", "update", "delete"}
Content == SUBSET (Clients \cup {"deleted"})
Version == [number: Nat, by: Clients]
Database == [rows: SUBSET Records, tagged: SUBSET Records,
             content: [Records -> Content], versions: [Records -> SUBSET Version]]

TypeOK ==
  /\ live \in Database /\ durable \in Database
  /\ lock \in [owner: Clients \cup {Nobody}, depth: Nat]
  /\ pc \in [Clients -> {"new", "enter", "check", "insert", "tag", "read", "write",
                         "history", "version", "find", "erase", "done"}]
  /\ op \in [Clients -> [kind: Kinds, record: Records, seen: Content, number: Nat]]
  /\ outcome \in [Clients -> {"none", "ok", "notFound", "exists", "failed", "crashed"}]

-----------------------------------------------------------------------------
(* AsyncRLock                                                              *)

Unlocked == [owner |-> Nobody, depth |-> 0]

\* Mutant of Available: the lock is not reentrant.
AvailableToNoOwner(c) == lock.owner = Nobody

Available(c) == lock.owner \in {Nobody, c}

Acquired(l, c) == [owner |-> c, depth |-> l.depth + 1]

\* Mutant of Released: the depth is not counted.
ReleasedAtOnce(l) == Unlocked

Released(l) == IF l.depth > 1 THEN [l EXCEPT !.depth = @ - 1] ELSE Unlocked

\* "async with self._lock" around one statement, as in _execute.
Statement(c) == Available(c) /\ lock' = Released(Acquired(lock, c))

-----------------------------------------------------------------------------
(* Steps common to the operations                                          *)

Target(c) == op[c].record
Stored(c) == Target(c) \in live.rows
WithContent(c, content) == [live EXCEPT !.content[Target(c)] = content]

Goto(c, statement) == pc' = [pc EXCEPT ![c] = statement] /\ UNCHANGED outcome
End(c, how) == pc' = [pc EXCEPT ![c] = "done"] /\ outcome' = [outcome EXCEPT ![c] = how]

\* self._conn.commit() after the statement that left the connection at db.
CommitOf(db) == live' = db /\ durable' = db

Begin(c) ==
  /\ pc[c] = "new"
  /\ \E kind \in Kinds, r \in Records :
       /\ op' = [op EXCEPT ![c].kind = kind, ![c].record = r]
       /\ Goto(c, IF kind = "create" THEN "enter" ELSE IF kind = "update" THEN "read" ELSE "find")
  /\ UNCHANGED <<live, durable, lock>>

-----------------------------------------------------------------------------
(* create: all of it under the lock                                        *)

CreateEntered(c) ==
  /\ pc[c] = "enter" /\ Available(c)
  /\ lock' = Acquired(lock, c)
  /\ Goto(c, "check")
  /\ UNCHANGED <<live, durable, op>>

ExistenceChecked(c) ==
  /\ pc[c] = "check" /\ Available(c)
  /\ \/ /\ Stored(c)
        /\ lock' = Released(Released(Acquired(lock, c)))
        /\ End(c, "exists")
     \/ /\ ~Stored(c)
        /\ Statement(c)
        /\ Goto(c, "insert")
  /\ UNCHANGED <<live, durable, op>>

RowInserted(c) ==
  /\ pc[c] = "insert"
  /\ live' = [live EXCEPT !.rows = @ \cup {Target(c)}]
  /\ Goto(c, "tag")
  /\ UNCHANGED <<durable, lock, op>>

TagInserted(c) ==
  /\ pc[c] = "tag" /\ Available(c)
  /\ CommitOf([live EXCEPT !.tagged = @ \cup {Target(c)}])
  /\ lock' = Released(Released(Acquired(lock, c)))
  /\ End(c, "ok")
  /\ UNCHANGED op

-----------------------------------------------------------------------------
(* update: the UPDATE itself is not under the lock                         *)

RecordRead(c) ==
  /\ pc[c] = "read" /\ Statement(c)
  /\ \/ ~Stored(c) /\ End(c, "notFound") /\ UNCHANGED op
     \/ /\ Stored(c) /\ Goto(c, "write")
        /\ op' = [op EXCEPT ![c].seen = live.content[Target(c)]]
  /\ UNCHANGED <<live, durable>>

\* Every column is written, from the record as it was read.
RowUpdated(c) ==
  /\ pc[c] = "write"
  /\ live' = WithContent(c, op[c].seen \cup {c})
  /\ Goto(c, "history")
  /\ UNCHANGED <<durable, lock, op>>

\* Mutant of NextNumber: the one that is already there.
LastNumber(n) == n

\* len(history) + 1, where get_history returns HistoryLimit versions at most.
NextNumber(n) == (IF n > HistoryLimit THEN HistoryLimit ELSE n) + 1

HistoryRead(c) ==
  /\ pc[c] = "history" /\ Statement(c)
  /\ op' = [op EXCEPT ![c].number = NextNumber(Cardinality(live.versions[Target(c)]))]
  /\ Goto(c, "version")
  /\ UNCHANGED <<live, durable>>

Taken(c) == \E v \in live.versions[Target(c)] : v.number = op[c].number
WithVersion(c) ==
  [live EXCEPT !.versions[Target(c)] = @ \cup {[number |-> op[c].number, by |-> c]}]

\* Mutant of VersionInserted: returns before the commit.
VersionInsertedOnly(c) ==
  /\ pc[c] = "version" /\ Statement(c)
  /\ IF Taken(c) THEN End(c, "failed") /\ UNCHANGED live ELSE End(c, "ok") /\ live' = WithVersion(c)
  /\ UNCHANGED <<durable, op>>

\* A number that is taken violates UNIQUE(record_id, version_number): the operation
\* raises, and nothing rolls the transaction back.
VersionInserted(c) ==
  /\ pc[c] = "version" /\ Statement(c)
  /\ \/ Taken(c) /\ End(c, "failed") /\ UNCHANGED <<live, durable>>
     \/ ~Taken(c) /\ End(c, "ok") /\ CommitOf(WithVersion(c))
  /\ UNCHANGED op

-----------------------------------------------------------------------------
(* delete, soft                                                            *)

RecordFound(c) ==
  /\ pc[c] = "find" /\ Statement(c)
  /\ \/ ~Stored(c) /\ End(c, "notFound")
     \/ Stored(c) /\ Goto(c, "erase")
  /\ UNCHANGED <<live, durable, op>>

StatusSet(c) ==
  /\ pc[c] = "erase" /\ Statement(c)
  /\ CommitOf(WithContent(c, live.content[Target(c)] \cup {"deleted"}))
  /\ End(c, "ok")
  /\ UNCHANGED op

-----------------------------------------------------------------------------
(* Specification                                                           *)

\* The process dies, and SQLite rolls the open transaction back.
Crash ==
  /\ live' = durable
  /\ lock' = Unlocked
  /\ pc' = [c \in Clients |-> IF pc[c] = "new" THEN "new" ELSE "done"]
  /\ outcome' = [c \in Clients |-> IF pc[c] \in {"new", "done"} THEN outcome[c] ELSE "crashed"]
  /\ UNCHANGED <<durable, op>>

Step(c) ==
  \/ Begin(c)
  \/ CreateEntered(c) \/ ExistenceChecked(c) \/ RowInserted(c) \/ TagInserted(c)
  \/ RecordRead(c) \/ RowUpdated(c) \/ HistoryRead(c) \/ VersionInserted(c)
  \/ RecordFound(c) \/ StatusSet(c)

InitialDatabase ==
  [rows |-> Existing, tagged |-> Existing,
   content |-> [r \in Records |-> {}], versions |-> [r \in Records |-> {}]]

Init ==
  /\ live = InitialDatabase /\ durable = InitialDatabase
  /\ lock = Unlocked
  /\ pc = [c \in Clients |-> "new"]
  /\ op \in [Clients -> {[kind |-> "create", record |-> CHOOSE r \in Records : TRUE,
                          seen |-> {}, number |-> 0]}]
  /\ outcome = [c \in Clients |-> "none"]

Next == (\E c \in Clients : Step(c)) \/ Crash

Spec == Init /\ [][Next]_vars

\* The races alone.
SpecWithoutCrash == Init /\ [][\E c \in Clients : Step(c)]_vars

\* The thread pool runs every statement, and asyncio.Lock serves its waiters in order.
FairSpec == Spec /\ \A c \in Clients : WF_vars(Step(c))

-----------------------------------------------------------------------------
(* Properties                                                              *)

\* A record is committed with its tags or not at all, whoever commits: create is the one
\* operation that holds the lock across its statements and its commit (create, AsyncRLock).
CreateAtomic == durable.rows \subseteq durable.tagged

\* What has been acknowledged survives a crash: a created record, the version entry of an
\* update (create and update commit before they return).
AcknowledgedDurable ==
  \A c \in Clients : outcome[c] = "ok" =>
    /\ Target(c) \in durable.rows
    /\ op[c].kind = "update" => \E v \in durable.versions[Target(c)] : v.by = c

\* The versions of a record are numbered from 1 without gaps or repetitions, although
\* each number is chosen some statements before it is used (update, get_history).
VersionsNumbered ==
  \A r \in Records :
    /\ {v.number : v \in live.versions[r]} = 1..Cardinality(live.versions[r])
    /\ {v.number : v \in durable.versions[r]} = 1..Cardinality(durable.versions[r])

\* Every operation that has begun ends: the statements inside create take the lock that
\* create holds (AsyncRLock.acquire).
OperationsEnd == \A c \in Clients : pc[c] # "new" ~> pc[c] = "done"

-----------------------------------------------------------------------------
(* What the documentation says and the code does not keep                  *)

\* "Concurrent-Safe": an update that has returned is still there when nothing is under way
\* (update).
NoLostUpdate ==
  (\A c \in Clients : pc[c] \in {"new", "done"}) =>
    \A c \in Clients : outcome[c] = "ok" /\ op[c].kind = "update" => c \in live.content[Target(c)]
=============================================================================
