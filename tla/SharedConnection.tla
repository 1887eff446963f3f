-------------------------- MODULE SharedConnection --------------------------
(***************************************************************************)
(* Threads that use one sqlitepp::database.  It is opened with             *)
(* SQLITE_OPEN_FULLMUTEX, so a call into SQLite is atomic.  The ORM makes  *)
(* two of them where it means one: entity::insert executes and then asks   *)
(* for last_insert_rowid(); orm::remove brackets its DELETE between two    *)
(* reads of total_changes().  Both values belong to the connection, and    *)
(* so does whatever another thread did to them in between.                 *)
(*                                                                         *)
(* Each thread has one entity of one table.  What the calls do to members  *)
(* and snapshots is left to module Entity.  A call whose only statement    *)
(* throws changes nothing that is modelled here, and is not an action.     *)
(***************************************************************************)
EXTENDS Integers, FiniteSets

CONSTANTS
  Thread,
  MaxRow,     \* bound: rowids
  MaxChanges, \* bound: rows written in a behaviour
  IntMax,     \* INT_MAX: sqlite3_total_changes returns an int
  Locking     \* whether programs hold a lock of their own in ORM calls

ASSUME SharedAssumption ==
  /\ MaxRow \in Nat
  /\ MaxChanges \in Nat
  /\ IntMax \in Nat
  /\ Locking \subseteq BOOLEAN

VARIABLES
  locked,  \* whether this program does
  pc,      \* pc[t]: what thread t has done of its ORM call
  rows,    \* the rowids in the table
  last,    \* the connection's last_insert_rowid
  total,   \* the rows the connection has written: before it becomes an int
  entity,  \* entity[t]: _rowid_ of the entity of thread t
  given,   \* history: the rowid that SQLite gave to that entity's INSERT
  before,  \* before[t]: nchanges, a local of orm::remove
  deleted, \* history: the rows that the DELETE of that call removed
  result   \* result[t]: what the last orm::remove returned, or 0

vars == <<locked, pc, rows, last, total, entity, given, before, deleted, result>>

Rowid == 1 .. MaxRow
Idle == "idle"
Calls == {Idle, "inserted", "counting", "deleted"}

(* The int that sqlite3_total_changes returns, widened to size_t and back.  *)
IntModulus == 2 * (IntMax + 1)
AsInt(n) == ((n + IntMax + 1) % IntModulus) - (IntMax + 1)

TypeOK ==
  /\ locked \in Locking
  /\ pc \in [Thread -> Calls]
  /\ rows \subseteq Rowid
  /\ last \in Rowid \cup {0}
  /\ total \in 0 .. MaxChanges
  /\ entity \in [Thread -> Rowid \cup {-1}]
  /\ given \in [Thread -> Rowid \cup {-1}]
  /\ before \in [Thread -> Int]
  /\ deleted \in [Thread -> 0 .. MaxChanges]
  /\ result \in [Thread -> Int]

Init ==
  /\ locked \in Locking
  /\ pc = [t \in Thread |-> Idle]
  /\ rows = {}
  /\ last = 0
  /\ total = 0
  /\ entity = [t \in Thread |-> -1]
  /\ given = [t \in Thread |-> -1]
  /\ before = [t \in Thread |-> 0]
  /\ deleted = [t \in Thread |-> 0]
  /\ result = [t \in Thread |-> 0]

(* t begins an ORM call.                                                    *)
Enters(t) ==
  /\ pc[t] = Idle
  /\ locked => \A u \in Thread : pc[u] = Idle

(* SQLite numbers a row one above the largest rowid in the table.           *)
IsNewRowid(r) ==
  IF rows = {} THEN r = 1 ELSE r - 1 \in rows /\ \A q \in rows : q < r

Writes(n) ==
  /\ total + n <= MaxChanges
  /\ total' = total + n

-----------------------------------------------------------------------------
(* entity::save() of an entity that is not stored.                          *)

InsertExecute(t) ==
  /\ Enters(t)
  /\ entity[t] < 0
  /\ \E r \in Rowid :
       /\ IsNewRowid(r)
       /\ rows' = rows \cup {r}
       /\ last' = r
       /\ given' = [given EXCEPT ![t] = r]
  /\ Writes(1)
  /\ pc' = [pc EXCEPT ![t] = "inserted"]
  /\ UNCHANGED <<entity, before, deleted, result>>

(* Asks for the rowid when the INSERT has not yet been stepped.             *)
LearntEarly(t) == last - 1

(* What last_insert_rowid() tells thread t.                                 *)
Learnt(t) == last

InsertLearnsRowid(t) ==
  /\ pc[t] = "inserted"
  /\ entity' = [entity EXCEPT ![t] = Learnt(t)]
  /\ pc' = [pc EXCEPT ![t] = Idle]
  /\ UNCHANGED <<rows, last, total, given, before, deleted, result>>

(* entity::save() of an entity that is stored: one statement.               *)
UpdateEntity(t) ==
  /\ Enters(t)
  /\ entity[t] >= 0
  /\ Writes(Cardinality(rows \cap {entity[t]}))
  /\ UNCHANGED <<pc, rows, last, entity, given, before, deleted, result>>

(* entity::remove(): one statement, nothing to ask for afterwards.          *)
RemoveEntity(t) ==
  /\ Enters(t)
  /\ entity[t] >= 0
  /\ rows' = rows \ {entity[t]}
  /\ Writes(Cardinality(rows \cap {entity[t]}))
  /\ entity' = [entity EXCEPT ![t] = -1]
  /\ given' = [given EXCEPT ![t] = -1]
  /\ UNCHANGED <<pc, last, before, deleted, result>>

-----------------------------------------------------------------------------
(* orm::remove(db, info, where).                                            *)

RemoveCounts(t) ==
  /\ Enters(t)
  /\ before' = [before EXCEPT ![t] = AsInt(total)]
  /\ pc' = [pc EXCEPT ![t] = "counting"]
  /\ UNCHANGED <<rows, last, total, entity, given, deleted, result>>

(* S: the rows that the condition selects.  Other entities are not told.    *)
RemoveExecute(t, S) ==
  /\ pc[t] = "counting"
  /\ S \subseteq rows
  /\ rows' = rows \ S
  /\ Writes(Cardinality(S))
  /\ deleted' = [deleted EXCEPT ![t] = Cardinality(S)]
  /\ pc' = [pc EXCEPT ![t] = "deleted"]
  /\ UNCHANGED <<last, entity, given, before, result>>

(* The statement cannot be prepared or executed.                            *)
RemoveThrows(t) ==
  /\ pc[t] = "counting"
  /\ pc' = [pc EXCEPT ![t] = Idle]
  /\ UNCHANGED <<rows, last, total, entity, given, before, deleted, result>>

(* A subtraction the wrong way round.                                       *)
CountedBackwards(t) == before[t] - AsInt(total)

Counted(t) == AsInt(total) - before[t]

RemoveReturns(t) ==
  /\ pc[t] = "deleted"
  /\ result' = [result EXCEPT ![t] = Counted(t)]
  /\ pc' = [pc EXCEPT ![t] = Idle]
  /\ UNCHANGED <<rows, last, total, entity, given, before, deleted>>

-----------------------------------------------------------------------------
Step(t) ==
  \/ InsertExecute(t)
  \/ InsertLearnsRowid(t)
  \/ UpdateEntity(t)
  \/ RemoveEntity(t)
  \/ RemoveCounts(t)
  \/ \E S \in SUBSET Rowid : RemoveExecute(t, S)
  \/ RemoveThrows(t)
  \/ RemoveReturns(t)

Next == (\E t \in Thread : Step(t)) /\ UNCHANGED locked

Spec == Init /\ [][Next]_vars

-----------------------------------------------------------------------------
(* "We use it to identify each entity of a particular table": after save()  *)
(* the _rowid_ of an entity is the one that its own INSERT was given.       *)
SavedRowIsOwn ==
  \A t \in Thread : pc[t] # "inserted" /\ entity[t] >= 0 => entity[t] = given[t]

(* It is, if the program serializes its ORM calls: execute() and the        *)
(* question that follows it are then one step for the other threads.        *)
LockedSaveIsOwn == locked => SavedRowIsOwn

(* Under a lock orm::remove returns the number of rows that it removed:     *)
(* exactly, as long as the connection has written at most INT_MAX rows, and *)
(* modulo 2^32 when the int of sqlite3_total_changes has wrapped.           *)
RemoveCountIsExact ==
  [][\A t \in Thread : locked /\ RemoveReturns(t) =>
       /\ (result'[t] - deleted[t]) % IntModulus = 0
       /\ total <= IntMax => result'[t] = deleted[t]]_vars

(* Whatever other threads do, orm::remove never reports fewer rows than it  *)
(* removed, as long as the connection has written at most INT_MAX rows.     *)
RemoveCountIsEnough ==
  [][\A t \in Thread :
       RemoveReturns(t) /\ total <= IntMax => result'[t] >= deleted[t]]_vars
=============================================================================
