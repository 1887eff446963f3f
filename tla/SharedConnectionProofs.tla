----------------------- MODULE SharedConnectionProofs -----------------------
(***************************************************************************)
(* Theorems about SharedConnection, for any number of threads and rows.    *)
(***************************************************************************)
EXTENDS SharedConnection, TLAPS, FiniteSetTheorems

(* The rows of the table are finitely many.                                 *)
LEMMA RowsCounted ==
  ASSUME NEW S, S \subseteq Rowid
  PROVE  Cardinality(S) \in Nat
<1>1. IsFiniteSet(Rowid)
  BY FS_Interval, SharedAssumption DEF Rowid
<1> QED
  BY <1>1, FS_Subset, FS_CardinalityType

(* AsInt is an integer, and the identity up to INT_MAX.                     *)
LEMMA AsIntType ==
  ASSUME NEW n \in Int
  PROVE  /\ IntModulus \in Nat /\ IntModulus > 0
         /\ AsInt(n) \in Int
<1>1. IntModulus \in Nat /\ IntModulus > 0
  BY SharedAssumption DEF IntModulus
<1>2. n + IntMax + 1 \in Int
  BY SharedAssumption
<1>3. (n + IntMax + 1) % IntModulus \in Int
  BY <1>1, <1>2
<1> QED
  BY <1>1, <1>3, SharedAssumption DEF AsInt

LEMMA AsIntSmall ==
  ASSUME NEW n \in Nat, n <= IntMax
  PROVE  AsInt(n) = n
<1>1. /\ IntModulus \in Nat /\ IntModulus > 0
      /\ n + IntMax + 1 \in Nat /\ n + IntMax + 1 < IntModulus
  BY SharedAssumption DEF IntModulus
<1>2. (n + IntMax + 1) % IntModulus = n + IntMax + 1
  BY <1>1
<1> QED
  BY <1>2, SharedAssumption DEF AsInt

(* Facts of integer division.                                               *)
LEMMA Division ==
  ASSUME NEW M \in Nat, M > 0, NEW a \in Int
  PROVE  /\ a \div M \in Int
         /\ a % M \in Int
         /\ a % M = a - (M * (a \div M))
  OBVIOUS

LEMMA MultipleMod ==
  ASSUME NEW M \in Nat, M > 0, NEW q \in Int
  PROVE  (M * q) % M = 0
  OBVIOUS

(* A difference of two of them is right modulo 2^32.                        *)
LEMMA AsIntDifference ==
  ASSUME NEW m \in Int, NEW k \in Int
  PROVE  (AsInt(m + k) - AsInt(m) - k) % IntModulus = 0
<1>1. IntModulus \in Nat /\ IntModulus > 0
  BY AsIntType
<1>2. PICK M \in Nat : M = IntModulus /\ M > 0
  BY <1>1
<1>3. PICK b \in Int : b = m + IntMax + 1 /\ m + k + IntMax + 1 = b + k
  BY SharedAssumption
<1>4. /\ AsInt(m + k) = ((b + k) % M) - (IntMax + 1)
      /\ AsInt(m) = (b % M) - (IntMax + 1)
  BY <1>2, <1>3 DEF AsInt
<1>5. PICK x \in Int, y \in Int :
        /\ (b + k) % M = (b + k) - (M * x) /\ (b + k) % M \in Int
        /\ b % M = b - (M * y) /\ b % M \in Int
  <2>1. b + k \in Int
    OBVIOUS
  <2>2. /\ (b + k) \div M \in Int /\ (b + k) % M \in Int
        /\ (b + k) % M = (b + k) - (M * ((b + k) \div M))
    BY <1>2, <2>1, Division
  <2>3. /\ b \div M \in Int /\ b % M \in Int
        /\ b % M = b - (M * (b \div M))
    BY <1>2, Division
  <2> QED
    BY <2>2, <2>3
<1>6. /\ M * x \in Int /\ M * y \in Int
      /\ y - x \in Int
      /\ M * (y - x) = (M * y) - (M * x)
  OBVIOUS
<1>7. AsInt(m + k) - AsInt(m) - k = M * (y - x)
  BY <1>4, <1>5, <1>6, SharedAssumption
<1> QED
  BY <1>2, <1>6, <1>7, MultipleMod

-----------------------------------------------------------------------------
(* Types                                                                    *)

(* The connection has a rowid to tell when an INSERT has been executed.     *)
TypeInv ==
  /\ TypeOK
  /\ \A t \in Thread : pc[t] = "inserted" => last # 0

LEMMA TypeInit == Init => TypeInv
BY SharedAssumption DEF Init, TypeInv, TypeOK, Calls, Idle, Rowid

LEMMA WritesCount ==
  ASSUME TypeOK, NEW n \in Nat, Writes(n)
  PROVE  n \in 0 .. MaxChanges /\ total' \in 0 .. MaxChanges
BY SharedAssumption DEF TypeOK, Writes

LEMMA TypeNext == TypeInv /\ [Next]_vars => TypeInv'
<1> SUFFICES ASSUME TypeInv, [Next]_vars PROVE TypeInv'
  OBVIOUS
<1> USE SharedAssumption DEF TypeInv, Idle
<1>1. CASE UNCHANGED vars
  BY <1>1 DEF TypeOK, vars
<1>2. CASE Next
  <2> SUFFICES ASSUME NEW t \in Thread, Step(t), UNCHANGED locked PROVE TypeInv'
    BY <1>2 DEF Next
  <2>1. CASE InsertExecute(t)
    <3>1. total' \in 0 .. MaxChanges
      BY <2>1, WritesCount DEF InsertExecute
    <3> QED
      BY <2>1, <3>1 DEF TypeOK, InsertExecute, Calls, Rowid
  <2>2. CASE InsertLearnsRowid(t)
    BY <2>2 DEF TypeInv, TypeOK, InsertLearnsRowid, Learnt, Calls, Idle
  <2>3. CASE UpdateEntity(t)
    <3>1. Cardinality(rows \cap {entity[t]}) \in Nat
      BY RowsCounted DEF TypeOK
    <3> QED
      BY <2>3, <3>1, WritesCount DEF TypeOK, UpdateEntity
  <2>4. CASE RemoveEntity(t)
    <3>1. Cardinality(rows \cap {entity[t]}) \in Nat
      BY RowsCounted DEF TypeOK
    <3>2. total' \in 0 .. MaxChanges
      BY <2>4, <3>1, WritesCount DEF RemoveEntity
    <3> QED
      BY <2>4, <3>2 DEF TypeOK, RemoveEntity
  <2>5. CASE RemoveCounts(t)
    <3>1. AsInt(total) \in Int
      BY AsIntType DEF TypeOK
    <3> QED
      BY <2>5, <3>1 DEF TypeOK, RemoveCounts, Calls
  <2>6. CASE \E S \in SUBSET Rowid : RemoveExecute(t, S)
    <3>1. PICK S \in SUBSET Rowid : RemoveExecute(t, S)
      BY <2>6
    <3>2. Cardinality(S) \in Nat
      BY RowsCounted
    <3>3. Cardinality(S) \in 0 .. MaxChanges /\ total' \in 0 .. MaxChanges
      BY <3>1, <3>2, WritesCount DEF RemoveExecute
    <3> QED
      BY <3>1, <3>3 DEF TypeOK, RemoveExecute, Calls
  <2>7. CASE RemoveThrows(t)
    BY <2>7 DEF TypeOK, RemoveThrows, Calls
  <2>8. CASE RemoveReturns(t)
    <3>1. Counted(t) \in Int
      BY AsIntType DEF TypeOK, Counted
    <3> QED
      BY <2>8, <3>1 DEF TypeOK, RemoveReturns, Calls
  <2> QED
    BY <2>1, <2>2, <2>3, <2>4, <2>5, <2>6, <2>7, <2>8 DEF Step
<1> QED
  BY <1>1, <1>2 DEF Next

(* Every reachable state is well typed: above all, an entity never learns   *)
(* the 0 that last_insert_rowid() returns on a connection without INSERTs.  *)
THEOREM TypeCorrect == Spec => []TypeOK
<1>1. TypeInv => TypeOK
  BY DEF TypeInv
<1> QED
  BY TypeInit, TypeNext, <1>1, PTL DEF Spec

-----------------------------------------------------------------------------
(* Programs with a lock                                                     *)

(* One thread at a time is in an ORM call, and between execute() and the    *)
(* question for the rowid the connection remembers the rowid of that INSERT.*)
LockInv ==
  locked =>
    /\ \A t, u \in Thread : pc[t] # Idle /\ pc[u] # Idle => t = u
    /\ \A t \in Thread : pc[t] = "inserted" => last = given[t]
    /\ SavedRowIsOwn

LEMMA LockInit == Init => LockInv
BY DEF Init, LockInv, SavedRowIsOwn, Idle

LEMMA LockNext == TypeInv /\ LockInv /\ [Next]_vars => LockInv'
<1> SUFFICES ASSUME TypeInv, LockInv, [Next]_vars, locked' PROVE LockInv'
  BY DEF LockInv
<1> USE DEF TypeInv, TypeOK, Idle
<1>1. CASE UNCHANGED vars
  BY <1>1 DEF LockInv, SavedRowIsOwn, vars
<1>2. CASE Next
  <2> SUFFICES ASSUME NEW t \in Thread, Step(t), UNCHANGED locked PROVE LockInv'
    BY <1>2 DEF Next
  <2>a. /\ \A u, v \in Thread : pc[u] # Idle /\ pc[v] # Idle => u = v
        /\ \A u \in Thread : pc[u] = "inserted" => last = given[u]
        /\ \A u \in Thread :
             pc[u] # "inserted" /\ entity[u] >= 0 => entity[u] = given[u]
    BY DEF LockInv, SavedRowIsOwn
  <2>1. CASE InsertExecute(t)
    BY <2>1, <2>a DEF LockInv, SavedRowIsOwn, InsertExecute, Enters
  <2>2. CASE InsertLearnsRowid(t)
    BY <2>2, <2>a DEF LockInv, SavedRowIsOwn, InsertLearnsRowid, Learnt
  <2>3. CASE UpdateEntity(t)
    BY <2>3, <2>a DEF LockInv, SavedRowIsOwn, UpdateEntity, Enters
  <2>4. CASE RemoveEntity(t)
    BY <2>4, <2>a DEF LockInv, SavedRowIsOwn, RemoveEntity, Enters
  <2>5. CASE RemoveCounts(t)
    BY <2>5, <2>a DEF LockInv, SavedRowIsOwn, RemoveCounts, Enters
  <2>6. CASE \E S \in SUBSET Rowid : RemoveExecute(t, S)
    BY <2>6, <2>a DEF LockInv, SavedRowIsOwn, RemoveExecute
  <2>7. CASE RemoveThrows(t)
    BY <2>7, <2>a DEF LockInv, SavedRowIsOwn, RemoveThrows
  <2>8. CASE RemoveReturns(t)
    BY <2>8, <2>a DEF LockInv, SavedRowIsOwn, RemoveReturns
  <2> QED
    BY <2>1, <2>2, <2>3, <2>4, <2>5, <2>6, <2>7, <2>8 DEF Step
<1> QED
  BY <1>1, <1>2 DEF Next

(* If the program serializes its ORM calls, every saved entity knows the    *)
(* rowid of its own row, whatever the threads save, update and remove.      *)
THEOREM LockedSavesAreOwn == Spec => []LockedSaveIsOwn
<1>1. LockInv => LockedSaveIsOwn
  BY DEF LockInv, LockedSaveIsOwn
<1> QED
  BY TypeInit, TypeNext, LockInit, LockNext, <1>1, PTL DEF Spec

-----------------------------------------------------------------------------
(* orm::remove                                                              *)

(* What t read from total_changes() is a count m from before the d rows of  *)
(* its own DELETE; under a lock only those have been written since.         *)
Since(t, d) ==
  \E m \in Nat :
    /\ m + d <= total
    /\ before[t] = AsInt(m)
    /\ locked => m + d = total

CountInv ==
  \A t \in Thread :
    /\ pc[t] = "counting" => Since(t, 0)
    /\ pc[t] = "deleted" => Since(t, deleted[t])

LEMMA CountInit == Init => CountInv
BY DEF Init, CountInv, Idle

(* A thread that does not step keeps its count; under a lock nobody steps.  *)
LEMMA SinceKept ==
  ASSUME TypeInv, LockInv, UNCHANGED locked,
         NEW t \in Thread, pc[t] # Idle,
         before'[t] = before[t], total' \in Nat, total' >= total,
         locked => total' = total,
         NEW d \in Nat, Since(t, d)
  PROVE  Since(t, d)'
BY DEF Since, TypeInv, TypeOK

LEMMA CountNext ==
  TypeInv /\ TypeInv' /\ LockInv /\ CountInv /\ [Next]_vars => CountInv'
<1> SUFFICES ASSUME TypeInv, TypeInv', LockInv, CountInv, [Next]_vars
             PROVE  CountInv'
  OBVIOUS
<1> USE DEF Idle
<1>1. CASE UNCHANGED vars
  BY <1>1 DEF CountInv, Since, vars
<1>2. CASE Next
  <2>0. PICK t \in Thread : Step(t) /\ UNCHANGED locked
    BY <1>2 DEF Next
  <2>1. /\ total \in Nat /\ total' \in Nat
        /\ \A u \in Thread : deleted[u] \in Nat
        /\ pc \in [Thread -> Calls]
    BY SharedAssumption DEF TypeInv, TypeOK
  <2>2. total' >= total
    <3>1. ASSUME NEW n \in Nat, Writes(n) PROVE total' >= total
      BY <2>1, <3>1 DEF Writes
    <3>2. Cardinality(rows \cap {entity[t]}) \in Nat
      BY RowsCounted DEF TypeInv, TypeOK
    <3>3. CASE InsertExecute(t)
      BY <3>1, <3>3 DEF InsertExecute
    <3>4. CASE UpdateEntity(t)
      BY <3>1, <3>2, <3>4 DEF UpdateEntity
    <3>5. CASE RemoveEntity(t)
      BY <3>1, <3>2, <3>5 DEF RemoveEntity
    <3>6. CASE \E S \in SUBSET Rowid : RemoveExecute(t, S)
      <4>1. PICK S \in SUBSET Rowid : RemoveExecute(t, S)
        BY <3>6
      <4>2. Cardinality(S) \in Nat
        BY RowsCounted
      <4> QED
        BY <3>1, <4>1, <4>2 DEF RemoveExecute
    <3>7. CASE \/ InsertLearnsRowid(t) \/ RemoveCounts(t)
               \/ RemoveThrows(t) \/ RemoveReturns(t)
      BY <2>1, <3>7
      DEF InsertLearnsRowid, RemoveCounts, RemoveThrows, RemoveReturns
    <3> QED
      BY <2>0, <3>3, <3>4, <3>5, <3>6, <3>7 DEF Step
  <2>3. ASSUME NEW u \in Thread, u # t
        PROVE  /\ pc'[u] = "counting" => Since(u, 0)'
               /\ pc'[u] = "deleted" => Since(u, deleted[u])'
    <3>1. pc'[u] = pc[u] /\ before'[u] = before[u] /\ deleted'[u] = deleted[u]
      BY <2>0, <2>3 DEF Step, InsertExecute, InsertLearnsRowid, UpdateEntity,
         RemoveEntity, RemoveCounts, RemoveExecute, RemoveThrows, RemoveReturns,
         TypeInv, TypeOK
    <3>2. locked /\ pc[u] # Idle => FALSE
      BY <2>0, <2>3 DEF LockInv, Step, InsertExecute, InsertLearnsRowid,
         UpdateEntity, RemoveEntity, RemoveCounts, RemoveExecute, RemoveThrows,
         RemoveReturns, Enters
    <3>3. ASSUME pc'[u] = "counting" PROVE Since(u, 0)'
      BY <2>0, <2>1, <2>2, <3>1, <3>2, <3>3, SinceKept DEF CountInv
    <3>4. ASSUME pc'[u] = "deleted" PROVE Since(u, deleted[u])'
      <4>1. Since(u, deleted[u])
        BY <3>1, <3>4 DEF CountInv
      <4>2. PICK d \in Nat : d = deleted[u]
        BY <2>1
      <4>3. Since(u, d)'
        BY <2>0, <2>1, <2>2, <3>1, <3>2, <3>4, <4>1, <4>2, SinceKept
      <4> QED
        BY <3>1, <4>2, <4>3 DEF Since
    <3> QED
      BY <3>3, <3>4
  <2>4. /\ pc'[t] = "counting" => Since(t, 0)'
        /\ pc'[t] = "deleted" => Since(t, deleted[t])'
    <3>1. CASE RemoveCounts(t)
      BY <3>1, <2>1 DEF RemoveCounts, Since, TypeInv, TypeOK
    <3>2. CASE \E S \in SUBSET Rowid : RemoveExecute(t, S)
      <4>1. PICK S \in SUBSET Rowid : RemoveExecute(t, S)
        BY <3>2
      <4>2. Cardinality(S) \in Nat
        BY RowsCounted
      <4>3. Since(t, 0)
        BY <4>1 DEF RemoveExecute, CountInv
      <4> QED
        BY <2>0, <2>1, <4>1, <4>2, <4>3
        DEF RemoveExecute, Since, Writes, TypeInv, TypeOK
    <3>3. CASE \/ InsertExecute(t) \/ InsertLearnsRowid(t)
               \/ UpdateEntity(t) \/ RemoveEntity(t)
               \/ RemoveThrows(t) \/ RemoveReturns(t)
      BY <3>3, <2>1 DEF InsertExecute, InsertLearnsRowid, UpdateEntity,
         RemoveEntity, RemoveThrows, RemoveReturns, Enters
    <3> QED
      BY <2>0, <3>1, <3>2, <3>3 DEF Step
  <2> QED
    BY <2>3, <2>4 DEF CountInv
<1> QED
  BY <1>1, <1>2 DEF Next

LEMMA SharedInvariant == Spec => [](TypeInv /\ LockInv /\ CountInv)
<1>1. Init => TypeInv /\ LockInv /\ CountInv
  BY TypeInit, LockInit, CountInit
<1>2. TypeInv /\ LockInv /\ CountInv /\ [Next]_vars
        => (TypeInv /\ LockInv /\ CountInv)'
  BY TypeNext, LockNext, CountNext
<1> QED
  BY <1>1, <1>2, PTL DEF Spec

(* What RemoveReturns computes from the count that t read.                  *)
LEMMA Returned ==
  ASSUME TypeInv, CountInv, NEW t \in Thread, RemoveReturns(t)
  PROVE  \E m \in Nat :
           /\ m + deleted[t] <= total
           /\ result'[t] = AsInt(total) - AsInt(m)
           /\ locked => m + deleted[t] = total
BY DEF TypeInv, TypeOK, CountInv, Since, RemoveReturns, Counted

(* Under a lock of the program orm::remove returns what its DELETE removed, *)
(* and modulo 2^32 even when total_changes() has wrapped in between.        *)
THEOREM RemovesAreCounted == Spec => RemoveCountIsExact
<1>1. ASSUME TypeInv, CountInv, [Next]_vars
      PROVE  [\A t \in Thread : locked /\ RemoveReturns(t) =>
                /\ (result'[t] - deleted[t]) % IntModulus = 0
                /\ total <= IntMax => result'[t] = deleted[t]]_vars
  <2> SUFFICES ASSUME NEW t \in Thread, locked, RemoveReturns(t)
               PROVE  /\ (result'[t] - deleted[t]) % IntModulus = 0
                      /\ total <= IntMax => result'[t] = deleted[t]
    OBVIOUS
  <2>1. PICK m \in Nat : /\ m + deleted[t] = total
                         /\ result'[t] = AsInt(total) - AsInt(m)
    BY <1>1, Returned
  <2>2. total \in Nat /\ deleted[t] \in Nat
    BY <1>1, SharedAssumption DEF TypeInv, TypeOK
  <2>3. (AsInt(m + deleted[t]) - AsInt(m) - deleted[t]) % IntModulus = 0
    <3>1. PICK k \in Int : k = deleted[t]
      BY <2>2
    <3>2. (AsInt(m + k) - AsInt(m) - k) % IntModulus = 0
      BY AsIntDifference
    <3> QED
      BY <3>1, <3>2
  <2>4. total <= IntMax => AsInt(total) = total /\ AsInt(m) = m
    BY <2>1, <2>2, SharedAssumption, AsIntSmall
  <2> QED
    BY <2>1, <2>2, <2>3, <2>4
<1> QED
  BY <1>1, SharedInvariant, PTL DEF Spec, RemoveCountIsExact

(* Without one it may count rows of others, but never misses its own.       *)
THEOREM RemovesAreNotMissed == Spec => RemoveCountIsEnough
<1>1. ASSUME TypeInv, CountInv, [Next]_vars
      PROVE  [\A t \in Thread :
                RemoveReturns(t) /\ total <= IntMax
                  => result'[t] >= deleted[t]]_vars
  <2> SUFFICES ASSUME NEW t \in Thread, RemoveReturns(t), total <= IntMax
               PROVE  result'[t] >= deleted[t]
    OBVIOUS
  <2>1. PICK m \in Nat : /\ m + deleted[t] <= total
                         /\ result'[t] = AsInt(total) - AsInt(m)
    BY <1>1, Returned
  <2>2. total \in Nat /\ deleted[t] \in Nat
    BY <1>1, SharedAssumption DEF TypeInv, TypeOK
  <2>3. AsInt(total) = total /\ AsInt(m) = m
    BY <2>1, <2>2, SharedAssumption, AsIntSmall
  <2> QED
    BY <2>1, <2>2, <2>3
<1> QED
  BY <1>1, SharedInvariant, PTL DEF Spec, RemoveCountIsEnough
=============================================================================
