----------------------- MODULE EntityExclusiveProofs -----------------------
(***************************************************************************)
(* Proofs about entities in a program that keeps to the discipline under   *)
(* which the ORM promises something: one entity per row, no foreign write  *)
(* to a row that an entity holds, no rollback under a live entity, and no  *)
(* key that the program assigns.  Every theorem names what it assumes.     *)
(***************************************************************************)
EXTENDS EntityProofs

-----------------------------------------------------------------------------
(* A stored entity's row exists and is its own.  Inductive together with    *)
(* NoAliasing: an UPDATE or DELETE of one entity would reach the row of     *)
(* another if they shared it, and a new row takes a free number, which no   *)
(* stored entity can have because its row exists.                           *)
OwnInv ==
  /\ KeyInv
  /\ txn = None
  /\ NoAliasing
  /\ StoredRowIsOwn

Exclusive == PkFields = {} /\ Env \subseteq {"update_fault"}

LEMMA OwnInvInit == Init => OwnInv
BY KeyInvInit DEF Init, OwnInv, NoAliasing, StoredRowIsOwn, Stored

(* Steps after which every stored entity was stored in the same row before, *)
(* and the row is still the same one.                                       *)
LEMMA OwnFrame ==
  ASSUME OwnInv,
         \A d \in live' : rowid'[d] >= 0 =>
           /\ d \in live /\ rowid'[d] = rowid[d] /\ origin'[d] = origin[d]
           /\ rows'[rowid[d]] # None
           /\ rows'[rowid[d]].tag = rows[rowid[d]].tag
  PROVE  NoAliasing' /\ StoredRowIsOwn'
<1>1. NoAliasing'
  BY DEF OwnInv, NoAliasing, Stored
<1>2. StoredRowIsOwn'
  BY DEF OwnInv, StoredRowIsOwn, Stored
<1>3. QED
  BY <1>1, <1>2

LEMMA StoredRow ==
  ASSUME OwnInv, NEW e \in live, rowid[e] >= 0
  PROVE  /\ e \in Entity /\ rowid[e] \in Rowid
         /\ rowid[e] \in Occupied /\ rows[rowid[e]] \in Row
         /\ rows[rowid[e]].tag = origin[e]
<1>1. e \in Entity
  BY DEF OwnInv, KeyInv, TypeInv, TypeOK
<1>2. rowid[e] \in Rowid \cup {-1} /\ rows \in Table
  BY <1>1 DEF OwnInv, KeyInv, TypeInv, TypeOK
<1>3. rowid[e] \in Rowid
  BY <1>2
<1>4. rows[rowid[e]] # None /\ rows[rowid[e]].tag = origin[e]
  BY DEF OwnInv, StoredRowIsOwn, Stored
<1>5. QED
  BY <1>1, <1>2, <1>3, <1>4 DEF Occupied, Table

(* Without a transaction a statement that throws changes no row.            *)
LEMMA StepThrowsOwn ==
  ASSUME OwnInv, StepThrows
  PROVE  rows' = rows /\ txn' = None
BY DEF OwnInv, StepThrows

LEMMA OwnInsert ==
  ASSUME OwnInv, NEW e \in live, InsertOk(e)
  PROVE  NoAliasing' /\ StoredRowIsOwn'
<1>1. PICK r \in Rowid :
        /\ ~Refused(InsertCells(e, r), r, Occupied)
        /\ rows' = [rows EXCEPT ![r] = [cells |-> InsertCells(e, r),
                                        tag |-> nextTag + 1]]
        /\ rowid' = [rowid EXCEPT ![e] = r]
  BY DEF InsertOk
<1>2. /\ live' = live /\ origin' = [origin EXCEPT ![e] = nextTag + 1]
      /\ rows \in Table /\ rowid \in [Entity -> Rowid \cup {-1}]
      /\ origin \in [Entity -> Nat] /\ live \subseteq Entity
  BY DEF InsertOk, OwnInv, KeyInv, TypeInv, TypeOK
<1>3. r \notin Occupied
  BY <1>1 DEF Refused, Conflict
<1>4. /\ rowid'[e] = r /\ origin'[e] = nextTag + 1
      /\ rows'[r].tag = nextTag + 1
  BY <1>1, <1>2 DEF Table
<1>5. rows'[r] # None
  <2>1. rows'[r] \in Row
    <3>1. mem \in [Entity -> Members] /\ e \in Entity /\ nextTag \in Nat
      BY DEF OwnInv, KeyInv, TypeInv, TypeOK
    <3>2. r \in Int
      BY EntityAssumption
    <3>3. InsertCells(e, r) \in Cells
      <4>1. InsertCells(e, r) \in [Field -> DbValue]
        BY <3>1, <3>2, InsertTypes
      <4>2. QED
        BY <1>1, <4>1, TakenCells
    <3>4. rows'[r] = [cells |-> InsertCells(e, r), tag |-> nextTag + 1]
      BY <1>1, <1>2 DEF Table
    <3>5. QED
      BY <3>1, <3>3, <3>4 DEF Row
  <2>2. QED
    BY <2>1, NoneAssumption
<1>6. ASSUME NEW d \in live, d # e, rowid[d] >= 0
      PROVE  /\ rowid'[d] = rowid[d] /\ rowid[d] # r /\ origin'[d] = origin[d]
             /\ rows'[rowid[d]] = rows[rowid[d]]
  <2>1. rowid[d] \in Occupied
    BY <1>6, StoredRow
  <2>2. QED
    BY <1>1, <1>2, <1>3, <1>6, <2>1 DEF Occupied, Table
<1>7. ASSUME NEW d \in live, d # e, rowid'[d] >= 0
      PROVE  rowid[d] >= 0
  BY <1>1, <1>2, <1>7
<1>8. NoAliasing'
  BY <1>2, <1>4, <1>6, <1>7 DEF OwnInv, NoAliasing, Stored
<1>9. StoredRowIsOwn'
  BY <1>2, <1>4, <1>5, <1>6, <1>7 DEF OwnInv, StoredRowIsOwn, Stored
<1>10. QED
  BY <1>8, <1>9

LEMMA OwnUpdate ==
  ASSUME Exclusive, OwnInv, NEW e \in live, UpdateOk(e)
  PROVE  NoAliasing' /\ StoredRowIsOwn'
<1>1. /\ Stored(e) /\ rowid[e] >= 0 /\ rows' = UpdatedRows(e)
      /\ live' = live /\ rowid' = rowid /\ origin' = origin
  BY DEF UpdateOk, Stored
<1>2. UpdateId(e) = rowid[e]
  BY <1>1, UpdateStays DEF Exclusive, OwnInv
<1>3. ASSUME NEW d \in live, rowid[d] >= 0
      PROVE  rows'[rowid[d]] # None /\ rows'[rowid[d]].tag = rows[rowid[d]].tag
  <2>1. rowid[e] \in Occupied /\ rowid[d] \in Occupied /\ rowid[d] \in Rowid
    BY <1>1, <1>3, StoredRow
  <2>2. CASE rowid[d] = rowid[e]
    <3>1. rows'[rowid[d]] = [cells |-> UpdateCells(e), tag |-> rows[rowid[e]].tag]
      BY <1>1, <1>2, <2>1, <2>2 DEF UpdatedRows
    <3>2. mem \in [Entity -> Members] /\ e \in Entity
      BY DEF OwnInv, KeyInv, TypeInv, TypeOK
    <3>3. rows'[rowid[d]] \in Row
      <4>1. UpdateCells(e) \in [Field -> DbValue] /\ ~UpdateRefused(e)
        BY <3>2, UpdateTypes DEF UpdateOk
      <4>2. UpdateCells(e) \in Cells
        BY <2>1, <4>1, TakenCells DEF UpdateRefused
      <4>3. rows[rowid[e]].tag \in Nat
        BY <1>1, StoredRow DEF Row
      <4>4. QED
        BY <3>1, <4>2, <4>3 DEF Row
    <3>4. QED
      BY <2>2, <3>1, <3>3, NoneAssumption
  <2>3. CASE rowid[d] # rowid[e]
    <3>1. rows'[rowid[d]] = rows[rowid[d]]
      BY <1>1, <1>2, <2>1, <2>3 DEF UpdatedRows
    <3>2. QED
      BY <2>1, <3>1 DEF Occupied
  <2>4. QED
    BY <2>2, <2>3
<1>4. QED
  BY <1>1, <1>3, OwnFrame

LEMMA OwnEntity ==
  ASSUME Exclusive, OwnInv, NEW e \in Entity, EntityStep(e)
  PROVE  txn' = None /\ NoAliasing' /\ StoredRowIsOwn'
<1>1. TypeOK
  BY DEF OwnInv, KeyInv, TypeInv
<1>2. \A d \in live : rowid[d] >= 0 => rows[rowid[d]] # None
  BY DEF OwnInv, StoredRowIsOwn, Stored
<1>3. ASSUME /\ UNCHANGED <<rowid, origin, rows, txn>>
             /\ \A d \in live' : d \in live \/ rowid[d] = -1
      PROVE  txn' = None /\ NoAliasing' /\ StoredRowIsOwn'
  BY <1>2, <1>3, OwnFrame DEF OwnInv
<1>4. CASE Construct(e)
  <2>1. \A d \in live' : d \in live \/ rowid[d] = -1
    BY <1>4 DEF Construct, OwnInv, KeyInv, Fresh
  <2>2. QED
    BY <1>3, <1>4, <2>1 DEF Construct
<1>5. CASE Destroy(e)
  <2>1. /\ rows' = rows /\ txn' = txn /\ live' = live \ {e}
        /\ \A d \in live' : rowid'[d] = rowid[d] /\ origin'[d] = origin[d]
    BY <1>1, <1>5 DEF Destroy, TypeOK
  <2>2. QED
    BY <1>2, <2>1, OwnFrame DEF OwnInv
<1>6. ASSUME NEW f \in Field, NEW x \in MemberValue(f), Assign(e, f, x)
      PROVE  txn' = None /\ NoAliasing' /\ StoredRowIsOwn'
  BY <1>3, <1>6 DEF Assign
<1>7. CASE Reset(e)
  BY <1>3, <1>7 DEF Reset
<1>8. CASE InsertOk(e)
  <2>1. e \in live /\ txn' = txn
    BY <1>8 DEF InsertOk
  <2>2. QED
    BY <1>8, <2>1, OwnInsert DEF OwnInv
<1>9. CASE InsertThrows(e)
  BY <1>3, <1>9, StepThrowsOwn DEF InsertThrows, objVars, OwnInv
<1>10. CASE UpdateOk(e)
  <2>1. e \in live /\ txn' = txn
    BY <1>10 DEF UpdateOk, Stored
  <2>2. QED
    BY <1>10, <2>1, OwnUpdate DEF OwnInv
<1>11. CASE UpdateThrows(e)
  BY <1>3, <1>11, StepThrowsOwn DEF UpdateThrows, OwnInv
<1>12. CASE UpdatePrepareThrows(e)
  BY <1>3, <1>12 DEF UpdatePrepareThrows, objVars
<1>13. CASE RemoveNothing(e)
  BY <1>3, <1>13 DEF RemoveNothing, objVars
<1>14. CASE RemoveOk(e)
  <2>1. /\ Stored(e) /\ live' = live /\ origin' = origin /\ txn' = txn
        /\ rows' = [rows EXCEPT ![rowid[e]] = None] /\ rowid'[e] = -1
        /\ \A d \in live \ {e} : rowid'[d] = rowid[d]
    BY <1>1, <1>14 DEF RemoveOk, TypeOK, Stored
  <2>2. ASSUME NEW d \in live \ {e}, rowid[d] >= 0
        PROVE  rows'[rowid[d]] = rows[rowid[d]]
    <3>1. rowid[d] # rowid[e]
      BY <2>1, <2>2 DEF OwnInv, NoAliasing, Stored
    <3>2. QED
      BY <1>1, <2>1, <2>2, <3>1, StoredRow DEF TypeOK, Table
  <2>3. QED
    BY <1>2, <2>1, <2>2, OwnFrame DEF OwnInv
<1>15. CASE RemoveThrows(e)
  BY <1>3, <1>15, StepThrowsOwn DEF RemoveThrows, objVars, OwnInv
<1>16. QED
  BY <1>4, <1>5, <1>6, <1>7, <1>8, <1>9, <1>10, <1>11, <1>12, <1>13, <1>14, <1>15
     DEF EntityStep, Save, Remove

LEMMA OwnSelect ==
  ASSUME Exclusive, OwnInv, NEW E \in SUBSET Entity, NEW h \in [E -> Rowid],
         Select(E, h)
  PROVE  txn' = None /\ NoAliasing' /\ StoredRowIsOwn'
<1>1. /\ \A e \in E : /\ h[e] \in Occupied /\ ~Held(h[e])
                      /\ rowid'[e] = h[e] /\ origin'[e] = rows[h[e]].tag
      /\ \A d, e \in E : h[d] = h[e] => d = e
      /\ live' = live \cup E /\ E \cap live = {}
      /\ rows' = rows /\ txn' = None
  BY DEF Select, Exclusive, OwnInv
<1>2. \A d \in live : d \in Entity \ E
  BY <1>1 DEF OwnInv, KeyInv, TypeInv, TypeOK
<1>3. \A d \in live : rowid'[d] = rowid[d] /\ origin'[d] = origin[d]
  BY <1>2 DEF Select
<1>4. NoAliasing'
  <2>1. SUFFICES ASSUME NEW d \in live', NEW e \in live', rowid'[d] >= 0,
                        rowid'[d] = rowid'[e]
                 PROVE  d = e
    BY DEF NoAliasing, Stored
  <2>2. CASE d \in E /\ e \in E
    BY <1>1, <2>1, <2>2
  <2>3. CASE d \in live /\ e \in live
    BY <1>3, <2>1, <2>3 DEF OwnInv, NoAliasing, Stored
  <2>4. CASE d \in live /\ e \in E
    BY <1>1, <1>3, <2>1, <2>4 DEF Held
  <2>5. CASE d \in E /\ e \in live
    BY <1>1, <1>3, <2>1, <2>5 DEF Held
  <2>6. QED
    BY <1>1, <2>2, <2>3, <2>4, <2>5
<1>5. StoredRowIsOwn'
  <2>1. \A e \in E : rows'[rowid'[e]] # None /\ rows'[rowid'[e]].tag = origin'[e]
    BY <1>1 DEF Occupied
  <2>2. \A e \in live : rowid'[e] >= 0 =>
          rows'[rowid'[e]] # None /\ rows'[rowid'[e]].tag = origin'[e]
    BY <1>1, <1>3 DEF OwnInv, StoredRowIsOwn, Stored
  <2>3. QED
    BY <1>1, <2>1, <2>2 DEF StoredRowIsOwn, Stored
<1>6. QED
  BY <1>1, <1>4, <1>5

(* SQL that goes past the entities leaves the rows that they hold alone.    *)
LEMMA UnheldRows ==
  ASSUME OwnInv, UNCHANGED <<objVars, txn>>,
         \A d \in live : rowid[d] >= 0 => rows'[rowid[d]] = rows[rowid[d]]
  PROVE  txn' = None /\ NoAliasing' /\ StoredRowIsOwn'
<1>1. \A d \in live : rowid[d] >= 0 => rows[rowid[d]] # None
  BY DEF OwnInv, StoredRowIsOwn, Stored
<1>2. QED
  BY <1>1, OwnFrame DEF OwnInv, objVars

LEMMA ClassRemoveUnheld ==
  ASSUME Exclusive, OwnInv, NEW S \in SUBSET Rowid, ClassRemove(S),
         NEW d \in live, rowid[d] >= 0
  PROVE  rows'[rowid[d]] = rows[rowid[d]]
<1>1. rowid[d] \in Rowid
  BY StoredRow
<1>2. rowid[d] \notin S
  BY DEF ClassRemove, Exclusive, Held
<1>3. QED
  BY <1>1, <1>2 DEF ClassRemove

LEMMA ExecUpdateUnheld ==
  ASSUME Exclusive, OwnInv, NEW r \in Rowid, NEW f \in Field,
         NEW v \in Value \cup {Null}, ExecUpdate(r, f, v),
         NEW d \in live, rowid[d] >= 0
  PROVE  rows'[rowid[d]] = rows[rowid[d]]
<1>1. rowid[d] \in Rowid /\ rows \in Table
  BY StoredRow DEF OwnInv, KeyInv, TypeInv, TypeOK
<1>2. rowid[d] # r
  BY DEF ExecUpdate, Exclusive, Held
<1>3. QED
  BY <1>1, <1>2 DEF ExecUpdate, Table

LEMMA OwnStatement ==
  ASSUME Exclusive, OwnInv, StatementStep
  PROVE  txn' = None /\ NoAliasing' /\ StoredRowIsOwn'
<1>1. ASSUME NEW E \in SUBSET Entity, NEW h \in [E -> Rowid], Select(E, h)
      PROVE  txn' = None /\ NoAliasing' /\ StoredRowIsOwn'
  BY <1>1, OwnSelect
<1>2. ASSUME NEW S \in SUBSET Rowid, ClassRemove(S)
      PROVE  txn' = None /\ NoAliasing' /\ StoredRowIsOwn'
  <2>1. UNCHANGED <<objVars, txn>>
    BY <1>2 DEF ClassRemove
  <2>2. QED
    BY <1>2, <2>1, ClassRemoveUnheld, UnheldRows
<1>3. ASSUME NEW r \in Rowid, NEW f \in Field, NEW v \in Value \cup {Null},
             ExecUpdate(r, f, v)
      PROVE  txn' = None /\ NoAliasing' /\ StoredRowIsOwn'
  <2>1. UNCHANGED <<objVars, txn>>
    BY <1>3 DEF ExecUpdate
  <2>2. QED
    BY <1>3, <2>1, ExecUpdateUnheld, UnheldRows
<1>4. CASE StatementThrows
  BY <1>4, StepThrowsOwn, UnheldRows DEF StatementThrows, OwnInv
<1>5. ~(Begin \/ Commit \/ Rollback)
  BY DEF Begin, Commit, Rollback, Exclusive, OwnInv
<1>6. QED
  BY <1>1, <1>2, <1>3, <1>4, <1>5 DEF StatementStep

LEMMA OwnInvStep == Exclusive /\ OwnInv /\ [Next]_vars => OwnInv'
<1>1. SUFFICES ASSUME Exclusive, OwnInv, [Next]_vars PROVE OwnInv'
  OBVIOUS
<1>2. KeyInv'
  BY <1>1, KeyInvStep DEF OwnInv
<1>3. CASE UNCHANGED vars
  <2>1. UNCHANGED <<objVars, txn>> /\ rows' = rows
    BY <1>3 DEF vars, objVars
  <2>2. QED
    BY <1>1, <1>2, <2>1, UnheldRows DEF OwnInv
<1>4. QED
  BY <1>1, <1>2, <1>3, OwnEntity, OwnStatement DEF Next, OwnInv

(* The row of a stored entity exists and is its own, whatever statements    *)
(* fail, for every class without an assignable key.                         *)
THEOREM RowsAreOwn ==
  ASSUME Exclusive
  PROVE  Spec => []StoredRowIsOwn
<1>1. OwnInv => StoredRowIsOwn
  BY DEF OwnInv
<1>2. QED
  BY <1>1, OwnInvInit, OwnInvStep, PTL DEF Spec

(* No two entities are ever bound to one row, although the numbers of       *)
(* deleted rows are given out again.                                        *)
THEOREM NoRowIsShared ==
  ASSUME Exclusive
  PROVE  Spec => []NoAliasing
<1>1. OwnInv => NoAliasing
  BY DEF OwnInv
<1>2. QED
  BY <1>1, OwnInvInit, OwnInvStep, PTL DEF Spec

-----------------------------------------------------------------------------
(* What is_modified() compares with.  The snapshot of a stored entity is    *)
(* what its row holds, or what a typed read makes of it.  This needs an     *)
(* UPDATE that never fails, because update() replaces the snapshot first:   *)
(* no UNIQUE column, no blob that may be empty and no other fault.          *)
Quiet ==
  /\ Exclusive
  /\ Unique = {}
  /\ Env = {}
  /\ \A f \in Field : Kind[f] # "blob"

SnapInv == OwnInv /\ \A e \in live : Stored(e) => Snapshot(e)

LEMMA SnapInvInit == Init => SnapInv
BY OwnInvInit DEF Init, SnapInv, Stored

LEMMA SnapFrame ==
  ASSUME SnapInv,
         \A d \in live' : rowid'[d] >= 0 =>
           /\ d \in live /\ rowid'[d] = rowid[d] /\ vals'[d] = vals[d]
           /\ rows'[rowid[d]] = rows[rowid[d]]
  PROVE  \A e \in live' : Stored(e)' => Snapshot(e)'
BY DEF SnapInv, Stored, Snapshot

LEMMA NoUpdateThrows ==
  ASSUME Quiet, OwnInv, NEW e \in live
  PROVE  ~UpdateThrows(e)
<1>1. SUFFICES ASSUME Stored(e) PROVE ~UpdateRefused(e)
  BY DEF UpdateThrows, Quiet
<1>2. UpdateId(e) = rowid[e]
  BY <1>1, UpdateStays DEF Quiet, Exclusive, OwnInv
<1>3. ~Conflict(UpdateCells(e), UpdateId(e), Occupied \ {rowid[e]})
  BY <1>2 DEF Conflict, Quiet
<1>4. mem[e] \in Members
  BY DEF OwnInv, KeyInv, TypeInv, TypeOK
<1>5. ASSUME NEW f \in Field, UpdateCells(e)[f] = Null
      PROVE  Kind[f] = "opt"
  <2>1. Getter(f, mem[e][f]) = Null
    BY <1>5 DEF UpdateCells, BindDbVal, Quiet
  <2>2. [g \in Field |-> Getter(g, mem[e][g])] \in Cells
    BY <1>4, GetterTypes
  <2>3. QED
    BY <2>1, <2>2 DEF Cells
<1>6. QED
  BY <1>3, <1>5 DEF UpdateRefused, Refused

LEMMA SnapInsert ==
  ASSUME SnapInv, NEW e \in live, InsertOk(e)
  PROVE  \A d \in live' : Stored(d)' => Snapshot(d)'
<1>1. PICK r \in Rowid :
        /\ ~Refused(InsertCells(e, r), r, Occupied)
        /\ rows' = [rows EXCEPT ![r] = [cells |-> InsertCells(e, r),
                                        tag |-> nextTag + 1]]
        /\ rowid' = [rowid EXCEPT ![e] = r]
        /\ vals' = [vals EXCEPT ![e] = InsertVals(e, r)]
  BY DEF InsertOk
<1>2. /\ live' = live /\ live \subseteq Entity /\ rows \in Table
      /\ rowid \in [Entity -> Rowid \cup {-1}] /\ mem \in [Entity -> Members]
      /\ vals \in [Entity -> [Field -> DbValue] \cup {None}] /\ OwnInv
  BY DEF InsertOk, SnapInv, OwnInv, KeyInv, TypeInv, TypeOK
<1>3. Snapshot(e)'
  BY <1>2, SnapshotInserted DEF OwnInv
<1>4. ASSUME NEW d \in live, d # e, Stored(d)'
      PROVE  Snapshot(d)'
  <2>1. rowid'[d] = rowid[d] /\ vals'[d] = vals[d] /\ rowid[d] >= 0
    BY <1>1, <1>2, <1>4 DEF Stored
  <2>2. rowid[d] \in Occupied /\ rowid[d] \in Rowid
    BY <1>2, <2>1, StoredRow
  <2>3. rows'[rowid[d]] = rows[rowid[d]]
    BY <1>1, <1>2, <2>2 DEF Refused, Conflict, Table
  <2>4. Snapshot(d)
    BY <2>1 DEF SnapInv, Stored
  <2>5. QED
    BY <2>1, <2>3, <2>4 DEF Snapshot
<1>5. QED
  BY <1>2, <1>3, <1>4

LEMMA SnapUpdate ==
  ASSUME Quiet, SnapInv, NEW e \in live, UpdateOk(e)
  PROVE  \A d \in live' : Stored(d)' => Snapshot(d)'
<1>1. /\ Stored(e) /\ rowid[e] >= 0 /\ rows' = UpdatedRows(e)
      /\ live' = live /\ rowid' = rowid
      /\ vals' = [vals EXCEPT ![e] = UpdateVals(e)]
  BY DEF UpdateOk, Stored
<1>2. OwnInv /\ mem \in [Entity -> Members] /\ e \in Entity
      /\ vals \in [Entity -> [Field -> DbValue] \cup {None}]
      /\ live \subseteq Entity
  BY DEF SnapInv, OwnInv, KeyInv, TypeInv, TypeOK
<1>3. UpdateId(e) = rowid[e] /\ rowid[e] \in Occupied /\ rowid[e] \in Rowid
  BY <1>1, <1>2, UpdateStays, StoredRow DEF Quiet, Exclusive, OwnInv
<1>4. Snapshot(e)'
  BY <1>2, <1>3, SnapshotUpdated DEF Quiet, Exclusive, OwnInv
<1>5. ASSUME NEW d \in live, d # e, Stored(d)'
      PROVE  Snapshot(d)'
  <2>1. Stored(d) /\ rowid[d] >= 0 /\ vals'[d] = vals[d]
    BY <1>1, <1>2, <1>5 DEF Stored
  <2>2. rowid[d] # rowid[e] /\ rowid[d] \in Rowid
    BY <1>1, <1>2, <1>5, <2>1, StoredRow DEF OwnInv, NoAliasing
  <2>3. rows'[rowid[d]] = rows[rowid[d]]
    BY <1>1, <1>3, <2>2 DEF UpdatedRows
  <2>4. Snapshot(d)
    BY <2>1 DEF SnapInv
  <2>5. QED
    BY <1>1, <2>1, <2>3, <2>4 DEF Snapshot
<1>6. QED
  BY <1>1, <1>4, <1>5

LEMMA SnapEntity ==
  ASSUME Quiet, SnapInv, NEW e \in Entity, EntityStep(e)
  PROVE  \A d \in live' : Stored(d)' => Snapshot(d)'
<1>1. TypeOK /\ OwnInv /\ Exclusive
  BY DEF Quiet, SnapInv, OwnInv, KeyInv, TypeInv
<1>2. ASSUME /\ UNCHANGED <<rowid, vals, rows>>
             /\ \A d \in live' : d \in live \/ rowid[d] = -1
      PROVE  \A d \in live' : Stored(d)' => Snapshot(d)'
  BY <1>2, SnapFrame
<1>3. CASE Construct(e)
  <2>1. \A d \in live' : d \in live \/ rowid[d] = -1
    BY <1>1, <1>3 DEF Construct, OwnInv, KeyInv, Fresh
  <2>2. QED
    BY <1>2, <1>3, <2>1 DEF Construct
<1>4. CASE Destroy(e)
  <2>1. /\ rows' = rows /\ live' = live \ {e}
        /\ \A d \in live' : rowid'[d] = rowid[d] /\ vals'[d] = vals[d]
    BY <1>1, <1>4 DEF Destroy, TypeOK
  <2>2. QED
    BY <2>1, SnapFrame
<1>5. ASSUME NEW f \in Field, NEW x \in MemberValue(f), Assign(e, f, x)
      PROVE  \A d \in live' : Stored(d)' => Snapshot(d)'
  BY <1>2, <1>5 DEF Assign
<1>6. CASE Reset(e)
  BY <1>2, <1>6 DEF Reset
<1>7. CASE InsertOk(e)
  BY <1>7, SnapInsert DEF InsertOk
<1>8. CASE InsertThrows(e)
  BY <1>1, <1>2, <1>8, StepThrowsOwn DEF InsertThrows, objVars
<1>9. CASE UpdateOk(e)
  BY <1>9, SnapUpdate DEF UpdateOk, Stored
<1>10. ~UpdateThrows(e)
  BY <1>1, NoUpdateThrows DEF UpdateThrows, Stored
<1>11. CASE UpdatePrepareThrows(e)
  BY <1>2, <1>11 DEF UpdatePrepareThrows, objVars
<1>12. CASE RemoveNothing(e)
  BY <1>2, <1>12 DEF RemoveNothing, objVars
<1>13. CASE RemoveOk(e)
  <2>1. /\ Stored(e) /\ live' = live /\ vals' = vals
        /\ rows' = [rows EXCEPT ![rowid[e]] = None] /\ rowid'[e] = -1
        /\ \A d \in live \ {e} : rowid'[d] = rowid[d]
    BY <1>1, <1>13 DEF RemoveOk, TypeOK, Stored
  <2>2. ASSUME NEW d \in live \ {e}, rowid[d] >= 0
        PROVE  rows'[rowid[d]] = rows[rowid[d]]
    <3>1. rowid[d] # rowid[e]
      BY <1>1, <2>1, <2>2 DEF OwnInv, NoAliasing, Stored
    <3>2. QED
      BY <1>1, <2>1, <2>2, <3>1, StoredRow DEF TypeOK, Table
  <2>3. QED
    BY <2>1, <2>2, SnapFrame
<1>14. CASE RemoveThrows(e)
  BY <1>1, <1>2, <1>14, StepThrowsOwn DEF RemoveThrows, objVars
<1>15. QED
  BY <1>3, <1>4, <1>5, <1>6, <1>7, <1>8, <1>9, <1>10, <1>11, <1>12, <1>13, <1>14
     DEF EntityStep, Save, Remove

LEMMA SnapSelect ==
  ASSUME Quiet, SnapInv, NEW E \in SUBSET Entity, NEW h \in [E -> Rowid],
         Select(E, h)
  PROVE  \A d \in live' : Stored(d)' => Snapshot(d)'
<1>1. /\ live' = live \cup E /\ E \cap live = {} /\ rows' = rows
      /\ \A e \in E : /\ h[e] \in Occupied /\ rowid'[e] = h[e]
                      /\ vals'[e] = LoadedVals(h[e])
  BY DEF Select
<1>2. live \subseteq Entity /\ KeyInv
  BY DEF SnapInv, OwnInv, KeyInv, TypeInv, TypeOK
<1>3. \A d \in live : rowid'[d] = rowid[d] /\ vals'[d] = vals[d]
  BY <1>1, <1>2 DEF Select
<1>4. ASSUME NEW d \in E
      PROVE  Snapshot(d)'
  BY <1>2, SnapshotLoaded
<1>5. ASSUME NEW d \in live, Stored(d)'
      PROVE  Snapshot(d)'
  <2>1. Stored(d)
    BY <1>3, <1>5 DEF Stored
  <2>2. QED
    BY <1>1, <1>3, <2>1 DEF SnapInv, Snapshot
<1>6. QED
  BY <1>1, <1>4, <1>5

LEMMA SnapUnheld ==
  ASSUME SnapInv, UNCHANGED objVars,
         \A d \in live : rowid[d] >= 0 => rows'[rowid[d]] = rows[rowid[d]]
  PROVE  \A d \in live' : Stored(d)' => Snapshot(d)'
BY SnapFrame DEF objVars

LEMMA SnapStatement ==
  ASSUME Quiet, SnapInv, StatementStep
  PROVE  \A d \in live' : Stored(d)' => Snapshot(d)'
<1>1. Exclusive /\ OwnInv
  BY DEF Quiet, SnapInv
<1>2. ASSUME NEW E \in SUBSET Entity, NEW h \in [E -> Rowid], Select(E, h)
      PROVE  \A d \in live' : Stored(d)' => Snapshot(d)'
  BY <1>2, SnapSelect
<1>3. ASSUME NEW S \in SUBSET Rowid, ClassRemove(S)
      PROVE  \A d \in live' : Stored(d)' => Snapshot(d)'
  <2>1. UNCHANGED objVars
    BY <1>3 DEF ClassRemove
  <2>2. QED
    BY <1>1, <1>3, <2>1, ClassRemoveUnheld, SnapUnheld
<1>4. ASSUME NEW r \in Rowid, NEW f \in Field, NEW v \in Value \cup {Null},
             ExecUpdate(r, f, v)
      PROVE  \A d \in live' : Stored(d)' => Snapshot(d)'
  <2>1. UNCHANGED objVars
    BY <1>4 DEF ExecUpdate
  <2>2. QED
    BY <1>1, <1>4, <2>1, ExecUpdateUnheld, SnapUnheld
<1>5. CASE StatementThrows
  BY <1>1, <1>5, StepThrowsOwn, SnapUnheld DEF StatementThrows
<1>6. ~(Begin \/ Commit \/ Rollback)
  BY <1>1 DEF Begin, Commit, Rollback, Exclusive, OwnInv
<1>7. QED
  BY <1>2, <1>3, <1>4, <1>5, <1>6 DEF StatementStep

LEMMA SnapInvStep == Quiet /\ SnapInv /\ [Next]_vars => SnapInv'
<1>1. SUFFICES ASSUME Quiet, SnapInv, [Next]_vars PROVE SnapInv'
  OBVIOUS
<1>2. OwnInv'
  BY <1>1, OwnInvStep DEF Quiet, SnapInv
<1>3. CASE UNCHANGED vars
  <2>1. UNCHANGED objVars /\ rows' = rows
    BY <1>3 DEF vars, objVars
  <2>2. QED
    BY <1>1, <1>2, <2>1, SnapUnheld DEF SnapInv
<1>4. QED
  BY <1>1, <1>2, <1>3, SnapEntity, SnapStatement DEF Next, SnapInv

(* An entity that is_modified() calls unchanged holds what its row holds.   *)
THEOREM CleanIsPersisted ==
  ASSUME Quiet
  PROVE  Spec => []CleanMeansPersisted
<1>1. SnapInv => CleanMeansPersisted
  <2>1. SUFFICES ASSUME SnapInv, NEW e \in live, Stored(e), ~IsModified(e)
                 PROVE  /\ rows[rowid[e]] # None
                        /\ \A f \in Field :
                             ReadsAs(rows[rowid[e]].cells[f], Getter(f, mem[e][f]))
    BY DEF CleanMeansPersisted
  <2>2. rows[rowid[e]] # None
    BY <2>1 DEF SnapInv, OwnInv, StoredRowIsOwn
  <2>3. \A f \in Field : Getter(f, mem[e][f]) = vals[e][f]
    BY <2>1 DEF IsModified
  <2>4. \A f \in Field : ReadsAs(rows[rowid[e]].cells[f], vals[e][f])
    BY <2>1 DEF SnapInv, Snapshot
  <2>5. QED
    BY <2>2, <2>3, <2>4
<1>2. QED
  BY <1>1, SnapInvInit, SnapInvStep, PTL DEF Spec

-----------------------------------------------------------------------------
(* A second save() does not write.  A class with optional fields is left    *)
(* out: a NULL is read as a zero, which the next save() writes.             *)
LEMMA RecordOf ==
  ASSUME NEW x \in Row
  PROVE  x = [cells |-> x.cells, tag |-> x.tag]
BY DEF Row

LEMMA UnmodifiedUpdate ==
  ASSUME Quiet, \A f \in Field : Kind[f] # "opt", SnapInv,
         NEW e \in live, Stored(e), ~IsModified(e)
  PROVE  UpdatedRows(e) = rows
<1>1. /\ OwnInv /\ rows \in Table /\ e \in Entity /\ vals[e] # None
      /\ vals \in [Entity -> [Field -> DbValue] \cup {None}]
  BY DEF SnapInv, OwnInv, KeyInv, TypeInv, TypeOK, Snapshot
<1>2. UpdateId(e) = rowid[e] /\ rowid[e] \in Occupied /\ rowid[e] \in Rowid
  BY <1>1, UpdateStays, StoredRow DEF Quiet, Exclusive, OwnInv, Stored
<1>3. rows[rowid[e]] \in Row
  BY <1>1, <1>2 DEF Table, Occupied
<1>4. UpdateCells(e) = rows[rowid[e]].cells
  <2>1. rows[rowid[e]].cells \in Cells
    BY <1>3 DEF Row
  <2>2. ASSUME NEW f \in Field
        PROVE  BindDbVal(f, Getter(f, mem[e][f])) = rows[rowid[e]].cells[f]
    <3>1. Getter(f, mem[e][f]) = vals[e][f]
      BY <1>1 DEF IsModified
    <3>2. vals[e][f] \in {rows[rowid[e]].cells[f],
                          ColumnRead(rows[rowid[e]].cells[f])}
      BY DEF SnapInv, Snapshot, ReadsAs
    <3>3. rows[rowid[e]].cells[f] # Null
      BY <2>1 DEF Cells
    <3>4. Kind[f] # "blob"
      BY DEF Quiet
    <3> QED
      BY <3>1, <3>2, <3>3, <3>4 DEF ColumnRead, BindDbVal, Unbound
  <2>3. rows[rowid[e]].cells = [f \in Field |-> rows[rowid[e]].cells[f]]
    BY <2>1 DEF Cells
  <2> QED
    BY <2>2, <2>3 DEF UpdateCells
<1>5. [cells |-> UpdateCells(e), tag |-> rows[rowid[e]].tag] = rows[rowid[e]]
  BY <1>3, <1>4, RecordOf
<1>6. rows = [q \in Rowid |-> rows[q]]
  BY <1>1 DEF Table
<1> QED
  BY <1>2, <1>5, <1>6 DEF UpdatedRows

(* Saving an entity that was only read, or was saved already, leaves the    *)
(* table as it is, also when a member is narrower than its column.          *)
THEOREM UnmodifiedSavesAreNoops ==
  ASSUME Quiet, \A f \in Field : Kind[f] # "opt"
  PROVE  Spec => SaveUnmodifiedIsNoop
<1>1. SnapInv /\ [Next]_vars =>
        [\A e \in live : Stored(e) /\ ~IsModified(e) /\ Save(e) /\ ~threw' =>
           UNCHANGED rows]_vars
  <2> SUFFICES ASSUME SnapInv, NEW e \in live, Stored(e), ~IsModified(e),
                      Save(e), ~threw'
               PROVE  UNCHANGED rows
    OBVIOUS
  <2>1. UpdateOk(e)
    <3>1. ~(rowid[e] < 0)
      <4>1. rowid[e] \in Int /\ rowid[e] >= 0
        BY EntityAssumption, StoredRow DEF SnapInv, Stored
      <4> QED
        BY <4>1
    <3> QED
      BY <3>1 DEF Save, InsertOk, InsertThrows, UpdateThrows,
         UpdatePrepareThrows, StepThrows
  <2> QED
    BY <2>1, UnmodifiedUpdate DEF UpdateOk
<1> QED
  BY <1>1, SnapInvInit, SnapInvStep, PTL DEF Spec, SaveUnmodifiedIsNoop
=============================================================================
