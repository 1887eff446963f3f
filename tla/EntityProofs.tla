---------------------------- MODULE EntityProofs ----------------------------
(***************************************************************************)
(* Proofs about the entities of module Entity, for every class, every set  *)
(* of entities and rowids, and every behaviour of the surrounding program. *)
(***************************************************************************)
EXTENDS Entity, TLAPS

-----------------------------------------------------------------------------
(* What the conversions return.                                             *)

LEMMA SecondsType ==
  ASSUME NEW t \in Int
  PROVE  Seconds(t) \in Int
<1>1. Ticks \in Nat /\ Ticks # 0
  BY CodecAssumption
<1>2. CASE t >= 0
  <2>1. t \div Ticks \in Int
    BY <1>1
  <2>2. QED
    BY <1>2, <2>1 DEF Seconds
<1>3. CASE ~(t >= 0)
  <2>1. -((-t) \div Ticks) \in Int
    BY <1>1
  <2>2. QED
    BY <1>3, <2>1 DEF Seconds
<1>4. QED
  BY <1>2, <1>3

(* The getters of a well-typed object give values for the snapshot in which *)
(* only an optional field is NULL; an empty blob is NULL once it is bound.  *)
LEMMA GetterTypes ==
  ASSUME NEW m \in Members
  PROVE  /\ [f \in Field |-> Getter(f, m[f])] \in Cells
         /\ [f \in Field |-> BindDbVal(f, Getter(f, m[f]))] \in [Field -> DbValue]
<1>1. ASSUME NEW f \in Field
      PROVE  /\ Getter(f, m[f]) \in DbValue
             /\ Getter(f, m[f]) = Null => Kind[f] = "opt"
  <2>1. m[f] \in Member /\ (m[f] = Nullopt => Kind[f] = "opt")
    BY DEF Members
  <2>2. CASE Kind[f] = "time"
    <3>1. m[f] \in Int
      BY <2>1, <2>2 DEF Member
    <3>2. Getter(f, m[f]) = Seconds(m[f])
      BY <2>2 DEF Getter
    <3>3. QED
      BY <3>1, <3>2, SecondsType, CodecAssumption DEF DbValue
  <2>3. CASE Kind[f] # "time"
    BY <2>1, <2>3, CodecAssumption DEF Member, Getter, DbValue
  <2>4. QED
    BY <2>2, <2>3
<1>2. ASSUME NEW f \in Field
      PROVE  BindDbVal(f, Getter(f, m[f])) \in DbValue
  BY <1>1 DEF BindDbVal, Unbound, DbValue
<1>3. QED
  BY <1>1, <1>2 DEF Cells

(* A row that the table takes has its NOT NULL columns filled.              *)
LEMMA TakenCells ==
  ASSUME NEW c \in [Field -> DbValue], NEW id, NEW others,
         ~Refused(c, id, others)
  PROVE  c \in Cells
BY DEF Refused, Cells

(* What is bound is the value itself, unless it is an empty blob.           *)
LEMMA BoundValue ==
  ASSUME NEW f \in Field, NEW v,
         BindDbVal(f, v) = Null => Kind[f] = "opt"
  PROVE  BindDbVal(f, v) = v
BY DEF BindDbVal, Unbound

(* The setters turn the cells of a row into the members of an object.       *)
LEMMA SetterTypes ==
  ASSUME NEW c \in Cells
  PROVE  [f \in Field |-> Setter(f, c[f])] \in Members
<1>1. ASSUME NEW f \in Field
      PROVE  /\ Setter(f, c[f]) \in Member
             /\ Setter(f, c[f]) = Nullopt => Kind[f] = "opt"
  <2>1. CASE Kind[f] = "opt" /\ c[f] = Null
    BY <2>1 DEF Setter, Member
  <2>2. CASE ~(Kind[f] = "opt" /\ c[f] = Null)
    <3>1. c[f] \in Int
      BY <2>2 DEF Cells, DbValue
    <3>2. CASE Kind[f] = "narrow"
      <4>1. c[f] % NarrowMod \in Int
        BY <3>1, CodecAssumption
      <4>2. Setter(f, c[f]) = c[f] % NarrowMod
        BY <3>2 DEF Setter
      <4>3. QED
        BY <4>1, <4>2, CodecAssumption DEF Member
    <3>3. CASE Kind[f] = "time"
      <4>1. c[f] * Ticks \in Int
        BY <3>1, CodecAssumption
      <4>2. Setter(f, c[f]) = c[f] * Ticks
        BY <3>3 DEF Setter
      <4>3. QED
        BY <4>1, <4>2, CodecAssumption DEF Member
    <3>4. CASE Kind[f] \notin {"narrow", "time"}
      <4>1. Setter(f, c[f]) = c[f]
        BY <2>2, <3>4 DEF Setter
      <4>2. QED
        BY <3>1, <4>1, CodecAssumption DEF Member
    <3>5. QED
      BY <3>2, <3>3, <3>4
  <2>3. QED
    BY <2>1, <2>2
<1>2. QED
  BY <1>1 DEF Members

(* A typed read never returns NULL.                                         *)
LEMMA ColumnReadTypes ==
  ASSUME NEW c \in Cells
  PROVE  /\ [f \in Field |-> ColumnRead(c[f])] \in Cells
         /\ \A f \in Field : ColumnRead(c[f]) \in Int
<1>1. ASSUME NEW f \in Field
      PROVE  ColumnRead(c[f]) \in Int
  BY CodecAssumption DEF Cells, DbValue, ColumnRead
<1>2. QED
  BY <1>1, CodecAssumption DEF Cells, DbValue

LEMMA InitialTypes == NewMembers \in Members
<1>1. ASSUME NEW f \in Field
      PROVE  /\ InitialMember(f) \in Member
             /\ InitialMember(f) = Nullopt => Kind[f] = "opt"
  BY CodecAssumption DEF InitialMember, Member
<1>2. QED
  BY <1>1 DEF NewMembers, Members

(* The setters of row_id() fields store a rowid in the key member.          *)
LEMMA WithKeyTypes ==
  ASSUME NEW m \in Members, NEW r \in Int
  PROVE  /\ WithKey(m, r) \in Members
         /\ \A f \in KeyFields : WithKey(m, r)[f] = r
<1>1. ASSUME NEW f \in KeyFields
      PROVE  f \in Field /\ Kind[f] = "key" /\ Setter(f, r) = r
  BY DEF KeyFields, Setter
<1>2. WithKey(m, r) \in [Field -> Member]
  BY <1>1 DEF WithKey, Members, Member
<1>3. ASSUME NEW f \in Field, WithKey(m, r)[f] = Nullopt
      PROVE  Kind[f] = "opt"
  BY <1>1, <1>3, CodecAssumption DEF WithKey, Members
<1>4. \A f \in KeyFields : WithKey(m, r)[f] = r
  BY <1>1 DEF WithKey
<1>5. QED
  BY <1>2, <1>3, <1>4 DEF Members

-----------------------------------------------------------------------------
(* What the statements write.                                               *)

LEMMA InsertTypes ==
  ASSUME NEW e \in Entity, mem \in [Entity -> Members], NEW r \in Int
  PROVE  /\ InsertCells(e, r) \in [Field -> DbValue]
         /\ InsertVals(e, r) \in Cells
         /\ \A f \in KeyFields : InsertCells(e, r)[f] = r /\ InsertVals(e, r)[f] = r
<1>1. mem[e] \in Members
  OBVIOUS
<1>2. ASSUME NEW f \in KeyFields
      PROVE  f \in Field /\ Kind[f] = "key"
  BY DEF KeyFields
<1>3. /\ [f \in Field |-> Getter(f, mem[e][f])] \in Cells
      /\ [f \in Field |-> BindDbVal(f, Getter(f, mem[e][f]))] \in [Field -> DbValue]
  BY <1>1, GetterTypes
<1>4. InsertCells(e, r) \in [Field -> DbValue]
  BY <1>3, CodecAssumption DEF InsertCells, DbValue
<1>5. InsertVals(e, r) \in Cells
  BY <1>3, CodecAssumption DEF InsertVals, Cells, DbValue
<1>6. QED
  BY <1>2, <1>4, <1>5 DEF InsertCells, InsertVals

LEMMA UpdateTypes ==
  ASSUME NEW e \in Entity, mem \in [Entity -> Members]
  PROVE  /\ UpdateVals(e) \in Cells
         /\ UpdateCells(e) \in [Field -> DbValue]
<1>1. mem[e] \in Members
  OBVIOUS
<1>2. QED
  BY <1>1, GetterTypes DEF UpdateVals, UpdateCells

LEMMA UpdatedRowsType ==
  ASSUME NEW e \in Entity, TypeOK, ~UpdateRefused(e)
  PROVE  UpdatedRows(e) \in Table
<1>1. CASE rowid[e] \notin Occupied
  BY <1>1 DEF UpdatedRows, TypeOK
<1>2. CASE rowid[e] \in Occupied
  <2>1. rows[rowid[e]] \in Row
    BY <1>2 DEF Occupied, TypeOK, Table
  <2>2. [cells |-> UpdateCells(e), tag |-> rows[rowid[e]].tag] \in Row
    <3>1. UpdateCells(e) \in [Field -> DbValue]
      BY UpdateTypes DEF TypeOK
    <3>2. UpdateCells(e) \in Cells
      BY <1>2, <3>1, TakenCells DEF UpdateRefused
    <3>3. QED
      BY <2>1, <3>2 DEF Row
  <2>3. QED
    BY <1>2, <2>2 DEF UpdatedRows, TypeOK, Table
<1>3. QED
  BY <1>1, <1>2

LEMMA LoadTypes ==
  ASSUME NEW r \in Occupied, TypeOK
  PROVE  /\ LoadedVals(r) \in Cells
         /\ LoadedMembers(r) \in Members
         /\ rows[r].tag \in Nat
<1>1. rows[r] \in Row
  BY DEF Occupied, TypeOK, Table
<1>2. rows[r].cells \in Cells /\ rows[r].tag \in Nat
  BY <1>1 DEF Row
<1>3. LoadedVals(r) \in Cells
  BY <1>2, ColumnReadTypes DEF LoadedVals
<1>4. LoadedMembers(r) \in Members
  BY <1>3, SetterTypes DEF LoadedMembers
<1>5. QED
  BY <1>2, <1>3, <1>4

(* SQL that sets one column of a row keeps the row well typed.              *)
LEMMA ExecTypes ==
  ASSUME NEW r \in Occupied, NEW f \in Field, NEW v \in Value \cup {Null},
         NEW others, ~Refused([rows[r].cells EXCEPT ![f] = v], r, others), TypeOK
  PROVE  [rows EXCEPT ![r].cells[f] = v] \in Table
<1>1. rows[r] \in Row /\ r \in Rowid
  BY DEF Occupied, TypeOK, Table
<1>2. v \in DbValue
  BY EntityAssumption DEF DbValue
<1>3. rows[r].cells \in Cells
  BY <1>1 DEF Row
<1>4. [rows[r].cells EXCEPT ![f] = v] \in Cells
  <2>1. [rows[r].cells EXCEPT ![f] = v] \in [Field -> DbValue]
    BY <1>2, <1>3 DEF Cells
  <2>2. QED
    BY <2>1, TakenCells
<1>5. [rows[r] EXCEPT !.cells = [rows[r].cells EXCEPT ![f] = v]] \in Row
  BY <1>1, <1>4 DEF Row
<1>6. [rows EXCEPT ![r].cells[f] = v]
        = [rows EXCEPT ![r] = [rows[r] EXCEPT !.cells = [rows[r].cells EXCEPT ![f] = v]]]
  OBVIOUS
<1>7. QED
  BY <1>1, <1>5, <1>6 DEF TypeOK, Table

-----------------------------------------------------------------------------
(* Type correctness.  TypeOK alone is not inductive: reset() feeds the      *)
(* snapshot to the setters, so the snapshot has to be as well typed as the  *)
(* cells of a row.                                                          *)
TypeInv == TypeOK /\ vals \in [Entity -> Cells \cup {None}]

LEMMA TypeInvInit == Init => TypeInv
<1>1. SUFFICES ASSUME Init PROVE TypeInv
  OBVIOUS
<1>2. mem \in [Entity -> Members]
  BY <1>1, InitialTypes DEF Init
<1>3. QED
  BY <1>1, <1>2 DEF Init, TypeInv, TypeOK, Table

LEMMA StepThrowsTypes ==
  ASSUME TypeOK, StepThrows
  PROVE  rows' \in Table /\ txn' \in Table \cup {None}
         /\ threw' \in BOOLEAN /\ nextTag' \in Nat
BY DEF TypeOK, StepThrows

LEMMA TypeInvEntity ==
  ASSUME TypeInv, NEW e \in Entity, EntityStep(e)
  PROVE  TypeInv'
<1> USE DEF TypeInv, TypeOK
<1>1. CASE Construct(e)
  BY <1>1 DEF Construct
<1>2. CASE Destroy(e)
  BY <1>2, InitialTypes DEF Destroy
<1>3. ASSUME NEW f \in Field, NEW x \in MemberValue(f), Assign(e, f, x)
      PROVE  TypeInv'
  <2>1. x \in Member /\ (x = Nullopt => Kind[f] = "opt")
    BY EntityAssumption, CodecAssumption DEF MemberValue, Member
  <2>2. mem[e] \in Members
    OBVIOUS
  <2>3. [mem[e] EXCEPT ![f] = x] \in Members
    BY <2>1, <2>2 DEF Members
  <2>4. mem' = [mem EXCEPT ![e] = [mem[e] EXCEPT ![f] = x]]
    BY <1>3 DEF Assign
  <2>5. mem' \in [Entity -> Members]
    BY <2>3, <2>4
  <2>6. QED
    BY <1>3, <2>5 DEF Assign
<1>4. CASE Reset(e)
  <2>1. vals[e] \in Cells
    BY <1>4 DEF Reset
  <2>2. [f \in Field |-> Setter(f, vals[e][f])] \in Members
    BY <2>1, SetterTypes
  <2>3. QED
    BY <1>4, <2>2 DEF Reset
<1>5. CASE InsertOk(e)
  <2>1. PICK r \in Rowid :
          /\ ~Refused(InsertCells(e, r), r, Occupied)
          /\ rows' = [rows EXCEPT ![r] = [cells |-> InsertCells(e, r),
                                          tag |-> nextTag + 1]]
          /\ rowid' = [rowid EXCEPT ![e] = r]
          /\ vals' = [vals EXCEPT ![e] = InsertVals(e, r)]
          /\ mem' = [mem EXCEPT ![e] = WithKey(mem[e], r)]
    BY <1>5 DEF InsertOk
  <2>2. r \in Int
    BY EntityAssumption
  <2>3. mem[e] \in Members
    OBVIOUS
  <2>4. /\ InsertCells(e, r) \in Cells
        /\ InsertVals(e, r) \in Cells
        /\ WithKey(mem[e], r) \in Members
    BY <2>1, <2>2, <2>3, InsertTypes, WithKeyTypes, TakenCells
  <2>5. [cells |-> InsertCells(e, r), tag |-> nextTag + 1] \in Row
    BY <2>4 DEF Row
  <2>6. rows' \in Table
    BY <2>1, <2>5 DEF Table
  <2>7. vals' \in [Entity -> Cells \cup {None}] /\ mem' \in [Entity -> Members]
    BY <2>1, <2>4
  <2>8. vals' \in [Entity -> [Field -> DbValue] \cup {None}]
    BY <2>7 DEF Cells
  <2>9. /\ live' = live /\ txn' = txn /\ threw' = FALSE
        /\ nextTag' = nextTag + 1
        /\ origin' = [origin EXCEPT ![e] = nextTag + 1]
    BY <1>5 DEF InsertOk
  <2>10. nextTag' \in Nat /\ origin' \in [Entity -> Nat]
    BY <2>9
  <2>11. rowid' \in [Entity -> Rowid \cup {-1}]
    BY <2>1
  <2>12. QED
    BY <2>6, <2>7, <2>8, <2>9, <2>10, <2>11
<1>6. CASE InsertThrows(e)
  BY <1>6, StepThrowsTypes DEF InsertThrows, objVars
<1>7. CASE UpdateOk(e)
  <2>1. vals' \in [Entity -> Cells \cup {None}]
    BY <1>7, UpdateTypes DEF UpdateOk
  <2>2. vals' \in [Entity -> [Field -> DbValue] \cup {None}]
    BY <2>1 DEF Cells
  <2>3. rows' \in Table
    BY <1>7, UpdatedRowsType DEF UpdateOk
  <2>4. QED
    BY <1>7, <2>1, <2>2, <2>3 DEF UpdateOk
<1>8. CASE UpdateThrows(e)
  <2>1. vals' \in [Entity -> Cells \cup {None}]
    BY <1>8, UpdateTypes DEF UpdateThrows
  <2>2. vals' \in [Entity -> [Field -> DbValue] \cup {None}]
    BY <2>1 DEF Cells
  <2>3. QED
    BY <1>8, <2>1, <2>2, StepThrowsTypes DEF UpdateThrows
<1>9. CASE UpdatePrepareThrows(e)
  BY <1>9 DEF UpdatePrepareThrows, objVars
<1>10. CASE RemoveNothing(e)
  BY <1>10 DEF RemoveNothing, objVars
<1>11. CASE RemoveOk(e)
  <2>1. mem[e] \in Members /\ -1 \in Int
    OBVIOUS
  <2>2. mem' \in [Entity -> Members]
    BY <1>11, <2>1, WithKeyTypes DEF RemoveOk
  <2>3. rows' \in Table
    BY <1>11 DEF RemoveOk, Table
  <2>4. QED
    BY <1>11, <2>2, <2>3 DEF RemoveOk
<1>12. CASE RemoveThrows(e)
  BY <1>12, StepThrowsTypes DEF RemoveThrows, objVars
<1>13. QED
  BY <1>1, <1>2, <1>3, <1>4, <1>5, <1>6, <1>7, <1>8, <1>9, <1>10, <1>11, <1>12
     DEF EntityStep, Save, Remove

LEMMA TypeInvStatement ==
  ASSUME TypeInv, StatementStep
  PROVE  TypeInv'
<1> USE DEF TypeInv, TypeOK
<1>1. ASSUME NEW E \in SUBSET Entity, NEW h \in [E -> Rowid], Select(E, h)
      PROVE  TypeInv'
  <2>1. \A e \in E : h[e] \in Occupied /\ h[e] \in Rowid
    BY <1>1 DEF Select
  <2>2. \A e \in E : /\ LoadedVals(h[e]) \in Cells
                     /\ LoadedMembers(h[e]) \in Members
                     /\ rows[h[e]].tag \in Nat
    BY <2>1, LoadTypes
  <2>3. vals' \in [Entity -> Cells \cup {None}]
    BY <1>1, <2>2 DEF Select
  <2>4. vals' \in [Entity -> [Field -> DbValue] \cup {None}]
    BY <2>3 DEF Cells
  <2>5. mem' \in [Entity -> Members]
    BY <1>1, <2>2 DEF Select
  <2>6. origin' \in [Entity -> Nat]
    BY <1>1, <2>2 DEF Select
  <2>7. rowid' \in [Entity -> Rowid \cup {-1}]
    BY <1>1, <2>1 DEF Select
  <2>8. QED
    BY <1>1, <2>3, <2>4, <2>5, <2>6, <2>7 DEF Select
<1>2. ASSUME NEW S \in SUBSET Rowid, ClassRemove(S)
      PROVE  TypeInv'
  <2>1. rows' \in Table
    BY <1>2 DEF ClassRemove, Table
  <2>2. QED
    BY <1>2, <2>1 DEF ClassRemove, objVars
<1>3. ASSUME NEW r \in Rowid, NEW f \in Field, NEW v \in Value \cup {Null},
             ExecUpdate(r, f, v)
      PROVE  TypeInv'
  <2>1. rows' \in Table
    BY <1>3, ExecTypes DEF ExecUpdate
  <2>2. QED
    BY <1>3, <2>1 DEF ExecUpdate, objVars
<1>4. CASE StatementThrows
  BY <1>4, StepThrowsTypes DEF StatementThrows, objVars
<1>5. CASE Begin
  BY <1>5 DEF Begin, objVars
<1>6. CASE Commit
  BY <1>6 DEF Commit, objVars
<1>7. CASE Rollback
  BY <1>7 DEF Rollback, objVars
<1>8. QED
  BY <1>1, <1>2, <1>3, <1>4, <1>5, <1>6, <1>7 DEF StatementStep

LEMMA TypeInvStep == TypeInv /\ [Next]_vars => TypeInv'
<1>1. CASE UNCHANGED vars
  BY <1>1 DEF vars, TypeInv, TypeOK
<1>2. QED
  BY <1>1, TypeInvEntity, TypeInvStatement DEF Next

(* Every variable keeps its type, for every class and program: in           *)
(* particular the rows keep to their NOT NULL columns.                      *)
THEOREM TypeCorrect == Spec => []TypeOK
<1>1. TypeInv => TypeOK
  BY DEF TypeInv
<1>2. QED
  BY <1>1, TypeInvInit, TypeInvStep, PTL DEF Spec

(* reset() never hands a setter the NULL that it would throw on, whatever   *)
(* saves, failures, loads and removals came before.                         *)
THEOREM ResetIsSafe == Spec => []ResetNeverThrows
<1>1. TypeInv => ResetNeverThrows
  <2>1. SUFFICES ASSUME TypeInv, NEW e \in Entity, vals[e] # None
                 PROVE  vals[e] \in Cells
    BY DEF ResetNeverThrows, Cells
  <2>2. QED
    BY <2>1 DEF TypeInv
<1>2. QED
  BY <1>1, TypeInvInit, TypeInvStep, PTL DEF Spec

-----------------------------------------------------------------------------
(* The row_id() member, its snapshot and _rowid_ agree.  The column of a    *)
(* row_id() field is the row's number in the table and in the image that a  *)
(* ROLLBACK restores, so loading a row keeps the agreement.                 *)
Keyed(t) ==
  \A r \in Rowid : t[r] # None => \A f \in KeyFields : t[r].cells[f] = r

Fresh == \A e \in Entity \ live : rowid[e] = -1

KeyInv ==
  /\ TypeInv
  /\ Fresh
  /\ Keyed(rows)
  /\ txn # None => Keyed(txn)
  /\ KeyFieldAgrees

LEMMA LiveTypes ==
  ASSUME TypeOK, NEW e \in live
  PROVE  e \in Entity /\ rowid[e] \in Int
<1>1. e \in Entity
  BY DEF TypeOK
<1>2. rowid[e] \in Rowid \cup {-1}
  BY <1>1 DEF TypeOK
<1>3. Rowid \subseteq Int /\ -1 \in Int
  BY EntityAssumption
<1>4. rowid[e] \in Int
  BY <1>2, <1>3
<1>5. QED
  BY <1>1, <1>4

LEMMA KeyKind ==
  ASSUME NEW f \in KeyFields
  PROVE  /\ f \in Field
         /\ \A g \in KeyFields \cup PkFields : g = f
         /\ \A v \in Int : Getter(f, v) = v /\ Setter(f, v) = v
         /\ \A v \in Int : BindDbVal(f, v) = v /\ ColumnRead(v) = v
<1>1. f \in Field /\ Kind[f] = "key"
  BY DEF KeyFields
<1>2. ASSUME NEW g \in KeyFields \cup PkFields
      PROVE  g = f
  <2>1. g \in Field /\ Kind[g] \in {"key", "pk"}
    BY DEF KeyFields, PkFields
  <2>2. QED
    BY <1>1, <2>1, CodecAssumption
<1>3. \A v \in Int : Getter(f, v) = v /\ Setter(f, v) = v
  BY <1>1 DEF Getter, Setter
<1>4. \A v \in Int : BindDbVal(f, v) = v /\ ColumnRead(v) = v
  BY <1>1, CodecAssumption DEF BindDbVal, ColumnRead
<1>5. QED
  BY <1>1, <1>2, <1>3, <1>4

LEMMA KeyInvInit == Init => KeyInv
BY TypeInvInit DEF Init, KeyInv, Keyed, Fresh, KeyFieldAgrees

(* A failing statement leaves the table or restores the one at BEGIN.       *)
LEMMA StepThrowsKeyed ==
  ASSUME KeyInv, StepThrows
  PROVE  Keyed(rows)' /\ (txn' # None => Keyed(txn)')
<1>1. CASE rows' = rows /\ txn' = txn
  BY <1>1 DEF KeyInv, Keyed
<1>2. CASE txn # None /\ rows' = txn /\ txn' = None
  BY <1>2 DEF KeyInv, Keyed
<1>3. QED
  BY <1>1, <1>2 DEF StepThrows

(* What a stored entity hands to UPDATE for its key, and what it remembers. *)
LEMMA UpdateKeepsKey ==
  ASSUME KeyInv, NEW e \in live, Stored(e), NEW f \in KeyFields
  PROVE  UpdateVals(e)[f] = rowid[e] /\ UpdateCells(e)[f] = rowid[e]
<1>1. mem[e][f] = rowid[e]
  BY DEF KeyInv, KeyFieldAgrees
<1>2. rowid[e] \in Int
  BY LiveTypes DEF KeyInv, TypeInv
<1>3. f \in Field
  BY KeyKind
<1>4. Getter(f, rowid[e]) = rowid[e] /\ BindDbVal(f, rowid[e]) = rowid[e]
  BY <1>2, KeyKind
<1>5. /\ UpdateVals(e)[f] = Getter(f, mem[e][f])
      /\ UpdateCells(e)[f] = BindDbVal(f, Getter(f, mem[e][f]))
  BY <1>3 DEF UpdateVals, UpdateCells
<1>6. QED
  BY <1>1, <1>4, <1>5

(* With a row_id() field, or none at all, an UPDATE stays on its row.       *)
LEMMA UpdateStays ==
  ASSUME KeyInv, NEW e \in live, Stored(e), PkFields = {} \/ KeyFields # {}
  PROVE  UpdateId(e) = rowid[e]
<1>1. CASE KeyFields = {}
  BY <1>1 DEF UpdateId
<1>2. CASE KeyFields # {}
  <2>1. PICK f \in KeyFields : TRUE
    BY <1>2
  <2>2. (CHOOSE g \in KeyFields \cup PkFields : TRUE) = f
    BY <2>1, KeyKind
  <2>3. QED
    BY <2>1, <2>2, UpdateKeepsKey DEF UpdateId
<1>3. QED
  BY <1>1, <1>2

LEMMA UpdatedRowsKeyed ==
  ASSUME KeyInv, NEW e \in live, Stored(e)
  PROVE  \A r \in Rowid : UpdatedRows(e)[r] # None =>
           \A f \in KeyFields : UpdatedRows(e)[r].cells[f] = r
<1>1. SUFFICES ASSUME NEW r \in Rowid, UpdatedRows(e)[r] # None,
                      NEW f \in KeyFields
               PROVE  UpdatedRows(e)[r].cells[f] = r
  OBVIOUS
<1>2. UpdateId(e) = rowid[e] /\ UpdateCells(e)[f] = rowid[e]
  BY UpdateStays, UpdateKeepsKey
<1>3. CASE UpdatedRows(e)[r] = rows[r]
  BY <1>1, <1>3 DEF KeyInv, Keyed
<1>4. CASE UpdatedRows(e)[r] # rows[r]
  <2>1. UpdatedRows(e)[r].cells = UpdateCells(e) /\ r = rowid[e]
    BY <1>2, <1>4 DEF UpdatedRows
  <2>2. QED
    BY <1>2, <2>1
<1>5. QED
  BY <1>3, <1>4

(* A step that leaves the table, or the objects, as they are.               *)
LEMMA KeySameRows ==
  ASSUME KeyInv, rows' = rows, txn' = txn
  PROVE  Keyed(rows)' /\ (txn' # None => Keyed(txn)')
BY DEF KeyInv, Keyed

LEMMA KeySameObjects ==
  ASSUME KeyInv, UNCHANGED objVars
  PROVE  KeyFieldAgrees' /\ Fresh'
BY DEF KeyInv, KeyFieldAgrees, Fresh, Stored, objVars

(* A step that changes one object: the others keep what they had.           *)
LEMMA KeyOneObject ==
  ASSUME KeyInv, NEW e \in Entity,
         \A d \in Entity \ {e} : /\ d \in live' <=> d \in live
                                 /\ rowid'[d] = rowid[d]
                                 /\ mem'[d] = mem[d]
                                 /\ vals'[d] = vals[d],
         live' \subseteq Entity,
         e \notin live' => rowid'[e] = -1,
         e \in live' /\ rowid'[e] >= 0 =>
           \A f \in KeyFields : /\ mem'[e][f] = rowid'[e]
                                /\ vals'[e] # None
                                /\ vals'[e][f] = rowid'[e]
  PROVE  KeyFieldAgrees' /\ Fresh'
<1>1. Fresh'
  BY DEF KeyInv, Fresh
<1>2. KeyFieldAgrees'
  BY DEF KeyInv, KeyFieldAgrees, Stored
<1>3. QED
  BY <1>1, <1>2

LEMMA KeyInvEntity ==
  ASSUME KeyInv, NEW e \in Entity, EntityStep(e)
  PROVE  KeyInv'
<1>1. TypeInv /\ TypeInv'
  BY TypeInvEntity DEF KeyInv
<1>2. live' \subseteq Entity
  BY <1>1 DEF TypeInv, TypeOK
<1>3. SUFFICES /\ Keyed(rows)' /\ (txn' # None => Keyed(txn)')
               /\ KeyFieldAgrees' /\ Fresh'
  BY <1>1 DEF KeyInv
<1>4. CASE Construct(e)
  <2>1. rowid[e] = -1
    BY <1>4 DEF Construct, KeyInv, Fresh
  <2>2. KeyFieldAgrees' /\ Fresh'
    BY <1>2, <1>4, <2>1, KeyOneObject DEF Construct
  <2>3. QED
    BY <1>4, <2>2, KeySameRows DEF Construct
<1>5. CASE Destroy(e)
  <2>1. rowid' = [rowid EXCEPT ![e] = -1] /\ rowid'[e] = -1
    BY <1>1, <1>5 DEF Destroy, TypeInv, TypeOK
  <2>2. KeyFieldAgrees' /\ Fresh'
    BY <1>2, <1>5, <2>1, KeyOneObject DEF Destroy
  <2>3. QED
    BY <1>5, <2>2, KeySameRows DEF Destroy
<1>6. ASSUME NEW f \in Field, NEW x \in MemberValue(f), Assign(e, f, x)
      PROVE  /\ Keyed(rows)' /\ (txn' # None => Keyed(txn)')
             /\ KeyFieldAgrees' /\ Fresh'
  <2>1. ASSUME NEW g \in KeyFields
        PROVE  mem'[e][g] = mem[e][g]
    BY <1>1, <1>6 DEF Assign, TypeInv, TypeOK, Members
  <2>2. KeyFieldAgrees' /\ Fresh'
    BY <1>6, <2>1 DEF Assign, KeyInv, KeyFieldAgrees, Fresh, Stored
  <2>3. QED
    BY <1>6, <2>2, KeySameRows DEF Assign
<1>7. CASE Reset(e)
  <2>1. ASSUME NEW g \in KeyFields, Stored(e)
        PROVE  mem'[e][g] = rowid[e] /\ vals[e] # None /\ vals[e][g] = rowid[e]
    <3>1. vals[e][g] = rowid[e] /\ vals[e] # None
      BY <2>1, <1>7 DEF KeyInv, KeyFieldAgrees, Reset
    <3>2. rowid[e] \in Int
      BY <1>1, <1>7, LiveTypes DEF TypeInv, Reset
    <3>3. Setter(g, rowid[e]) = rowid[e] /\ g \in Field
      BY <3>2, KeyKind
    <3>4. mem'[e] = [f \in Field |-> Setter(f, vals[e][f])]
      BY <1>1, <1>7 DEF Reset, TypeInv, TypeOK
    <3>5. QED
      BY <3>1, <3>3, <3>4
  <2>2. KeyFieldAgrees' /\ Fresh'
    <3>1. \A d \in Entity \ {e} : mem'[d] = mem[d]
      BY <1>7 DEF Reset
    <3>2. live' = live /\ rowid' = rowid /\ vals' = vals /\ e \in live
      BY <1>7 DEF Reset
    <3>3. e \in live /\ rowid'[e] >= 0 => Stored(e)
      BY <3>2 DEF Stored
    <3>4. QED
      BY <1>2, <2>1, <3>1, <3>2, <3>3, KeyOneObject
  <2>3. QED
    BY <1>7, <2>2, KeySameRows DEF Reset
<1>8. CASE InsertOk(e)
  <2>1. PICK r \in Rowid :
          /\ rows' = [rows EXCEPT ![r] = [cells |-> InsertCells(e, r),
                                          tag |-> nextTag + 1]]
          /\ rowid' = [rowid EXCEPT ![e] = r]
          /\ vals' = [vals EXCEPT ![e] = InsertVals(e, r)]
          /\ mem' = [mem EXCEPT ![e] = WithKey(mem[e], r)]
    BY <1>8 DEF InsertOk
  <2>2. live' = live /\ txn' = txn /\ e \in live
    BY <1>8 DEF InsertOk
  <2>3. r \in Int
    BY EntityAssumption
  <2>4. mem \in [Entity -> Members] /\ mem[e] \in Members
    BY <1>1 DEF TypeInv, TypeOK
  <2>5. /\ InsertVals(e, r) \in Cells
        /\ \A f \in KeyFields : /\ WithKey(mem[e], r)[f] = r
                                /\ InsertCells(e, r)[f] = r
                                /\ InsertVals(e, r)[f] = r
    BY <2>3, <2>4, InsertTypes, WithKeyTypes
  <2>6. InsertVals(e, r) # None
    BY <2>5, NoneAssumption DEF Cells
  <2>7. rowid'[e] = r /\ vals'[e] = InsertVals(e, r) /\ mem'[e] = WithKey(mem[e], r)
    BY <1>1, <2>1 DEF TypeInv, TypeOK
  <2>8. \A d \in Entity \ {e} :
          rowid'[d] = rowid[d] /\ vals'[d] = vals[d] /\ mem'[d] = mem[d]
    BY <1>1, <2>1 DEF TypeInv, TypeOK
  <2>9. KeyFieldAgrees' /\ Fresh'
    BY <1>2, <2>2, <2>5, <2>6, <2>7, <2>8, KeyOneObject
  <2>10. ASSUME NEW q \in Rowid, rows'[q] # None, NEW f \in KeyFields
         PROVE  rows'[q].cells[f] = q
    <3>1. CASE q = r
      <4>1. rows'[q].cells = InsertCells(e, r)
        BY <1>1, <2>1, <3>1 DEF TypeInv, TypeOK, Table
      <4>2. QED
        BY <2>5, <3>1, <4>1
    <3>2. CASE q # r
      <4>1. rows'[q] = rows[q]
        BY <1>1, <2>1, <3>2 DEF TypeInv, TypeOK, Table
      <4>2. QED
        BY <2>10, <4>1 DEF KeyInv, Keyed
    <3>3. QED
      BY <3>1, <3>2
  <2>11. Keyed(rows)' /\ (txn' # None => Keyed(txn)')
    BY <2>2, <2>10 DEF Keyed, KeyInv
  <2>12. QED
    BY <2>9, <2>11
<1>9. CASE InsertThrows(e)
  BY <1>9, StepThrowsKeyed, KeySameObjects DEF InsertThrows
<1>10. ASSUME UpdateOk(e) \/ UpdateThrows(e)
       PROVE  KeyFieldAgrees' /\ Fresh'
  <2>1. /\ Stored(e) /\ e \in live
        /\ vals' = [vals EXCEPT ![e] = UpdateVals(e)]
        /\ live' = live /\ rowid' = rowid /\ mem' = mem
    BY <1>10 DEF UpdateOk, UpdateThrows, Stored
  <2>2. mem \in [Entity -> Members] /\ vals'[e] = UpdateVals(e)
    BY <1>1, <2>1 DEF TypeInv, TypeOK
  <2>3. UpdateVals(e) # None
    BY <2>2, UpdateTypes, NoneAssumption DEF Cells
  <2>4. ASSUME NEW f \in KeyFields
        PROVE  mem[e][f] = rowid[e] /\ UpdateVals(e)[f] = rowid[e]
    BY <2>1, <2>4, UpdateKeepsKey DEF KeyInv, KeyFieldAgrees
  <2>5. \A d \in Entity \ {e} : vals'[d] = vals[d]
    BY <1>1, <2>1 DEF TypeInv, TypeOK
  <2>6. QED
    BY <1>2, <2>1, <2>2, <2>3, <2>4, <2>5, KeyOneObject
<1>11. CASE UpdateOk(e)
  <2>1. rows' = UpdatedRows(e) /\ txn' = txn /\ Stored(e) /\ e \in live
    BY <1>11 DEF UpdateOk, Stored
  <2>2. Keyed(rows)' /\ (txn' # None => Keyed(txn)')
    BY <2>1, UpdatedRowsKeyed DEF Keyed, KeyInv
  <2>3. QED
    BY <1>10, <1>11, <2>2
<1>12. CASE UpdateThrows(e)
  BY <1>10, <1>12, StepThrowsKeyed DEF UpdateThrows
<1>13. CASE UpdatePrepareThrows(e)
  BY <1>13, KeySameRows, KeySameObjects DEF UpdatePrepareThrows
<1>14. CASE RemoveNothing(e)
  BY <1>14, KeySameRows, KeySameObjects DEF RemoveNothing
<1>15. CASE RemoveOk(e)
  <2>1. /\ rowid' = [rowid EXCEPT ![e] = -1] /\ rowid'[e] = -1
        /\ live' = live /\ vals' = vals /\ txn' = txn
        /\ \A d \in Entity \ {e} : rowid'[d] = rowid[d] /\ mem'[d] = mem[d]
    BY <1>1, <1>15 DEF RemoveOk, TypeInv, TypeOK
  <2>2. KeyFieldAgrees' /\ Fresh'
    BY <1>2, <2>1, KeyOneObject
  <2>3. \A q \in Rowid : rows'[q] # None => rows'[q] = rows[q]
    BY <1>1, <1>15 DEF RemoveOk, TypeInv, TypeOK, Table
  <2>4. Keyed(rows)' /\ (txn' # None => Keyed(txn)')
    BY <2>1, <2>3 DEF KeyInv, Keyed
  <2>5. QED
    BY <2>2, <2>4
<1>16. CASE RemoveThrows(e)
  BY <1>16, StepThrowsKeyed, KeySameObjects DEF RemoveThrows
<1>17. QED
  BY <1>4, <1>5, <1>6, <1>7, <1>8, <1>9, <1>11, <1>12, <1>13, <1>14, <1>15, <1>16
     DEF EntityStep, Save, Remove

LEMMA KeyInvStatement ==
  ASSUME KeyInv, StatementStep
  PROVE  KeyInv'
<1>1. TypeInv /\ TypeInv'
  BY TypeInvStatement DEF KeyInv
<1>2. SUFFICES /\ Keyed(rows)' /\ (txn' # None => Keyed(txn)')
               /\ KeyFieldAgrees' /\ Fresh'
  BY <1>1 DEF KeyInv
<1>3. ASSUME NEW E \in SUBSET Entity, NEW h \in [E -> Rowid], Select(E, h)
      PROVE  /\ Keyed(rows)' /\ (txn' # None => Keyed(txn)')
             /\ KeyFieldAgrees' /\ Fresh'
  <2>1. ASSUME NEW e \in E, NEW f \in KeyFields
        PROVE  mem'[e][f] = h[e] /\ vals'[e] # None /\ vals'[e][f] = h[e]
    <3>1. h[e] \in Occupied /\ h[e] \in Rowid /\ h[e] \in Int
      BY <1>3, EntityAssumption DEF Select
    <3>2. rows[h[e]].cells[f] = h[e]
      BY <3>1 DEF KeyInv, Keyed, Occupied
    <3>3. f \in Field /\ ColumnRead(h[e]) = h[e] /\ Setter(f, h[e]) = h[e]
      BY <3>1, KeyKind
    <3>4. LoadedVals(h[e])[f] = h[e] /\ LoadedMembers(h[e])[f] = h[e]
      BY <3>2, <3>3 DEF LoadedVals, LoadedMembers
    <3>5. LoadedVals(h[e]) # None
      BY <1>1, <3>1, LoadTypes, NoneAssumption DEF TypeInv, Cells
    <3>6. vals'[e] = LoadedVals(h[e]) /\ mem'[e] = LoadedMembers(h[e])
      BY <1>3 DEF Select
    <3>7. QED
      BY <3>4, <3>5, <3>6
  <2>2. \A e \in E : rowid'[e] = h[e]
    BY <1>3 DEF Select
  <2>3. \A e \in Entity \ E : rowid'[e] = rowid[e] /\ vals'[e] = vals[e] /\ mem'[e] = mem[e]
    BY <1>3 DEF Select
  <2>4. live' = live \cup E
    BY <1>3 DEF Select
  <2>5. Fresh'
    BY <2>3, <2>4 DEF KeyInv, Fresh
  <2>6. live \subseteq Entity
    BY <1>1 DEF TypeInv, TypeOK
  <2>7. KeyFieldAgrees'
    <3>1. SUFFICES ASSUME NEW e \in live', rowid'[e] >= 0, NEW f \in KeyFields
                   PROVE  mem'[e][f] = rowid'[e] /\ vals'[e] # None /\ vals'[e][f] = rowid'[e]
      BY DEF KeyFieldAgrees, Stored
    <3>2. CASE e \in E
      BY <2>1, <2>2, <3>2
    <3>3. CASE e \notin E
      <4>1. e \in live /\ e \in Entity \ E
        BY <2>4, <2>6, <3>3
      <4>2. Stored(e)
        BY <2>3, <3>1, <4>1 DEF Stored
      <4>3. mem[e][f] = rowid[e] /\ vals[e] # None /\ vals[e][f] = rowid[e]
        BY <4>1, <4>2 DEF KeyInv, KeyFieldAgrees
      <4>4. QED
        BY <2>3, <4>1, <4>3
    <3>4. QED
      BY <3>2, <3>3
  <2>8. QED
    BY <1>3, <2>5, <2>7, KeySameRows DEF Select
<1>4. ASSUME NEW S \in SUBSET Rowid, ClassRemove(S)
      PROVE  /\ Keyed(rows)' /\ (txn' # None => Keyed(txn)')
             /\ KeyFieldAgrees' /\ Fresh'
  <2>1. \A q \in Rowid : rows'[q] # None => rows'[q] = rows[q]
    BY <1>4 DEF ClassRemove
  <2>2. Keyed(rows)' /\ (txn' # None => Keyed(txn)')
    BY <1>4, <2>1 DEF ClassRemove, KeyInv, Keyed
  <2>3. QED
    BY <1>4, <2>2, KeySameObjects DEF ClassRemove
<1>5. ASSUME NEW r \in Rowid, NEW f \in Field, NEW v \in Value \cup {Null},
             ExecUpdate(r, f, v)
      PROVE  /\ Keyed(rows)' /\ (txn' # None => Keyed(txn)')
             /\ KeyFieldAgrees' /\ Fresh'
  <2>1. rows' = [rows EXCEPT ![r].cells[f] = v] /\ f \notin KeyFields /\ r \in Occupied
    BY <1>5 DEF ExecUpdate
  <2>2. rows[r] \in Row /\ rows[r].cells \in [Field -> DbValue]
    BY <1>1, <2>1 DEF TypeInv, TypeOK, Table, Occupied, Row, Cells
  <2>3. \A q \in Rowid : rows'[q] # None =>
          rows[q] # None /\ \A g \in KeyFields : rows'[q].cells[g] = rows[q].cells[g]
    <3>1. \A q \in Rowid \ {r} : rows'[q] = rows[q]
      BY <1>1, <2>1 DEF TypeInv, TypeOK, Table
    <3>2. rows[r] # None
      BY <2>1 DEF Occupied
    <3>3. rows'[r].cells = [rows[r].cells EXCEPT ![f] = v]
      BY <1>1, <2>1, <2>2 DEF TypeInv, TypeOK, Table, Row
    <3>4. \A g \in KeyFields : rows'[r].cells[g] = rows[r].cells[g]
      BY <2>1, <2>2, <3>3
    <3>5. QED
      BY <3>1, <3>2, <3>4
  <2>4. Keyed(rows)'
    BY <2>3 DEF KeyInv, Keyed
  <2>5. txn' # None => Keyed(txn)'
    BY <1>5 DEF ExecUpdate, KeyInv, Keyed
  <2>6. QED
    BY <1>5, <2>4, <2>5, KeySameObjects DEF ExecUpdate
<1>6. CASE StatementThrows
  BY <1>6, StepThrowsKeyed, KeySameObjects DEF StatementThrows
<1>7. CASE Begin
  BY <1>7, KeySameObjects DEF Begin, KeyInv, Keyed
<1>8. CASE Commit
  BY <1>8, KeySameObjects DEF Commit, KeyInv, Keyed
<1>9. CASE Rollback
  BY <1>9, KeySameObjects DEF Rollback, KeyInv, Keyed
<1>10. QED
  BY <1>3, <1>4, <1>5, <1>6, <1>7, <1>8, <1>9 DEF StatementStep

LEMMA KeyInvStep == KeyInv /\ [Next]_vars => KeyInv'
<1>1. SUFFICES ASSUME KeyInv, [Next]_vars PROVE KeyInv'
  OBVIOUS
<1>2. CASE UNCHANGED vars
  <2>1. TypeInv'
    BY <1>1, TypeInvStep DEF KeyInv
  <2>2. KeyFieldAgrees' /\ Fresh' /\ rows' = rows /\ txn' = txn
    BY <1>1, <1>2, KeySameObjects DEF vars, objVars
  <2>3. QED
    BY <1>1, <2>1, <2>2, KeySameRows DEF KeyInv
<1>3. QED
  BY <1>1, <1>2, KeyInvEntity, KeyInvStatement DEF Next

(* The row_id() member of a stored entity, its snapshot and _rowid_ are one *)
(* number in every program: shared rows, foreign SQL, rollbacks, failures.  *)
THEOREM KeysAgree == Spec => []KeyFieldAgrees
<1>1. KeyInv => KeyFieldAgrees
  BY DEF KeyInv
<1>2. QED
  BY <1>1, KeyInvInit, KeyInvStep, PTL DEF Spec

-----------------------------------------------------------------------------
(* A save() or remove() writes to no row but its own.  The key must not be  *)
(* a primary_key() field, which the program may assign: then an UPDATE      *)
(* moves the row, and the run MCEntity_moved_key shows what comes of it.    *)
LEMMA OwnRowStep ==
  ASSUME PkFields = {}, KeyInv, NEW e \in live, ~threw', Save(e) \/ Remove(e)
  PROVE  {r \in Rowid : rows'[r] # rows[r]} \subseteq
           IF Stored(e) THEN {rowid[e]} \cap Occupied ELSE Rowid \ Occupied
<1>1. rows \in Table /\ TypeOK
  BY DEF KeyInv, TypeInv, TypeOK
<1>2. CASE InsertOk(e)
  <2>1. PICK r \in Rowid :
          /\ ~Refused(InsertCells(e, r), r, Occupied)
          /\ rows' = [rows EXCEPT ![r] = [cells |-> InsertCells(e, r),
                                          tag |-> nextTag + 1]]
    BY <1>2 DEF InsertOk
  <2>2. r \notin Occupied
    BY <2>1 DEF Refused, Conflict
  <2>3. ~Stored(e)
    BY <1>1, <1>2, LiveTypes DEF InsertOk, Stored
  <2>4. \A q \in Rowid : rows'[q] # rows[q] => q = r
    BY <1>1, <2>1 DEF Table
  <2>5. QED
    BY <2>2, <2>3, <2>4
<1>3. CASE UpdateOk(e)
  <2>1. Stored(e) /\ rows' = UpdatedRows(e)
    BY <1>3 DEF UpdateOk
  <2>2. UpdateId(e) = rowid[e]
    BY <2>1, UpdateStays
  <2>3. \A q \in Rowid : rows'[q] # rows[q] => q = rowid[e] /\ q \in Occupied
    BY <2>1, <2>2 DEF UpdatedRows
  <2>4. QED
    BY <2>1, <2>3
<1>4. CASE RemoveOk(e)
  <2>1. Stored(e) /\ rows' = [rows EXCEPT ![rowid[e]] = None]
    BY <1>4 DEF RemoveOk
  <2>2. \A q \in Rowid : rows'[q] # rows[q] => q = rowid[e] /\ q \in Occupied
    BY <1>1, <2>1 DEF Table, Occupied
  <2>3. QED
    BY <2>1, <2>2
<1>5. CASE RemoveNothing(e)
  BY <1>5 DEF RemoveNothing
<1>6. ~(InsertThrows(e) \/ UpdateThrows(e) \/ UpdatePrepareThrows(e) \/ RemoveThrows(e))
  BY DEF InsertThrows, UpdateThrows, UpdatePrepareThrows, RemoveThrows, StepThrows
<1>7. QED
  BY <1>2, <1>3, <1>4, <1>5, <1>6 DEF Save, Remove

(* For every class without an assignable key, in every program.             *)
THEOREM OwnRowOnly ==
  ASSUME PkFields = {}
  PROVE  Spec => WritesOwnRowOnly
<1>1. KeyInv /\ [Next]_vars =>
        [\A e \in live : ~threw' /\ (Save(e) \/ Remove(e)) =>
           {r \in Rowid : rows'[r] # rows[r]} \subseteq
             IF Stored(e) THEN {rowid[e]} \cap Occupied ELSE Rowid \ Occupied]_vars
  BY OwnRowStep
<1>2. QED
  BY <1>1, KeyInvInit, KeyInvStep, PTL DEF Spec, WritesOwnRowOnly

-----------------------------------------------------------------------------
(* The sign of _rowid_.  Rows get positive numbers because insert() binds   *)
(* no number, and keep them because an UPDATE stays on its row; a rollback  *)
(* brings back rows that had theirs before BEGIN.                           *)
PositiveRows(t) == \A r \in Rowid : t[r] # None => r > 0

SignInv ==
  /\ KeyInv
  /\ PositiveRows(rows)
  /\ txn # None => PositiveRows(txn)
  /\ \A e \in Entity : rowid[e] > 0 \/ rowid[e] = -1

LEMMA SignInvInit == Init => SignInv
BY KeyInvInit DEF Init, SignInv, PositiveRows

(* The rows of the table come from the table or from the open transaction.  *)
LEMMA SignFrame ==
  ASSUME SignInv, rowid' = rowid,
         \A r \in Rowid : rows'[r] # None =>
           rows[r] # None \/ (txn # None /\ txn[r] # None),
         txn' \in {None, txn, rows}
  PROVE  /\ PositiveRows(rows)'
         /\ (txn' # None => PositiveRows(txn)')
         /\ \A e \in Entity : rowid'[e] > 0 \/ rowid'[e] = -1
BY DEF SignInv, PositiveRows

LEMMA StepThrowsSign ==
  ASSUME SignInv, StepThrows, rowid' = rowid
  PROVE  /\ PositiveRows(rows)'
         /\ (txn' # None => PositiveRows(txn)')
         /\ \A e \in Entity : rowid'[e] > 0 \/ rowid'[e] = -1
BY SignFrame DEF StepThrows

LEMMA SignEntity ==
  ASSUME PkFields = {}, SignInv, NEW e \in Entity, EntityStep(e)
  PROVE  /\ PositiveRows(rows)'
         /\ (txn' # None => PositiveRows(txn)')
         /\ \A d \in Entity : rowid'[d] > 0 \/ rowid'[d] = -1
<1>1. /\ rows \in Table /\ rowid \in [Entity -> Rowid \cup {-1}] /\ KeyInv
      /\ Rowid \subseteq Int
  BY EntityAssumption DEF SignInv, KeyInv, TypeInv, TypeOK
<1>2. ASSUME rows' = rows, txn' = txn, rowid' \in {rowid, [rowid EXCEPT ![e] = -1]}
      PROVE  /\ PositiveRows(rows)'
             /\ (txn' # None => PositiveRows(txn)')
             /\ \A d \in Entity : rowid'[d] > 0 \/ rowid'[d] = -1
  BY <1>1, <1>2 DEF SignInv, PositiveRows
<1>3. ASSUME NEW f \in Field, NEW x \in MemberValue(f), Assign(e, f, x)
      PROVE  rows' = rows /\ txn' = txn /\ rowid' = rowid
  BY <1>3 DEF Assign
<1>4. CASE \/ Construct(e) \/ Destroy(e) \/ Reset(e)
           \/ UpdatePrepareThrows(e) \/ RemoveNothing(e)
  BY <1>2, <1>4 DEF Construct, Destroy, Reset, UpdatePrepareThrows,
       RemoveNothing, objVars
<1>5. CASE InsertOk(e)
  <2>1. PICK r \in Rowid :
          /\ IsInsertId(e, r)
          /\ rows' = [rows EXCEPT ![r] = [cells |-> InsertCells(e, r),
                                          tag |-> nextTag + 1]]
          /\ rowid' = [rowid EXCEPT ![e] = r]
    BY <1>5 DEF InsertOk
  <2>2. r > 0
    <3>1. IsNewRowid(r)
      BY <2>1 DEF IsInsertId
    <3>2. CASE Occupied = {}
      BY <3>1, <3>2 DEF IsNewRowid
    <3>3. CASE Occupied # {}
      <4>1. r - 1 \in Rowid /\ rows[r - 1] # None
        BY <3>1, <3>3 DEF IsNewRowid, Occupied
      <4>2. r - 1 > 0
        BY <4>1 DEF SignInv, PositiveRows
      <4>3. QED
        BY <1>1, <4>2
    <3>4. QED
      BY <3>2, <3>3
  <2>3. PositiveRows(rows)'
    BY <1>1, <2>1, <2>2 DEF SignInv, PositiveRows, Table
  <2>4. \A d \in Entity : rowid'[d] > 0 \/ rowid'[d] = -1
    BY <1>1, <2>1, <2>2 DEF SignInv
  <2>5. txn' # None => PositiveRows(txn)'
    BY <1>5 DEF InsertOk, SignInv, PositiveRows
  <2>6. QED
    BY <2>3, <2>4, <2>5
<1>6. CASE UpdateOk(e)
  <2>1. /\ Stored(e) /\ e \in live /\ rows' = UpdatedRows(e)
        /\ rowid' = rowid /\ txn' = txn
    BY <1>6 DEF UpdateOk, Stored
  <2>2. UpdateId(e) = rowid[e]
    BY <1>1, <2>1, UpdateStays
  <2>3. \A r \in Rowid : rows'[r] # None => rows[r] # None
    BY <2>1, <2>2 DEF UpdatedRows, Occupied
  <2>4. QED
    BY <2>1, <2>3, SignFrame
<1>7. CASE RemoveOk(e)
  <2>1. /\ rowid' = [rowid EXCEPT ![e] = -1] /\ txn' = txn
        /\ rows' = [rows EXCEPT ![rowid[e]] = None]
    BY <1>7 DEF RemoveOk
  <2>2. \A r \in Rowid : rows'[r] # None => rows[r] # None
    BY <1>1, <2>1 DEF Table
  <2>3. QED
    BY <1>1, <2>1, <2>2 DEF SignInv, PositiveRows
<1>8. CASE InsertThrows(e) \/ UpdateThrows(e) \/ RemoveThrows(e)
  BY <1>8, StepThrowsSign DEF InsertThrows, UpdateThrows, RemoveThrows, objVars
<1>9. QED
  BY <1>2, <1>3, <1>4, <1>5, <1>6, <1>7, <1>8 DEF EntityStep, Save, Remove

LEMMA SignStatement ==
  ASSUME SignInv, StatementStep
  PROVE  /\ PositiveRows(rows)'
         /\ (txn' # None => PositiveRows(txn)')
         /\ \A d \in Entity : rowid'[d] > 0 \/ rowid'[d] = -1
<1>1. ASSUME NEW E \in SUBSET Entity, NEW h \in [E -> Rowid], Select(E, h)
      PROVE  /\ PositiveRows(rows)'
             /\ (txn' # None => PositiveRows(txn)')
             /\ \A d \in Entity : rowid'[d] > 0 \/ rowid'[d] = -1
  <2>1. /\ rows' = rows /\ txn' = txn
        /\ rowid' = [e \in Entity |-> IF e \in E THEN h[e] ELSE rowid[e]]
        /\ \A e \in E : h[e] \in Occupied
    BY <1>1 DEF Select
  <2>2. \A e \in E : h[e] > 0
    BY <2>1 DEF SignInv, PositiveRows, Occupied
  <2>3. QED
    BY <2>1, <2>2 DEF SignInv, PositiveRows
<1>2. ASSUME NEW S \in SUBSET Rowid, ClassRemove(S)
      PROVE  /\ PositiveRows(rows)'
             /\ (txn' # None => PositiveRows(txn)')
             /\ \A d \in Entity : rowid'[d] > 0 \/ rowid'[d] = -1
  BY <1>2, SignFrame DEF ClassRemove, objVars
<1>3. ASSUME NEW r \in Rowid, NEW f \in Field, NEW v \in Value \cup {Null},
             ExecUpdate(r, f, v)
      PROVE  /\ PositiveRows(rows)'
             /\ (txn' # None => PositiveRows(txn)')
             /\ \A d \in Entity : rowid'[d] > 0 \/ rowid'[d] = -1
  <2>1. /\ rows' = [rows EXCEPT ![r].cells[f] = v] /\ r \in Occupied
        /\ rowid' = rowid /\ txn' = txn /\ rows \in Table
    BY <1>3 DEF ExecUpdate, objVars, SignInv, KeyInv, TypeInv, TypeOK
  <2>2. \A q \in Rowid : rows'[q] # None => rows[q] # None
    BY <2>1 DEF Occupied, Table
  <2>3. QED
    BY <2>1, <2>2, SignFrame
<1>4. CASE StatementThrows
  BY <1>4, StepThrowsSign DEF StatementThrows, objVars
<1>5. CASE Begin \/ Commit \/ Rollback
  BY <1>5, SignFrame DEF Begin, Commit, Rollback, objVars
<1>6. QED
  BY <1>1, <1>2, <1>3, <1>4, <1>5 DEF StatementStep

LEMMA SignInvStep == PkFields = {} /\ SignInv /\ [Next]_vars => SignInv'
<1>1. SUFFICES ASSUME PkFields = {}, SignInv, [Next]_vars PROVE SignInv'
  OBVIOUS
<1>2. KeyInv'
  BY <1>1, KeyInvStep DEF SignInv
<1>3. CASE UNCHANGED vars
  BY <1>1, <1>2, <1>3 DEF vars, SignInv, PositiveRows
<1>4. QED
  BY <1>1, <1>2, <1>3, SignEntity, SignStatement DEF Next, SignInv

(* The sign of _rowid_ tells whether an entity was read or inserted, for    *)
(* every program and class without an assignable key.                       *)
THEOREM SignIsReliable == Spec => []SignTellsStored
<1>1. CASE PkFields # {}
  <2>1. SignTellsStored
    BY <1>1 DEF SignTellsStored
  <2>2. QED
    BY <2>1, PTL
<1>2. CASE PkFields = {}
  <2>1. SignInv => SignTellsStored
    BY DEF SignInv, SignTellsStored, PositiveRows, Occupied, KeyInv, TypeInv, TypeOK
  <2>2. QED
    BY <1>2, <2>1, SignInvInit, SignInvStep, PTL DEF Spec
<1>3. QED
  BY <1>1, <1>2

-----------------------------------------------------------------------------
(* The snapshot and the row.  A save() that returns, and a load, make them  *)
(* agree; nothing but the entity's own save() and load write its snapshot.  *)
LEMMA SnapshotInserted ==
  ASSUME KeyInv, NEW e \in live, InsertOk(e)
  PROVE  Snapshot(e)'
<1>1. PICK r \in Rowid :
        /\ ~Refused(InsertCells(e, r), r, Occupied)
        /\ rows' = [rows EXCEPT ![r] = [cells |-> InsertCells(e, r),
                                        tag |-> nextTag + 1]]
        /\ rowid' = [rowid EXCEPT ![e] = r]
        /\ vals' = [vals EXCEPT ![e] = InsertVals(e, r)]
  BY DEF InsertOk
<1>2. /\ e \in Entity /\ rows \in Table /\ nextTag \in Nat
      /\ rowid \in [Entity -> Rowid \cup {-1}] /\ mem \in [Entity -> Members]
      /\ vals \in [Entity -> [Field -> DbValue] \cup {None}]
  BY DEF KeyInv, TypeInv, TypeOK
<1>3. /\ rowid'[e] = r /\ vals'[e] = InsertVals(e, r)
      /\ rows'[r] = [cells |-> InsertCells(e, r), tag |-> nextTag + 1]
  BY <1>1, <1>2 DEF Table
<1>4. /\ InsertCells(e, r) \in [Field -> DbValue]
      /\ InsertVals(e, r) \in Cells
  <2>1. r \in Int
    BY EntityAssumption
  <2>2. QED
    BY <1>2, <2>1, InsertTypes
<1>5. InsertCells(e, r) \in Cells
  BY <1>1, <1>4, TakenCells
<1>6. rows'[r] \in Row
  BY <1>2, <1>3, <1>5 DEF Row
<1>7. vals'[e] # None /\ rows'[r] # None
  BY <1>3, <1>4, <1>6, NoneAssumption DEF Cells
<1>8. ASSUME NEW f \in Field
      PROVE  InsertCells(e, r)[f] = InsertVals(e, r)[f]
  <2>1. CASE f \in KeyFields
    BY <2>1 DEF InsertCells, InsertVals
  <2>2. CASE f \notin KeyFields
    <3>1. /\ InsertCells(e, r)[f] = BindDbVal(f, Getter(f, mem[e][f]))
          /\ InsertVals(e, r)[f] = Getter(f, mem[e][f])
      BY <2>2 DEF InsertCells, InsertVals
    <3>2. BindDbVal(f, Getter(f, mem[e][f])) = Null => Kind[f] = "opt"
      BY <1>5, <3>1 DEF Cells
    <3>3. BindDbVal(f, Getter(f, mem[e][f])) = Getter(f, mem[e][f])
      BY <3>2, BoundValue
    <3>4. QED
      BY <3>1, <3>3
  <2>3. QED
    BY <2>1, <2>2
<1>9. QED
  BY <1>3, <1>7, <1>8 DEF Snapshot, ReadsAs

LEMMA SnapshotUpdated ==
  ASSUME PkFields = {}, KeyInv, NEW e \in live, UpdateOk(e),
         rowid[e] \in Occupied
  PROVE  Snapshot(e)'
<1>1. /\ Stored(e) /\ rows' = UpdatedRows(e) /\ rowid' = rowid
      /\ ~UpdateRefused(e) /\ vals' = [vals EXCEPT ![e] = UpdateVals(e)]
  BY DEF UpdateOk
<1>2. /\ e \in Entity /\ rows \in Table /\ mem \in [Entity -> Members]
      /\ vals \in [Entity -> [Field -> DbValue] \cup {None}]
  BY DEF KeyInv, TypeInv, TypeOK
<1>3. UpdateId(e) = rowid[e]
  BY <1>1, UpdateStays
<1>4. rowid[e] \in Rowid /\ rows[rowid[e]] \in Row
  BY <1>2 DEF Occupied, Table
<1>5. /\ rows'[rowid[e]] = [cells |-> UpdateCells(e), tag |-> rows[rowid[e]].tag]
      /\ vals'[e] = UpdateVals(e)
  BY <1>1, <1>2, <1>3, <1>4 DEF UpdatedRows
<1>6. /\ UpdateVals(e) \in Cells
      /\ UpdateCells(e) \in [Field -> DbValue]
  BY <1>2, UpdateTypes
<1>7. UpdateCells(e) \in Cells
  BY <1>1, <1>6, TakenCells DEF UpdateRefused
<1>8. rows'[rowid[e]] \in Row
  BY <1>4, <1>5, <1>7 DEF Row
<1>9. vals'[e] # None /\ rows'[rowid[e]] # None
  BY <1>5, <1>6, <1>8, NoneAssumption DEF Cells
<1>10. ASSUME NEW f \in Field
       PROVE  UpdateCells(e)[f] = UpdateVals(e)[f]
  <2>1. /\ UpdateCells(e)[f] = BindDbVal(f, Getter(f, mem[e][f]))
        /\ UpdateVals(e)[f] = Getter(f, mem[e][f])
    BY DEF UpdateCells, UpdateVals
  <2>2. BindDbVal(f, Getter(f, mem[e][f])) = Null => Kind[f] = "opt"
    BY <1>7, <2>1 DEF Cells
  <2>3. BindDbVal(f, Getter(f, mem[e][f])) = Getter(f, mem[e][f])
    BY <2>2, BoundValue
  <2>4. QED
    BY <2>1, <2>3
<1>11. QED
  BY <1>1, <1>5, <1>9, <1>10 DEF Snapshot, ReadsAs

LEMMA SnapshotLoaded ==
  ASSUME KeyInv, NEW E \in SUBSET Entity, NEW h \in [E -> Rowid], Select(E, h),
         NEW e \in E
  PROVE  Snapshot(e)'
<1>1. /\ h[e] \in Occupied /\ rowid'[e] = h[e] /\ rows' = rows
      /\ vals'[e] = LoadedVals(h[e])
  BY DEF Select
<1>2. LoadedVals(h[e]) # None
  BY <1>1, LoadTypes, NoneAssumption DEF KeyInv, TypeInv, Cells
<1>3. \A f \in Field : LoadedVals(h[e])[f] = ColumnRead(rows[h[e]].cells[f])
  BY DEF LoadedVals
<1>4. QED
  BY <1>1, <1>2, <1>3 DEF Snapshot, ReadsAs, Occupied

(* A step other than its own save() leaves a stored entity its number and   *)
(* its snapshot, if it does not load the entity.                            *)
LEMMA OthersKeepSnapshot ==
  ASSUME KeyInv, Next, NEW e \in live', Stored(e)', ~Save(e), ~Snapshot(e)'
  PROVE  e \in live /\ rowid'[e] = rowid[e] /\ vals'[e] = vals[e]
<1>1. TypeOK /\ Fresh /\ e \in live' /\ rowid'[e] >= 0
  BY DEF KeyInv, TypeInv, Stored
<1>2. ASSUME UNCHANGED objVars
      PROVE  e \in live /\ rowid'[e] = rowid[e] /\ vals'[e] = vals[e]
  BY <1>1, <1>2 DEF objVars
<1>3. ASSUME NEW d \in Entity, EntityStep(d)
      PROVE  e \in live /\ rowid'[e] = rowid[e] /\ vals'[e] = vals[e]
  <2>1. CASE Construct(d)
    <3>1. rowid'[d] = -1
      BY <1>1, <2>1 DEF Construct, Fresh
    <3>2. e # d
      BY <1>1, <3>1
    <3>3. QED
      BY <1>1, <2>1, <3>2 DEF Construct
  <2>2. CASE Destroy(d)
    <3>1. e # d /\ e \in live
      BY <1>1, <2>2 DEF Destroy
    <3>2. QED
      BY <1>1, <2>2, <3>1 DEF Destroy, TypeOK
  <2>3. ASSUME NEW f \in Field, NEW x \in MemberValue(f), Assign(d, f, x)
        PROVE  e \in live /\ rowid'[e] = rowid[e] /\ vals'[e] = vals[e]
    BY <1>1, <2>3 DEF Assign
  <2>4. CASE Reset(d)
    BY <1>1, <2>4 DEF Reset
  <2>5. CASE Save(d)
    <3>1. e # d
      BY <2>5
    <3>2. CASE InsertOk(d) \/ UpdateOk(d) \/ UpdateThrows(d)
      BY <1>1, <3>1, <3>2 DEF InsertOk, UpdateOk, UpdateThrows, TypeOK
    <3>3. CASE InsertThrows(d) \/ UpdatePrepareThrows(d)
      BY <1>2, <3>3 DEF InsertThrows, UpdatePrepareThrows
    <3>4. QED
      BY <2>5, <3>2, <3>3 DEF Save
  <2>6. CASE RemoveOk(d)
    <3>1. rowid'[d] = -1 /\ live' = live /\ vals' = vals
      BY <1>1, <2>6 DEF RemoveOk, TypeOK
    <3>2. e # d
      BY <1>1, <3>1
    <3>3. QED
      BY <1>1, <2>6, <3>1, <3>2 DEF RemoveOk, TypeOK
  <2>7. CASE RemoveNothing(d) \/ RemoveThrows(d)
    BY <1>2, <2>7 DEF RemoveNothing, RemoveThrows
  <2>8. QED
    BY <1>3, <2>1, <2>2, <2>3, <2>4, <2>5, <2>6, <2>7 DEF EntityStep, Remove
<1>4. ASSUME NEW E \in SUBSET Entity, NEW h \in [E -> Rowid], Select(E, h)
      PROVE  e \in live /\ rowid'[e] = rowid[e] /\ vals'[e] = vals[e]
  <2>1. e \notin E
    BY <1>4, SnapshotLoaded
  <2>2. e \in live /\ e \in Entity
    BY <1>1, <1>4, <2>1 DEF Select, TypeOK
  <2>3. QED
    BY <1>4, <2>1, <2>2 DEF Select
<1>5. CASE StatementStep
  <2>1. ASSUME NEW S \in SUBSET Rowid, ClassRemove(S)
        PROVE  UNCHANGED objVars
    BY <2>1 DEF ClassRemove
  <2>2. ASSUME NEW r \in Rowid, NEW f \in Field, NEW v \in Value \cup {Null},
               ExecUpdate(r, f, v)
        PROVE  UNCHANGED objVars
    BY <2>2 DEF ExecUpdate
  <2>3. CASE StatementThrows \/ Begin \/ Commit \/ Rollback
    BY <1>2, <2>3 DEF StatementThrows, Begin, Commit, Rollback
  <2>4. QED
    BY <1>2, <1>4, <1>5, <2>1, <2>2, <2>3 DEF StatementStep
<1>6. QED
  BY <1>3, <1>5 DEF Next

(* What may have happened when a stored entity's snapshot is not its row's. *)
Departed(e) ==
  \/ UpdateThrows(e)
  \/ ~Save(e) /\ rows'[rowid'[e]] # rows[rowid'[e]]
  \/ /\ Stored(e) /\ ~Snapshot(e)
     /\ ~(Save(e) /\ ~threw' /\ rowid[e] \in Occupied)

LEMMA SnapshotStep ==
  ASSUME PkFields = {}, KeyInv, Next, NEW e \in live', Stored(e)', ~Snapshot(e)'
  PROVE  Departed(e)
<1>1. CASE ~Save(e)
  <2>1. e \in live /\ rowid'[e] = rowid[e] /\ vals'[e] = vals[e]
    BY <1>1, OthersKeepSnapshot
  <2>2. Stored(e)
    BY <2>1 DEF Stored
  <2>3. CASE rows'[rowid[e]] = rows[rowid[e]]
    <3>1. ~Snapshot(e)
      BY <2>1, <2>3 DEF Snapshot
    <3>2. QED
      BY <1>1, <2>2, <3>1 DEF Departed
  <2>4. CASE rows'[rowid[e]] # rows[rowid[e]]
    BY <1>1, <2>1, <2>4 DEF Departed
  <2>5. QED
    BY <2>3, <2>4
<1>2. CASE Save(e)
  <2>1. CASE InsertOk(e)
    BY <2>1, SnapshotInserted DEF InsertOk
  <2>2. CASE InsertThrows(e)
    <3>1. rowid'[e] < 0 /\ rowid'[e] >= 0 /\ e \in live /\ rowid' = rowid
      BY <2>2 DEF InsertThrows, objVars, Stored
    <3>2. rowid[e] \in Int
      BY <3>1, LiveTypes DEF KeyInv, TypeInv
    <3>3. QED
      BY <3>1, <3>2
  <2>3. CASE UpdateOk(e)
    <3>1. e \in live /\ Stored(e) /\ rowid[e] \notin Occupied
      BY <2>3, SnapshotUpdated DEF UpdateOk, Stored
    <3>2. rowid[e] \in Rowid
      <4>1. rowid[e] \in Rowid \cup {-1} /\ rowid[e] >= 0
        BY <3>1 DEF KeyInv, TypeInv, TypeOK, Stored
      <4>2. QED
        BY <4>1
    <3>3. ~Snapshot(e)
      BY <3>1, <3>2 DEF Snapshot, Occupied
    <3>4. QED
      BY <3>1, <3>3 DEF Departed
  <2>4. CASE UpdateThrows(e)
    BY <2>4 DEF Departed
  <2>5. CASE UpdatePrepareThrows(e)
    <3>1. Stored(e) /\ threw' /\ UNCHANGED <<rowid, vals, rows>>
      BY <2>5 DEF UpdatePrepareThrows, objVars
    <3>2. ~Snapshot(e)
      BY <3>1 DEF Snapshot
    <3>3. QED
      BY <3>1, <3>2 DEF Departed
  <2>6. QED
    BY <1>2, <2>1, <2>2, <2>3, <2>4, <2>5 DEF Save
<1>3. QED
  BY <1>1, <1>2

(* A failed save() is the only way in which an entity gets a snapshot that  *)
(* its row did not hold, and the next save() that returns mends it: for     *)
(* every class without an assignable key, in every program.                 *)
THEOREM SnapshotsFollow ==
  ASSUME PkFields = {}
  PROVE  Spec => SnapshotFollowsRow
<1>1. KeyInv /\ [Next]_vars =>
        [\A e \in live' : Stored(e)' /\ ~Snapshot(e)' =>
           \/ UpdateThrows(e)
           \/ ~Save(e) /\ rows'[rowid'[e]] # rows[rowid'[e]]
           \/ /\ Stored(e) /\ ~Snapshot(e)
              /\ ~(Save(e) /\ ~threw' /\ rowid[e] \in Occupied)]_vars
  BY SnapshotStep DEF Departed
<1>2. QED
  BY <1>1, KeyInvInit, KeyInvStep, PTL DEF Spec, SnapshotFollowsRow
=============================================================================
