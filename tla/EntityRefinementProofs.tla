----------------------- MODULE EntityRefinementProofs -----------------------
(***************************************************************************)
(* The proof that module Entity implements EntityPromise for every class   *)
(* without an assignable key or a UNIQUE column, in a program that gives   *)
(* each row one entity at a time.  Besides what EntityExclusiveProofs      *)
(* shows, it needs that the tags of the rows are distinct, so that they    *)
(* are identities, and that no member holds more than its type can.        *)
(***************************************************************************)
EXTENDS EntityRefinement, EntityExclusiveProofs

-----------------------------------------------------------------------------
(* The tags of the rows are identities.                                     *)
Tags ==
  /\ \A r \in Occupied : rows[r].tag \in 1 .. nextTag
  /\ \A q, r \in Occupied : rows[q].tag = rows[r].tag => q = r

(* A narrow member holds what its type can hold.                            *)
InRange ==
  \A e \in Entity : \A f \in Field :
    Kind[f] = "narrow" => mem[e][f] \in 0 .. NarrowMod - 1

RefInv == OwnInv /\ SignInv /\ Tags /\ InRange

LEMMA RefInvInit == Init => RefInv
<1>1. SUFFICES ASSUME Init PROVE Tags /\ InRange
  BY OwnInvInit, SignInvInit DEF RefInv
<1>2. Tags
  BY <1>1 DEF Init, Tags, Occupied
<1>3. 0 \in 0 .. NarrowMod - 1
  BY CodecAssumption
<1>4. InRange
  BY <1>1, <1>3 DEF Init, InRange, NewMembers, InitialMember
<1>5. QED
  BY <1>2, <1>4

LEMMA RefTypes ==
  ASSUME RefInv
  PROVE  /\ live \subseteq Entity /\ rowid \in [Entity -> Rowid \cup {-1}]
         /\ vals \in [Entity -> [Field -> DbValue] \cup {None}]
         /\ mem \in [Entity -> Members] /\ rows \in Table
         /\ origin \in [Entity -> Nat] /\ nextTag \in Nat /\ txn = None
         /\ \A e \in Entity : rowid[e] \in Int
<1>1. rowid \in [Entity -> Rowid \cup {-1}]
  BY DEF RefInv, OwnInv, KeyInv, TypeInv, TypeOK
<1>2. \A e \in Entity : rowid[e] \in Int
  <2>1. Rowid \subseteq Int /\ -1 \in Int
    BY EntityAssumption
  <2>2. \A e \in Entity : rowid[e] \in Rowid \/ rowid[e] = -1
    BY <1>1
  <2>3. QED
    BY <2>1, <2>2
<1>3. QED
  BY <1>1, <1>2 DEF RefInv, OwnInv, KeyInv, TypeInv, TypeOK

-----------------------------------------------------------------------------
(* How a change of the table changes the records.                           *)

(* One row is written, a new one or one that keeps its tag.                 *)
LEMMA WriteRecord ==
  ASSUME NEW r \in Rowid,
         Occupied' = Occupied \cup {r},
         \A q \in Occupied : q # r => /\ rows'[q] = rows[q]
                                      /\ rows[q].tag # rows'[r].tag,
         r \in Occupied => rows'[r].tag = rows[r].tag
  PROVE  recordsOf' = {p \in recordsOf : p.id # rows'[r].tag}
                        \cup {[id |-> rows'[r].tag, content |-> DataOf(rows'[r].cells)]}
<1>1. ASSUME NEW q \in Occupied, q # r
      PROVE  RecordAt(q)' = RecordAt(q) /\ RecordAt(q).id # rows'[r].tag
  BY <1>1 DEF RecordAt, DataOf
<1>2. r \in Occupied => RecordAt(r).id = rows'[r].tag
  BY DEF RecordAt
<1>3. RecordAt(r)' = [id |-> rows'[r].tag, content |-> DataOf(rows'[r].cells)]
  BY DEF RecordAt, DataOf
<1>4. recordsOf' = {RecordAt(q)' : q \in Occupied \ {r}} \cup {RecordAt(r)'}
  BY DEF recordsOf
<1>5. {RecordAt(q)' : q \in Occupied \ {r}} = {RecordAt(q) : q \in Occupied \ {r}}
  BY <1>1
<1>6. {p \in recordsOf : p.id # rows'[r].tag} = {RecordAt(q) : q \in Occupied \ {r}}
  BY <1>1, <1>2 DEF recordsOf
<1>7. QED
  BY <1>3, <1>4, <1>5, <1>6

(* The rows of S are deleted.                                               *)
LEMMA DeleteRecords ==
  ASSUME Tags, NEW S \in SUBSET Occupied,
         Occupied' = Occupied \ S,
         \A q \in Occupied \ S : rows'[q] = rows[q]
  PROVE  recordsOf' = recordsOf \ {RecordAt(r) : r \in S}
<1>1. \A q \in Occupied \ S : RecordAt(q)' = RecordAt(q)
  BY DEF RecordAt, DataOf
<1>2. recordsOf' = {RecordAt(q) : q \in Occupied \ S}
  BY <1>1 DEF recordsOf
<1>3. \A q, r \in Occupied : RecordAt(q) = RecordAt(r) => q = r
  BY DEF Tags, RecordAt
<1>4. QED
  BY <1>2, <1>3 DEF recordsOf

(* The record of a stored entity.                                           *)
LEMMA BoundRecord ==
  ASSUME RefInv, NEW e \in live, rowid[e] >= 0
  PROVE  /\ boundOf[e] = rows[rowid[e]].tag
         /\ boundOf[e] # 0
         /\ rowid[e] \in Occupied
<1>1. e \in Entity /\ rowid[e] \in Occupied /\ rows[rowid[e]].tag = origin[e]
  BY StoredRow DEF RefInv
<1>2. rows[rowid[e]].tag \in 1 .. nextTag /\ nextTag \in Nat
  BY <1>1, RefTypes DEF RefInv, Tags
<1>3. QED
  BY <1>1, <1>2 DEF boundOf

(* No object stands for the record of a row that no entity holds.           *)
LEMMA UnheldRecord ==
  ASSUME RefInv, NEW r \in Occupied, ~Held(r)
  PROVE  \A e \in live : boundOf[e] # rows[r].tag
<1>1. SUFFICES ASSUME NEW e \in live, boundOf[e] = rows[r].tag PROVE FALSE
  OBVIOUS
<1>2. rows[r].tag \in 1 .. nextTag /\ nextTag \in Nat
  BY RefTypes DEF RefInv, Tags
<1>3. e \in Entity /\ rowid[e] \in Rowid \cup {-1}
  BY RefTypes
<1>4. rowid[e] >= 0
  BY <1>1, <1>2, <1>3, EntityAssumption DEF boundOf
<1>5. rows[rowid[e]].tag = rows[r].tag /\ rowid[e] \in Occupied
  BY <1>1, <1>4, BoundRecord
<1>6. rowid[e] = r
  BY <1>5 DEF RefInv, Tags
<1>7. QED
  BY <1>6 DEF Held
-----------------------------------------------------------------------------
(* The invariant holds in every state.                                      *)

LEMMA TagsFrame ==
  ASSUME Tags, nextTag' = nextTag,
         \A r \in Occupied' : r \in Occupied /\ rows'[r].tag = rows[r].tag
  PROVE  Tags'
BY DEF Tags

LEMMA SameTags ==
  ASSUME Tags, rows' = rows, nextTag' = nextTag
  PROVE  Tags'
BY TagsFrame DEF Occupied

LEMMA TagsEntity ==
  ASSUME Quiet, RefInv, NEW e \in Entity, EntityStep(e)
  PROVE  Tags'
<1>1. Tags /\ OwnInv /\ rows \in Table /\ nextTag \in Nat
  BY RefTypes DEF RefInv
<1>2. CASE InsertOk(e)
  <2>1. PICK r \in Rowid :
          /\ ~Refused(InsertCells(e, r), r, Occupied)
          /\ rows' = [rows EXCEPT ![r] = [cells |-> InsertCells(e, r),
                                          tag |-> nextTag + 1]]
          /\ nextTag' = nextTag + 1
    BY <1>2 DEF InsertOk
  <2>2. rows'[r].tag = nextTag' /\ \A q \in Occupied : q # r
    BY <1>1, <2>1 DEF Table, Refused, Conflict
  <2>3. \A q \in Occupied' : q # r => q \in Occupied /\ rows'[q] = rows[q]
    BY <1>1, <2>1 DEF Table, Occupied
  <2>4. \A q \in Occupied : rows[q].tag \in 1 .. nextTag /\ rows[q].tag # nextTag'
    BY <1>1, <2>1 DEF Tags
  <2>5. nextTag' \in 1 .. nextTag' /\ 1 .. nextTag \subseteq 1 .. nextTag'
    BY <1>1, <2>1
  <2>6. \A q \in Occupied' : rows'[q].tag \in 1 .. nextTag'
    BY <2>2, <2>3, <2>4, <2>5
  <2>7. ASSUME NEW q \in Occupied', NEW p \in Occupied', rows'[q].tag = rows'[p].tag
        PROVE  q = p
    BY <1>1, <2>2, <2>3, <2>4, <2>7 DEF Tags
  <2>8. QED
    BY <2>6, <2>7 DEF Tags
<1>3. CASE UpdateOk(e)
  <2>1. /\ Stored(e) /\ e \in live /\ rowid[e] >= 0
        /\ rows' = UpdatedRows(e) /\ nextTag' = nextTag
    BY <1>3 DEF UpdateOk, Stored
  <2>2. UpdateId(e) = rowid[e] /\ rowid[e] \in Occupied
    BY <1>1, <2>1, UpdateStays, StoredRow DEF Quiet, Exclusive, OwnInv
  <2>3. \A r \in Occupied' : r \in Occupied /\ rows'[r].tag = rows[r].tag
    BY <2>1, <2>2 DEF UpdatedRows, Occupied
  <2>4. QED
    BY <1>1, <2>1, <2>3, TagsFrame
<1>4. CASE RemoveOk(e)
  <2>1. rows' = [rows EXCEPT ![rowid[e]] = None] /\ nextTag' = nextTag
    BY <1>4 DEF RemoveOk
  <2>2. \A r \in Occupied' : r \in Occupied /\ rows'[r].tag = rows[r].tag
    BY <1>1, <2>1 DEF Occupied, Table
  <2>3. QED
    BY <1>1, <2>1, <2>2, TagsFrame
<1>5. ASSUME InsertThrows(e) \/ RemoveThrows(e)
      PROVE  Tags'
  BY <1>1, <1>5, StepThrowsOwn, SameTags DEF InsertThrows, RemoveThrows, StepThrows
<1>6. ~UpdateThrows(e)
  BY <1>1, NoUpdateThrows DEF UpdateThrows, Stored
<1>7. ASSUME NEW f \in Field, NEW x \in MemberValue(f), Assign(e, f, x)
      PROVE  Tags'
  BY <1>1, <1>7, SameTags DEF Assign
<1>8. ASSUME \/ Construct(e) \/ Destroy(e) \/ Reset(e)
             \/ UpdatePrepareThrows(e) \/ RemoveNothing(e)
      PROVE  Tags'
  BY <1>1, <1>8, SameTags
     DEF Construct, Destroy, Reset, UpdatePrepareThrows, RemoveNothing
<1>9. QED
  BY <1>2, <1>3, <1>4, <1>5, <1>6, <1>7, <1>8 DEF EntityStep, Save, Remove

LEMMA TagsStatement ==
  ASSUME Quiet, RefInv, StatementStep
  PROVE  Tags'
<1>1. Tags /\ OwnInv /\ rows \in Table /\ Exclusive
  BY RefTypes DEF RefInv, Quiet
<1>2. ASSUME NEW E \in SUBSET Entity, NEW h \in [E -> Rowid], Select(E, h)
      PROVE  Tags'
  BY <1>1, <1>2, SameTags DEF Select
<1>3. ASSUME NEW S \in SUBSET Rowid, ClassRemove(S)
      PROVE  Tags'
  <2>1. \A r \in Occupied' : r \in Occupied /\ rows'[r].tag = rows[r].tag
    BY <1>3 DEF ClassRemove, Occupied
  <2>2. QED
    BY <1>1, <1>3, <2>1, TagsFrame DEF ClassRemove
<1>4. ASSUME NEW r \in Rowid, NEW f \in Field, NEW v \in Value \cup {Null},
             ExecUpdate(r, f, v)
      PROVE  Tags'
  <2>1. /\ rows' = [rows EXCEPT ![r].cells[f] = v] /\ nextTag' = nextTag
        /\ r \in Occupied /\ rows[r] \in Row
    BY <1>1, <1>4 DEF ExecUpdate, Table, Occupied
  <2>2. \A q \in Rowid : q # r => rows'[q] = rows[q]
    BY <1>1, <2>1 DEF Table
  <2>3. rows'[r].tag = rows[r].tag
    BY <1>1, <2>1 DEF Table, Row
  <2>4. QED
    BY <1>1, <2>1, <2>2, <2>3, TagsFrame DEF Occupied
<1>5. CASE StatementThrows
  BY <1>1, <1>5, StepThrowsOwn, SameTags DEF StatementThrows, StepThrows
<1>6. ~(Begin \/ Commit \/ Rollback)
  BY <1>1 DEF Begin, Commit, Rollback, Exclusive, OwnInv
<1>7. QED
  BY <1>2, <1>3, <1>4, <1>5, <1>6 DEF StatementStep

(* The setters keep within the type of their member.                        *)
LEMMA SetterInRange ==
  ASSUME NEW f \in Field, Kind[f] = "narrow", NEW v \in Int
  PROVE  Setter(f, v) \in 0 .. NarrowMod - 1
<1>1. Setter(f, v) = v % NarrowMod
  BY DEF Setter
<1>2. v % NarrowMod \in 0 .. NarrowMod - 1
  BY CodecAssumption
<1>3. QED
  BY <1>1, <1>2

LEMMA InRangeFrame ==
  ASSUME InRange, NEW e \in Entity,
         \A d \in Entity \ {e} : mem'[d] = mem[d],
         \A f \in Field : Kind[f] = "narrow" => mem'[e][f] \in 0 .. NarrowMod - 1
  PROVE  InRange'
BY DEF InRange

LEMMA NarrowVals ==
  ASSUME RefInv, NEW e \in Entity, vals[e] # None,
         NEW f \in Field, Kind[f] = "narrow"
  PROVE  vals[e][f] \in Int
<1>1. vals[e] \in Cells
  BY DEF RefInv, OwnInv, KeyInv, TypeInv
<1>2. QED
  BY <1>1 DEF Cells, DbValue

LEMMA InRangeEntity ==
  ASSUME RefInv, NEW e \in Entity, EntityStep(e)
  PROVE  InRange'
<1>1. InRange /\ mem \in [Entity -> Members]
  BY RefTypes DEF RefInv
<1>2. ASSUME mem' = mem
      PROVE  InRange'
  BY <1>1, <1>2 DEF InRange
<1>3. ASSUME NEW m \in [Field -> Member], mem' = [mem EXCEPT ![e] = m],
             \A f \in Field : Kind[f] = "narrow" => m[f] \in 0 .. NarrowMod - 1
      PROVE  InRange'
  BY <1>1, <1>3, InRangeFrame
<1>4. CASE Destroy(e)
  <2>1. \A f \in Field : Kind[f] = "narrow" => NewMembers[f] \in 0 .. NarrowMod - 1
    <3>1. 0 \in 0 .. NarrowMod - 1
      BY CodecAssumption
    <3>2. QED
      BY <3>1 DEF NewMembers, InitialMember
  <2>2. NewMembers \in [Field -> Member]
    BY InitialTypes DEF Members
  <2>3. QED
    BY <1>3, <1>4, <2>1, <2>2 DEF Destroy
<1>5. ASSUME NEW f \in Field, NEW x \in MemberValue(f), Assign(e, f, x)
      PROVE  InRange'
  <2>1. mem' = [mem EXCEPT ![e][f] = x]
    BY <1>5 DEF Assign
  <2>2. \A d \in Entity \ {e} : mem'[d] = mem[d]
    BY <1>1, <2>1
  <2>3. \A g \in Field : mem'[e][g] = IF g = f THEN x ELSE mem[e][g]
    BY <1>1, <2>1 DEF Members
  <2>4. Kind[f] = "narrow" => x \in 0 .. NarrowMod - 1
    BY <1>5 DEF MemberValue
  <2>5. QED
    BY <1>1, <2>2, <2>3, <2>4, InRangeFrame DEF InRange
<1>6. CASE Reset(e)
  <2>1. /\ vals[e] # None
        /\ mem' = [mem EXCEPT ![e] = [f \in Field |-> Setter(f, vals[e][f])]]
    BY <1>6 DEF Reset
  <2>2. vals[e] \in Cells
    BY <2>1 DEF RefInv, OwnInv, KeyInv, TypeInv
  <2>3. [f \in Field |-> Setter(f, vals[e][f])] \in [Field -> Member]
    BY <2>2, SetterTypes DEF Members
  <2>4. \A f \in Field : Kind[f] = "narrow" =>
          Setter(f, vals[e][f]) \in 0 .. NarrowMod - 1
    BY <2>1, NarrowVals, SetterInRange
  <2>5. QED
    BY <1>3, <2>1, <2>3, <2>4
<1>7. ASSUME NEW r \in Int, mem' = [mem EXCEPT ![e] = WithKey(@, r)]
      PROVE  InRange'
  <2>1. WithKey(mem[e], r) \in [Field -> Member]
    BY <1>1, WithKeyTypes DEF Members
  <2>2. \A f \in Field : Kind[f] = "narrow" => WithKey(mem[e], r)[f] = mem[e][f]
    BY DEF WithKey, KeyFields
  <2>3. QED
    BY <1>1, <1>3, <1>7, <2>1, <2>2 DEF InRange
<1>8. CASE InsertOk(e)
  BY <1>7, <1>8, EntityAssumption DEF InsertOk
<1>9. CASE RemoveOk(e)
  <2>1. -1 \in Int /\ mem' = [mem EXCEPT ![e] = WithKey(@, -1)]
    BY <1>9 DEF RemoveOk
  <2>2. QED
    BY <1>7, <2>1
<1>10. ASSUME \/ Construct(e) \/ InsertThrows(e) \/ UpdateOk(e) \/ UpdateThrows(e)
              \/ UpdatePrepareThrows(e) \/ RemoveNothing(e) \/ RemoveThrows(e)
       PROVE  mem' = mem
  BY <1>10 DEF Construct, InsertThrows, UpdateOk, UpdateThrows,
       UpdatePrepareThrows, RemoveNothing, RemoveThrows, objVars
<1>11. QED
  BY <1>2, <1>4, <1>5, <1>6, <1>8, <1>9, <1>10 DEF EntityStep, Save, Remove

LEMMA InRangeStatement ==
  ASSUME RefInv, StatementStep
  PROVE  InRange'
<1>1. InRange /\ mem \in [Entity -> Members] /\ rows \in Table
  BY RefTypes DEF RefInv
<1>2. ASSUME NEW E \in SUBSET Entity, NEW h \in [E -> Rowid], Select(E, h)
      PROVE  InRange'
  <2>1. ASSUME NEW e \in E, NEW f \in Field, Kind[f] = "narrow"
        PROVE  mem'[e][f] \in 0 .. NarrowMod - 1
    <3>1. rows[h[e]].cells \in Cells /\ mem'[e] = LoadedMembers(h[e])
      BY <1>1, <1>2 DEF Select, Occupied, Table, Row
    <3>2. ColumnRead(rows[h[e]].cells[f]) \in Int
      BY <3>1, ColumnReadTypes
    <3>3. QED
      BY <2>1, <3>1, <3>2, SetterInRange DEF LoadedMembers, LoadedVals
  <2>2. \A e \in Entity \ E : mem'[e] = mem[e]
    BY <1>2 DEF Select
  <2>3. QED
    BY <1>1, <2>1, <2>2 DEF InRange
<1>3. ASSUME mem' = mem
      PROVE  InRange'
  BY <1>1, <1>3 DEF InRange
<1>4. QED
  BY <1>2, <1>3 DEF StatementStep, ClassRemove, ExecUpdate, StatementThrows,
       Begin, Commit, Rollback, objVars

LEMMA RefInvStep == Quiet /\ RefInv /\ [Next]_vars => RefInv'
<1>1. SUFFICES ASSUME Quiet, RefInv, [Next]_vars PROVE RefInv'
  OBVIOUS
<1>2. OwnInv' /\ SignInv'
  BY <1>1, OwnInvStep, SignInvStep DEF Quiet, Exclusive, RefInv
<1>3. CASE UNCHANGED vars
  BY <1>1, <1>2, <1>3, SameTags DEF RefInv, InRange, vars
<1>4. CASE \E e \in Entity : EntityStep(e)
  BY <1>1, <1>2, <1>4, TagsEntity, InRangeEntity DEF RefInv
<1>5. CASE StatementStep
  BY <1>1, <1>2, <1>5, TagsStatement, InRangeStatement DEF RefInv
<1>6. QED
  BY <1>1, <1>3, <1>4, <1>5 DEF Next

-----------------------------------------------------------------------------
(* Every step of an entity is a step of its object, or none.                *)

Objects == <<live, boundOf, membersOf, baseOf, nextTag>>

(* Nothing that an object is made of has changed.                           *)
LEMMA SameObjects ==
  ASSUME UNCHANGED <<objVars, nextTag>>
  PROVE  UNCHANGED Objects
BY DEF objVars, Objects, boundOf, membersOf, baseOf, DataOf

LEMMA SameRecords ==
  ASSUME rows' = rows
  PROVE  recordsOf' = recordsOf
BY DEF recordsOf, RecordAt, DataOf, Occupied

LEMMA Stutters ==
  ASSUME UNCHANGED <<objVars, rows, nextTag>>
  PROVE  UNCHANGED Promise!vars
BY SameObjects, SameRecords DEF Promise!vars, Objects

(* What setters make of the getters' values: a point in time becomes the    *)
(* beginning of its second.                                                 *)
KeptMember(f, x) == IF Kind[f] = "time" THEN Seconds(x) * Ticks ELSE x
Kept(m) == [f \in Field \ KeyFields |-> KeptMember(f, m[f])]

(* The conversions of EntityPromise are those of Entity.                    *)
LEMMA SameCodec ==
  /\ Promise!Data = Field \ KeyFields
  /\ Promise!InitialMembers = DataOf(NewMembers)
  /\ \A m : Promise!Written(m) =
            [f \in Field \ KeyFields |-> BindDbVal(f, Getter(f, m[f]))]
  /\ \A c : Promise!ReadBack(c) =
            [f \in Field \ KeyFields |-> Setter(f, ColumnRead(c[f]))]
  /\ \A m : Promise!Kept(m) = Kept(m)
<1>1. Promise!Data = Field \ KeyFields
  BY DEF Promise!Data, Promise!KeyFields, KeyFields
<1>2. \A f : Promise!InitialMember(f) = InitialMember(f)
  BY DEF Promise!InitialMember, InitialMember
<1>3. \A f, v : /\ Promise!Getter(f, v) = Getter(f, v)
                /\ Promise!Setter(f, v) = Setter(f, v)
                /\ Promise!BindDbVal(f, v) = BindDbVal(f, v)
                /\ Promise!ColumnRead(v) = ColumnRead(v)
                /\ Promise!Seconds(v) = Seconds(v)
  BY DEF Promise!Getter, Promise!Setter, Promise!BindDbVal, Promise!ColumnRead,
         Getter, Setter, BindDbVal, ColumnRead, Promise!Unbound, Unbound,
         Promise!Seconds, Seconds
<1>4. Promise!InitialMembers = DataOf(NewMembers)
  BY <1>1, <1>2 DEF Promise!InitialMembers, DataOf, NewMembers
<1>5. \A m : Promise!Written(m) =
            [f \in Field \ KeyFields |-> BindDbVal(f, Getter(f, m[f]))]
  BY <1>1, <1>3 DEF Promise!Written
<1>6. \A c : Promise!ReadBack(c) =
            [f \in Field \ KeyFields |-> Setter(f, ColumnRead(c[f]))]
  BY <1>1, <1>3 DEF Promise!ReadBack
<1>7. \A m : Promise!Kept(m) = Kept(m)
  BY <1>1, <1>3 DEF Promise!Kept, Kept, KeptMember
<1>8. QED
  BY <1>1, <1>4, <1>5, <1>6, <1>7

LEMMA InitMaps == Init => Promise!Init
<1>1. SUFFICES ASSUME Init PROVE Promise!Init
  OBVIOUS
<1>2. recordsOf = {}
  BY <1>1 DEF Init, recordsOf, Occupied
<1>3. membersOf = [e \in Entity |-> Promise!InitialMembers]
  BY <1>1, SameCodec DEF Init, membersOf
<1>4. boundOf = [e \in Entity |-> 0] /\ baseOf = [e \in Entity |-> None]
  BY <1>1 DEF Init, boundOf, baseOf
<1>5. QED
  BY <1>1, <1>2, <1>3, <1>4 DEF Init, Promise!Init

LEMMA ConstructMaps ==
  ASSUME NEW e \in Entity, Construct(e)
  PROVE  Promise!New(e)
BY SameRecords DEF Construct, Promise!New, boundOf, membersOf, baseOf, DataOf

LEMMA DestroyMaps ==
  ASSUME RefInv, NEW e \in Entity, Destroy(e)
  PROVE  Promise!Forget(e)
<1>1. /\ e \in live /\ live' = live \ {e} /\ nextTag' = nextTag
      /\ recordsOf' = recordsOf
  BY SameRecords DEF Destroy
<1>2. /\ rowid'[e] = -1 /\ vals'[e] = None /\ mem'[e] = NewMembers
      /\ \A d \in Entity \ {e} : /\ rowid'[d] = rowid[d] /\ vals'[d] = vals[d]
                                 /\ mem'[d] = mem[d] /\ origin'[d] = origin[d]
  BY RefTypes DEF Destroy
<1>3. DataOf(NewMembers) = Promise!InitialMembers
  BY SameCodec
<1>4. boundOf' = [boundOf EXCEPT ![e] = 0]
  <2>1. boundOf'[e] = 0
    BY <1>2 DEF boundOf
  <2>2. \A d \in Entity \ {e} : boundOf'[d] = boundOf[d]
    BY <1>2 DEF boundOf
  <2>3. QED
    BY <2>1, <2>2 DEF boundOf
<1>5. membersOf' = [membersOf EXCEPT ![e] = Promise!InitialMembers]
  BY <1>2, <1>3 DEF membersOf, DataOf
<1>6. baseOf' = [baseOf EXCEPT ![e] = None]
  BY <1>2 DEF baseOf
<1>7. QED
  BY <1>1, <1>4, <1>5, <1>6 DEF Promise!Forget

LEMMA AssignMaps ==
  ASSUME RefInv, NEW e \in Entity, NEW f \in Field, NEW x \in MemberValue(f),
         Assign(e, f, x)
  PROVE  f \in Promise!Data /\ Promise!Assign(e, f, x)
<1>1. /\ e \in live /\ f \in Field \ KeyFields
      /\ mem' = [mem EXCEPT ![e][f] = x]
      /\ UNCHANGED <<live, rowid, vals, rows, origin, nextTag>>
  BY DEF Assign
<1>2. /\ \A d \in Entity \ {e} : mem'[d] = mem[d]
      /\ \A g \in Field : mem'[e][g] = IF g = f THEN x ELSE mem[e][g]
  BY <1>1, RefTypes DEF Members
<1>3. membersOf' = [membersOf EXCEPT ![e][f] = x]
  <2>1. DataOf(mem[e])' = [DataOf(mem[e]) EXCEPT ![f] = x]
    BY <1>1, <1>2 DEF DataOf
  <2>2. \A d \in Entity \ {e} : DataOf(mem[d])' = DataOf(mem[d])
    BY <1>2 DEF DataOf
  <2>3. QED
    BY <2>1, <2>2 DEF membersOf
<1>4. boundOf' = boundOf /\ baseOf' = baseOf /\ recordsOf' = recordsOf
  BY <1>1, SameRecords DEF boundOf, baseOf
<1>5. QED
  BY <1>1, <1>3, <1>4, SameCodec DEF Promise!Assign

LEMMA ResetMaps ==
  ASSUME RefInv, NEW e \in Entity, Reset(e)
  PROVE  Promise!Restore(e)
<1>1. /\ e \in live /\ vals[e] # None
      /\ mem' = [mem EXCEPT ![e] = [f \in Field |-> Setter(f, vals[e][f])]]
      /\ UNCHANGED <<live, rowid, vals, rows, origin, nextTag>>
  BY DEF Reset
<1>2. baseOf[e] = DataOf(mem'[e])
  BY <1>1, RefTypes DEF baseOf, DataOf
<1>3. baseOf[e] # None
  <2>1. [f \in Field |-> Setter(f, vals[e][f])] \in [Field -> Member]
    BY <1>1, SetterTypes DEF RefInv, OwnInv, KeyInv, TypeInv, Members
  <2>2. baseOf[e] \in [Field \ KeyFields -> Member]
    BY <1>1, <2>1 DEF baseOf
  <2>3. QED
    BY <2>2, RefinementAssumption
<1>4. membersOf' = [membersOf EXCEPT ![e] = baseOf[e]]
  BY <1>1, <1>2, RefTypes DEF membersOf
<1>5. boundOf' = boundOf /\ baseOf' = baseOf /\ recordsOf' = recordsOf
  BY <1>1, SameRecords DEF boundOf, baseOf
<1>6. QED
  BY <1>1, <1>3, <1>4, <1>5 DEF Promise!Restore

(* A member that is read back from the value it was written as: only a      *)
(* point in time differs.                                                   *)
LEMMA RoundTrip ==
  ASSUME RefInv, NEW e \in Entity, NEW f \in Field
  PROVE  Setter(f, Getter(f, mem[e][f])) = KeptMember(f, mem[e][f])
<1>1. mem[e][f] \in Member /\ (mem[e][f] = Nullopt => Kind[f] = "opt")
  BY RefTypes DEF Members
<1>2. CASE Kind[f] = "opt"
  BY <1>1, <1>2, CodecAssumption DEF Setter, Getter, Member, KeptMember
<1>3. CASE Kind[f] = "narrow"
  <2>1. mem[e][f] \in 0 .. NarrowMod - 1
    BY <1>3 DEF RefInv, InRange
  <2>2. mem[e][f] % NarrowMod = mem[e][f]
    BY <2>1, CodecAssumption
  <2>3. Getter(f, mem[e][f]) = mem[e][f]
    BY <1>3 DEF Getter
  <2>4. QED
    BY <1>3, <2>2, <2>3 DEF Setter, KeptMember
<1>4. CASE Kind[f] \notin {"opt", "narrow"}
  BY <1>4 DEF Setter, Getter, KeptMember
<1>5. QED
  BY <1>2, <1>3, <1>4

(* What the snapshot keeps of an object's members when it is saved.         *)
LEMMA SnapshotRoundTrip ==
  ASSUME RefInv, NEW e \in Entity
  PROVE  [f \in Field \ KeyFields |-> Setter(f, Getter(f, mem[e][f]))]
           = Kept(membersOf[e])
BY RoundTrip DEF DataOf, membersOf, Kept

LEMMA InsertMaps ==
  ASSUME PkFields = {}, RefInv, NEW e \in Entity, InsertOk(e)
  PROVE  Promise!Insert(e)
<1>1. PICK r \in Rowid :
        /\ ~Refused(InsertCells(e, r), r, Occupied)
        /\ rows' = [rows EXCEPT ![r] = [cells |-> InsertCells(e, r),
                                        tag |-> nextTag + 1]]
        /\ rowid' = [rowid EXCEPT ![e] = r]
        /\ vals' = [vals EXCEPT ![e] = InsertVals(e, r)]
        /\ mem' = [mem EXCEPT ![e] = WithKey(mem[e], r)]
  BY DEF InsertOk
<1>2. /\ e \in live /\ rowid[e] < 0 /\ live' = live /\ nextTag' = nextTag + 1
      /\ origin' = [origin EXCEPT ![e] = nextTag + 1]
  BY DEF InsertOk
<1>3. InsertCells(e, r) \in Cells /\ InsertVals(e, r) \in Cells
  <2>1. InsertCells(e, r) \in [Field -> DbValue] /\ InsertVals(e, r) \in Cells
    BY RefTypes, InsertTypes, EntityAssumption
  <2>2. QED
    BY <1>1, <2>1, TakenCells
<1>4. /\ rowid'[e] = r /\ vals'[e] = InsertVals(e, r) /\ origin'[e] = nextTag + 1
      /\ mem'[e] = WithKey(mem[e], r)
      /\ \A d \in Entity \ {e} : /\ rowid'[d] = rowid[d] /\ vals'[d] = vals[d]
                                 /\ mem'[d] = mem[d] /\ origin'[d] = origin[d]
  BY <1>1, <1>2, RefTypes
<1>5. /\ rows'[r].cells = InsertCells(e, r) /\ rows'[r].tag = nextTag + 1
      /\ rows'[r] # None
      /\ \A q \in Rowid : q # r => rows'[q] = rows[q]
  <2>1. /\ rows'[r] = [cells |-> InsertCells(e, r), tag |-> nextTag + 1]
        /\ \A q \in Rowid : q # r => rows'[q] = rows[q]
    BY <1>1, RefTypes DEF Table
  <2>2. rows'[r] \in Row
    BY <1>3, <2>1, RefTypes DEF Row
  <2>3. QED
    BY <2>1, <2>2, NoneAssumption
<1>6. r >= 0
  <2>1. PositiveRows(rows)'
    BY SignEntity DEF RefInv, EntityStep, Save
  <2>2. QED
    BY <1>5, <2>1, EntityAssumption DEF PositiveRows
<1>7. boundOf[e] = 0 /\ boundOf' = [boundOf EXCEPT ![e] = nextTag + 1]
  <2>1. boundOf[e] = 0
    BY <1>2, RefTypes DEF boundOf
  <2>2. boundOf'[e] = nextTag + 1
    BY <1>4, <1>6 DEF boundOf
  <2>3. \A d \in Entity \ {e} : boundOf'[d] = boundOf[d]
    BY <1>4 DEF boundOf
  <2>4. QED
    BY <2>1, <2>2, <2>3 DEF boundOf
<1>8. baseOf' = [baseOf EXCEPT ![e] = Kept(membersOf[e])]
  <2>1. InsertVals(e, r) # None
    BY <1>3, NoneAssumption DEF Cells
  <2>2. [f \in Field \ KeyFields |-> Setter(f, vals'[e][f])]
          = Kept(membersOf[e])
    BY <1>4, SnapshotRoundTrip DEF InsertVals
  <2>3. baseOf'[e] = Kept(membersOf[e])
    BY <1>4, <2>1, <2>2 DEF baseOf
  <2>4. \A d \in Entity \ {e} : baseOf'[d] = baseOf[d]
    BY <1>4 DEF baseOf
  <2>5. QED
    BY <2>3, <2>4 DEF baseOf
<1>9. membersOf' = membersOf
  <2>1. DataOf(WithKey(mem[e], r)) = DataOf(mem[e])
    BY DEF DataOf, WithKey
  <2>2. QED
    BY <1>4, <2>1 DEF membersOf
<1>10. recordsOf' = recordsOf
         \cup {[id |-> nextTag + 1, content |-> Promise!Written(membersOf[e])]}
  <2>1. /\ Occupied' = Occupied \cup {r} /\ r \notin Occupied
        /\ \A q \in Occupied : q # r
    BY <1>1, <1>5 DEF Occupied, Refused, Conflict
  <2>2. \A q \in Occupied : rows'[q] = rows[q] /\ rows[q].tag # rows'[r].tag
    BY <1>5, <2>1, RefTypes DEF RefInv, Tags, Occupied
  <2>3. recordsOf' = {p \in recordsOf : p.id # rows'[r].tag}
          \cup {[id |-> rows'[r].tag, content |-> DataOf(rows'[r].cells)]}
    BY <2>1, <2>2, WriteRecord
  <2>4. {p \in recordsOf : p.id # rows'[r].tag} = recordsOf
    BY <2>2 DEF recordsOf, RecordAt
  <2>5. DataOf(rows'[r].cells) = Promise!Written(membersOf[e])
    BY <1>5, SameCodec DEF DataOf, InsertCells, membersOf
  <2>6. QED
    BY <1>5, <2>3, <2>4, <2>5
<1>11. QED
  BY <1>2, <1>7, <1>8, <1>9, <1>10, SameCodec DEF Promise!Insert

LEMMA UpdateMaps ==
  ASSUME Quiet, RefInv, NEW e \in Entity, UpdateOk(e)
  PROVE  Promise!Update(e)
<1>1. /\ e \in live /\ rowid[e] >= 0 /\ Stored(e) /\ rows' = UpdatedRows(e)
      /\ vals' = [vals EXCEPT ![e] = UpdateVals(e)]
      /\ UNCHANGED <<live, rowid, mem, origin, nextTag>>
  BY DEF UpdateOk, Stored
<1>2. rowid[e] \in Occupied /\ boundOf[e] = rows[rowid[e]].tag /\ boundOf[e] # 0
  BY <1>1, BoundRecord
<1>3. UpdateId(e) = rowid[e] /\ rowid[e] \in Rowid
  BY <1>1, <1>2, UpdateStays DEF Quiet, Exclusive, RefInv, OwnInv, Occupied
<1>4. /\ rows'[rowid[e]].cells = UpdateCells(e)
      /\ rows'[rowid[e]].tag = boundOf[e]
      /\ rows'[rowid[e]] # None
      /\ \A q \in Rowid : q # rowid[e] => rows'[q] = rows[q]
  <2>1. rows'[rowid[e]] = [cells |-> UpdateCells(e), tag |-> rows[rowid[e]].tag]
    BY <1>1, <1>2, <1>3 DEF UpdatedRows
  <2>2. rows'[rowid[e]] \in Row
    <3>1. UpdateCells(e) \in [Field -> DbValue] /\ ~UpdateRefused(e)
      BY RefTypes, UpdateTypes DEF UpdateOk
    <3>2. UpdateCells(e) \in Cells
      BY <1>2, <3>1, TakenCells DEF UpdateRefused
    <3>3. QED
      BY <1>2, <2>1, <3>2, RefTypes DEF Row, Table, Occupied
  <2>3. \A q \in Rowid : q # rowid[e] => rows'[q] = rows[q]
    BY <1>1, <1>2, <1>3 DEF UpdatedRows
  <2>4. QED
    BY <1>2, <2>1, <2>2, <2>3, NoneAssumption
<1>5. boundOf' = boundOf /\ membersOf' = membersOf
  BY <1>1 DEF boundOf, membersOf
<1>6. baseOf' = [baseOf EXCEPT ![e] = Kept(membersOf[e])]
  <2>1. UpdateVals(e) # None
    BY RefTypes, UpdateTypes, NoneAssumption DEF Cells
  <2>2. vals'[e] = UpdateVals(e) /\ \A d \in Entity \ {e} : vals'[d] = vals[d]
    BY <1>1, RefTypes
  <2>3. [f \in Field \ KeyFields |-> Setter(f, vals'[e][f])]
          = Kept(membersOf[e])
    BY <2>2, SnapshotRoundTrip DEF UpdateVals
  <2>4. baseOf'[e] = Kept(membersOf[e]) /\ \A d \in Entity \ {e} : baseOf'[d] = baseOf[d]
    BY <2>1, <2>2, <2>3 DEF baseOf
  <2>5. QED
    BY <2>4 DEF baseOf
<1>7. recordsOf' = {p \in recordsOf : p.id # boundOf[e]}
         \cup {[id |-> boundOf[e], content |-> Promise!Written(membersOf[e])]}
  <2>1. Occupied' = Occupied \cup {rowid[e]}
    BY <1>2, <1>3, <1>4 DEF Occupied
  <2>2. \A q \in Occupied : q # rowid[e] =>
          rows'[q] = rows[q] /\ rows[q].tag # rows'[rowid[e]].tag
    BY <1>2, <1>4 DEF RefInv, Tags, Occupied
  <2>3. recordsOf' = {p \in recordsOf : p.id # rows'[rowid[e]].tag}
          \cup {[id |-> rows'[rowid[e]].tag, content |-> DataOf(rows'[rowid[e]].cells)]}
    BY <1>2, <1>3, <1>4, <2>1, <2>2, WriteRecord
  <2>4. DataOf(rows'[rowid[e]].cells) = Promise!Written(membersOf[e])
    BY <1>4, SameCodec DEF DataOf, UpdateCells, membersOf
  <2>5. QED
    BY <1>4, <2>3, <2>4
<1>8. QED
  BY <1>1, <1>2, <1>5, <1>6, <1>7, SameCodec DEF Promise!Update, Promise!Others

LEMMA RemoveMaps ==
  ASSUME RefInv, NEW e \in Entity, RemoveOk(e)
  PROVE  Promise!Remove(e)
<1>1. /\ e \in live /\ rowid[e] >= 0
      /\ rows' = [rows EXCEPT ![rowid[e]] = None]
      /\ rowid' = [rowid EXCEPT ![e] = -1]
      /\ mem' = [mem EXCEPT ![e] = WithKey(mem[e], -1)]
      /\ UNCHANGED <<live, vals, origin, nextTag>>
  BY DEF RemoveOk, Stored
<1>2. rowid[e] \in Occupied /\ boundOf[e] = rows[rowid[e]].tag /\ boundOf[e] # 0
  BY <1>1, BoundRecord
<1>3. boundOf' = [boundOf EXCEPT ![e] = 0]
  <2>1. rowid'[e] = -1 /\ \A d \in Entity \ {e} : rowid'[d] = rowid[d]
    BY <1>1, RefTypes
  <2>2. boundOf'[e] = 0 /\ \A d \in Entity \ {e} : boundOf'[d] = boundOf[d]
    BY <1>1, <2>1 DEF boundOf
  <2>3. QED
    BY <2>2 DEF boundOf
<1>4. membersOf' = membersOf
  <2>1. DataOf(WithKey(mem[e], -1)) = DataOf(mem[e])
    BY DEF DataOf, WithKey
  <2>2. QED
    BY <1>1, <2>1, RefTypes DEF membersOf
<1>5. baseOf' = baseOf
  BY <1>1 DEF baseOf
<1>6. recordsOf' = {p \in recordsOf : p.id # boundOf[e]}
  <2>1. /\ Occupied' = Occupied \ {rowid[e]}
        /\ \A q \in Occupied \ {rowid[e]} : rows'[q] = rows[q]
    BY <1>1, <1>2, RefTypes DEF Occupied, Table
  <2>2. {rowid[e]} \in SUBSET Occupied
    BY <1>2
  <2>3. recordsOf' = recordsOf \ {RecordAt(r) : r \in {rowid[e]}}
    BY <2>1, <2>2, DeleteRecords DEF RefInv
  <2>4. \A q \in Occupied : RecordAt(q).id = boundOf[e] <=> q = rowid[e]
    BY <1>2 DEF RefInv, Tags, RecordAt
  <2>5. QED
    BY <1>2, <2>3, <2>4 DEF recordsOf
<1>7. QED
  BY <1>1, <1>2, <1>3, <1>4, <1>5, <1>6 DEF Promise!Remove, Promise!Others

LEMMA SelectMaps ==
  ASSUME Quiet, RefInv, NEW E \in SUBSET Entity, NEW h \in [E -> Rowid],
         Select(E, h)
  PROVE  \E g \in [E -> recordsOf] : Promise!Load(E, g)
<1>1. /\ E \cap live = {} /\ live' = live \cup E
      /\ \A e \in E : h[e] \in Occupied /\ ~Held(h[e])
      /\ \A d, e \in E : h[d] = h[e] => d = e
      /\ UNCHANGED <<rows, nextTag>>
  BY DEF Select, Quiet
<1>2. /\ \A e \in E : /\ rowid'[e] = h[e] /\ vals'[e] = LoadedVals(h[e])
                      /\ mem'[e] = LoadedMembers(h[e])
                      /\ origin'[e] = rows[h[e]].tag
      /\ \A e \in Entity \ E : /\ rowid'[e] = rowid[e] /\ vals'[e] = vals[e]
                               /\ mem'[e] = mem[e] /\ origin'[e] = origin[e]
  BY DEF Select
<1> DEFINE g == [e \in E |-> RecordAt(h[e])]
<1>3. g \in [E -> recordsOf]
  BY <1>1 DEF recordsOf
<1>4. \A e \in E : /\ g[e].id = rows[h[e]].tag
                   /\ g[e].content = DataOf(rows[h[e]].cells)
  BY DEF RecordAt
<1>5. \A e \in E : ~Promise!HasObject(g[e].id)
  BY <1>1, <1>4, UnheldRecord DEF Promise!HasObject
<1>6. \A d, e \in E : g[d].id = g[e].id => d = e
  BY <1>1, <1>4 DEF RefInv, Tags
<1>7. boundOf' = [e \in Entity |-> IF e \in E THEN g[e].id ELSE boundOf[e]]
  <2>1. ASSUME NEW e \in E PROVE boundOf'[e] = g[e].id
    <3>1. h[e] > 0
      BY <1>1 DEF RefInv, SignInv, PositiveRows, Occupied
    <3>2. h[e] \in Int
      BY EntityAssumption
    <3>3. h[e] >= 0
      BY <3>1, <3>2
    <3>4. QED
      BY <1>2, <1>4, <3>3 DEF boundOf
  <2>2. \A e \in Entity \ E : boundOf'[e] = boundOf[e]
    BY <1>2 DEF boundOf
  <2>3. QED
    BY <2>1, <2>2 DEF boundOf
<1>8. \A e \in E : /\ DataOf(mem'[e]) = Promise!ReadBack(g[e].content)
                   /\ [f \in Field \ KeyFields |-> Setter(f, vals'[e][f])]
                        = Promise!ReadBack(g[e].content)
  <2>1. SUFFICES ASSUME NEW e \in E
                 PROVE  /\ DataOf(LoadedMembers(h[e])) = Promise!ReadBack(g[e].content)
                        /\ [f \in Field \ KeyFields |-> Setter(f, LoadedVals(h[e])[f])]
                             = Promise!ReadBack(g[e].content)
    BY <1>2
  <2>2. Promise!ReadBack(g[e].content) = [f \in Field \ KeyFields |->
          Setter(f, ColumnRead(g[e].content[f]))]
    BY SameCodec
  <2>3. \A f \in Field \ KeyFields : g[e].content[f] = rows[h[e]].cells[f]
    BY <1>4 DEF DataOf
  <2>4. \A f \in Field : /\ LoadedVals(h[e])[f] = ColumnRead(rows[h[e]].cells[f])
                         /\ LoadedMembers(h[e])[f] = Setter(f, LoadedVals(h[e])[f])
    BY DEF LoadedVals, LoadedMembers
  <2>5. Promise!ReadBack(g[e].content) = [f \in Field \ KeyFields |->
          Setter(f, LoadedVals(h[e])[f])]
    BY <2>2, <2>3, <2>4
  <2>6. QED
    BY <2>4, <2>5 DEF DataOf
<1>9. membersOf' = [e \in Entity |->
         IF e \in E THEN Promise!ReadBack(g[e].content) ELSE membersOf[e]]
  BY <1>2, <1>8 DEF membersOf
<1>10. baseOf' = [e \in Entity |->
         IF e \in E THEN Promise!ReadBack(g[e].content) ELSE baseOf[e]]
  <2>1. \A e \in E : vals'[e] # None
    BY <1>1, <1>2, RefTypes, LoadTypes, NoneAssumption
       DEF RefInv, OwnInv, KeyInv, TypeInv, Cells
  <2>2. \A e \in E : baseOf'[e] = Promise!ReadBack(g[e].content)
    BY <1>8, <2>1 DEF baseOf
  <2>3. \A e \in Entity \ E : baseOf'[e] = baseOf[e]
    BY <1>2 DEF baseOf
  <2>4. QED
    BY <2>2, <2>3 DEF baseOf
<1>11. recordsOf' = recordsOf
  BY <1>1, SameRecords
<1>12. Promise!Load(E, g)
  BY <1>1, <1>5, <1>6, <1>7, <1>9, <1>10, <1>11 DEF Promise!Load
<1>13. QED
  BY <1>3, <1>12

LEMMA ClassRemoveMaps ==
  ASSUME Quiet, RefInv, NEW S \in SUBSET Rowid, ClassRemove(S)
  PROVE  \E P \in SUBSET recordsOf : Promise!RemoveRecords(P)
<1>1. /\ S \subseteq Occupied /\ \A r \in S : ~Held(r)
      /\ rows' = [r \in Rowid |-> IF r \in S THEN None ELSE rows[r]]
      /\ UNCHANGED <<objVars, nextTag>>
  BY DEF ClassRemove, Quiet
<1> DEFINE P == {RecordAt(r) : r \in S}
<1>2. P \in SUBSET recordsOf
  BY <1>1 DEF recordsOf
<1>3. \A p \in P : ~Promise!HasObject(p.id)
  BY <1>1, UnheldRecord DEF Promise!HasObject, RecordAt
<1>4. recordsOf' = recordsOf \ P
  <2>1. Occupied' = Occupied \ S /\ \A q \in Occupied \ S : rows'[q] = rows[q]
    BY <1>1 DEF Occupied
  <2>2. QED
    BY <1>1, <2>1, DeleteRecords DEF RefInv
<1>5. UNCHANGED Objects
  BY <1>1, SameObjects
<1>6. Promise!RemoveRecords(P)
  BY <1>3, <1>4, <1>5 DEF Promise!RemoveRecords, Objects
<1>7. QED
  BY <1>2, <1>6

LEMMA ExecUpdateMaps ==
  ASSUME Quiet, RefInv, NEW r \in Rowid, NEW f \in Field,
         NEW v \in Value \cup {Null}, ExecUpdate(r, f, v)
  PROVE  /\ f \in Promise!Data
         /\ \E p \in recordsOf : Promise!Rewrite(p, f, v)
<1>1. /\ r \in Occupied /\ ~Held(r) /\ f \in Field \ KeyFields
      /\ rows' = [rows EXCEPT ![r].cells[f] = v]
      /\ UNCHANGED <<objVars, nextTag>>
  BY DEF ExecUpdate, Quiet
<1>2. rows[r] \in Row /\ rows[r] # None /\ rows[r].cells \in [Field -> DbValue]
  BY <1>1, RefTypes DEF Occupied, Table, Row, Cells
<1>3. /\ rows'[r].tag = rows[r].tag
      /\ rows'[r].cells = [rows[r].cells EXCEPT ![f] = v]
      /\ \A q \in Rowid : q # r => rows'[q] = rows[q]
  BY <1>1, <1>2, RefTypes DEF Table, Row
<1>4. rows'[r] # None
  <2>1. rows'[r] = [rows[r] EXCEPT !.cells = [rows[r].cells EXCEPT ![f] = v]]
    BY <1>1, <1>2, RefTypes DEF Table
  <2>2. rows'[r] = [cells |-> [rows[r].cells EXCEPT ![f] = v], tag |-> rows[r].tag]
    BY <1>2, <2>1 DEF Row
  <2>3. v \in DbValue
    BY EntityAssumption DEF DbValue
  <2>4. [rows[r].cells EXCEPT ![f] = v] \in [Field -> DbValue]
    BY <1>2, <2>3
  <2>5. [rows[r].cells EXCEPT ![f] = v] \in Cells
    BY <2>4, TakenCells DEF ExecUpdate
  <2>6. rows'[r] \in Row
    BY <1>2, <2>2, <2>5 DEF Row
  <2>7. QED
    BY <2>6, NoneAssumption
<1> DEFINE p == RecordAt(r)
<1>5. p \in recordsOf
  BY <1>1 DEF recordsOf
<1>6. ~Promise!HasObject(p.id)
  BY <1>1, UnheldRecord DEF Promise!HasObject, RecordAt
<1>7. [p EXCEPT !.content[f] = v]
        = [id |-> rows'[r].tag, content |-> DataOf(rows'[r].cells)]
  <2>1. p = [id |-> rows[r].tag, content |-> DataOf(rows[r].cells)]
    BY DEF RecordAt
  <2>2. [p EXCEPT !.content[f] = v]
          = [id |-> rows[r].tag, content |-> [DataOf(rows[r].cells) EXCEPT ![f] = v]]
    BY <2>1
  <2>3. [DataOf(rows[r].cells) EXCEPT ![f] = v] = DataOf([rows[r].cells EXCEPT ![f] = v])
    BY <1>1, <1>2 DEF DataOf
  <2>4. QED
    BY <1>3, <2>2, <2>3
<1>8. recordsOf' = Promise!Others(p.id) \cup {[p EXCEPT !.content[f] = v]}
  <2>1. Occupied' = Occupied \cup {r}
    BY <1>1, <1>3, <1>4 DEF Occupied
  <2>2. \A q \in Occupied : q # r =>
          rows'[q] = rows[q] /\ rows[q].tag # rows'[r].tag
    BY <1>1, <1>3 DEF RefInv, Tags, Occupied
  <2>3. recordsOf' = {o \in recordsOf : o.id # rows'[r].tag}
          \cup {[id |-> rows'[r].tag, content |-> DataOf(rows'[r].cells)]}
    BY <1>3, <2>1, <2>2, WriteRecord
  <2>4. p.id = rows'[r].tag
    BY <1>3 DEF RecordAt
  <2>5. QED
    BY <1>7, <2>3, <2>4 DEF Promise!Others
<1>9. UNCHANGED Objects
  BY <1>1, SameObjects
<1>10. Promise!Rewrite(p, f, v)
  BY <1>6, <1>8, <1>9 DEF Promise!Rewrite, Objects
<1>11. QED
  BY <1>1, <1>5, <1>10, SameCodec

-----------------------------------------------------------------------------
(* All steps together.                                                      *)

LEMMA EntityMaps ==
  ASSUME Quiet, RefInv, NEW e \in Entity, EntityStep(e)
  PROVE  Promise!ObjectStep(e) \/ UNCHANGED Promise!vars
<1>1. OwnInv /\ PkFields = {}
  BY DEF RefInv, Quiet, Exclusive
<1>2. CASE Construct(e) \/ Destroy(e) \/ Reset(e)
  BY <1>2, ConstructMaps, DestroyMaps, ResetMaps DEF Promise!ObjectStep
<1>3. ASSUME NEW f \in Field, NEW x \in MemberValue(f), Assign(e, f, x)
      PROVE  Promise!ObjectStep(e)
  BY <1>3, AssignMaps DEF Promise!ObjectStep
<1>4. CASE InsertOk(e) \/ UpdateOk(e) \/ RemoveOk(e)
  BY <1>1, <1>4, InsertMaps, UpdateMaps, RemoveMaps DEF Promise!ObjectStep
<1>5. ~UpdateThrows(e)
  BY <1>1, NoUpdateThrows DEF UpdateThrows, Stored
<1>6. CASE InsertThrows(e) \/ RemoveThrows(e)
  BY <1>1, <1>6, StepThrowsOwn, Stutters DEF InsertThrows, RemoveThrows, StepThrows
<1>7. CASE UpdatePrepareThrows(e) \/ RemoveNothing(e)
  BY <1>7, Stutters DEF UpdatePrepareThrows, RemoveNothing
<1>8. QED
  BY <1>2, <1>3, <1>4, <1>5, <1>6, <1>7 DEF EntityStep, Save, Remove

LEMMA StatementMaps ==
  ASSUME Quiet, RefInv, StatementStep
  PROVE  Promise!StatementStep \/ UNCHANGED Promise!vars
<1>1. OwnInv
  BY DEF RefInv
<1>2. ASSUME NEW E \in SUBSET Entity, NEW h \in [E -> Rowid], Select(E, h)
      PROVE  Promise!StatementStep
  BY <1>2, SelectMaps DEF Promise!StatementStep
<1>3. ASSUME NEW S \in SUBSET Rowid, ClassRemove(S)
      PROVE  Promise!StatementStep
  BY <1>3, ClassRemoveMaps DEF Promise!StatementStep
<1>4. ASSUME NEW r \in Rowid, NEW f \in Field, NEW v \in Value \cup {Null},
             ExecUpdate(r, f, v)
      PROVE  Promise!StatementStep
  BY <1>4, ExecUpdateMaps DEF Promise!StatementStep
<1>5. CASE StatementThrows
  BY <1>1, <1>5, StepThrowsOwn, Stutters DEF StatementThrows, StepThrows
<1>6. ~(Begin \/ Commit \/ Rollback)
  BY <1>1 DEF Begin, Commit, Rollback, Quiet, OwnInv
<1>7. QED
  BY <1>2, <1>3, <1>4, <1>5, <1>6 DEF StatementStep

(* Entities implement the objects of EntityPromise, for every class without *)
(* an assignable key or a UNIQUE column and every number of objects, rows   *)
(* and values, whatever statements fail.                                    *)
THEOREM EntitiesKeepPromise ==
  ASSUME Quiet
  PROVE  Spec => KeepsPromise
<1>1. RefInv /\ [Next]_vars => [Promise!Next]_(Promise!vars)
  <2>1. SUFFICES ASSUME RefInv, [Next]_vars
                 PROVE  Promise!Next \/ UNCHANGED Promise!vars
    OBVIOUS
  <2>2. CASE UNCHANGED vars
    BY <2>2, Stutters DEF vars, objVars
  <2>3. CASE \E e \in Entity : EntityStep(e)
    BY <2>1, <2>3, EntityMaps DEF Promise!Next
  <2>4. CASE StatementStep
    BY <2>1, <2>4, StatementMaps DEF Promise!Next
  <2>5. QED
    BY <2>1, <2>2, <2>3, <2>4 DEF Next
<1>2. QED
  BY <1>1, InitMaps, RefInvInit, RefInvStep, PTL
     DEF Spec, KeepsPromise, Promise!Spec
=============================================================================
