------------------------------- MODULE Entity -------------------------------
(***************************************************************************)
(* The life of orm::entity objects of one class over one connection        *)
(* (orm.cpp, orm_entity.h): construction, assignment to members, save()    *)
(* with its private insert() and update(), remove(), reset(), loading by   *)
(* select_one and select_multiple, the class-wide orm::remove, and SQL     *)
(* statements run by database::exec, transactions among them.              *)
(*                                                                         *)
(* One thread: a call runs to its return or its exception before the next. *)
(* SQLite itself is external: a statement is atomic, it either takes       *)
(* effect or throws and leaves the table as it was (or, inside a           *)
(* transaction, may roll the transaction back).                            *)
(***************************************************************************)
EXTENDS FieldCodec, FiniteSets

CONSTANTS
  Entity,  \* handles: the entity objects that can be alive together
  Rowid,   \* bound: the rowids a row may have
  Value,   \* bound: the integers assigned to members and written by SQL
  Unique,  \* fields with unique_id() = UNIQUE_ID_SINGLE_FIELD
  MaxTag,  \* bound: INSERTs in a behaviour
  Env,     \* what the program around the entities does, see Disturbances
  None     \* an absent row, an absent snapshot, no open transaction

Disturbances ==
  { "share",        \* a row is loaded while another entity holds it
    "sweep",        \* orm::remove and SQL write rows that an entity holds
    "txn",          \* BEGIN, COMMIT and ROLLBACK are executed
    "update_fault" }\* an UPDATE fails for a reason outside the table

ASSUME EntityAssumption ==
  /\ Rowid \subseteq Int
  /\ Value \subseteq Int
  /\ Unique \subseteq Field
  /\ MaxTag \in Nat
  /\ Env \subseteq Disturbances

Row == [cells : Cells, tag : Nat]
Table == [Rowid -> Row \cup {None}]

ASSUME NoneAssumption ==
  /\ None \notin [Field -> DbValue]
  /\ None \notin Row
  /\ None \notin Table

VARIABLES
  live,     \* the entity objects that exist
  rowid,    \* rowid[e]: entity::_rowid_
  vals,     \* vals[e]: entity::m_db_vals, None while it is the empty vector
  mem,      \* mem[e][f]: the data member of field f
  rows,     \* the table: rows[r] is the row with that rowid, or None
  txn,      \* the table at BEGIN, None in autocommit mode
  threw,    \* whether the last call threw
  origin,   \* history: the tag of the row that e was read from or became
  nextTag   \* history: tags given out, one for each INSERT

objVars == <<live, rowid, vals, mem, origin>>
vars == <<live, rowid, vals, mem, rows, txn, threw, origin, nextTag>>

TypeOK ==
  /\ live \subseteq Entity
  /\ rowid \in [Entity -> Rowid \cup {-1}]
  /\ vals \in [Entity -> [Field -> DbValue] \cup {None}]
  /\ mem \in [Entity -> Members]
  /\ rows \in Table
  /\ txn \in Table \cup {None}
  /\ threw \in BOOLEAN
  /\ origin \in [Entity -> Nat]
  /\ nextTag \in Nat

NewMembers == [f \in Field |-> InitialMember(f)]

Init ==
  /\ live = {}
  /\ rowid = [e \in Entity |-> -1]
  /\ vals = [e \in Entity |-> None]
  /\ mem = [e \in Entity |-> NewMembers]
  /\ rows = [r \in Rowid |-> None]
  /\ txn = None
  /\ threw = FALSE
  /\ origin = [e \in Entity |-> 0]
  /\ nextTag = 0

-----------------------------------------------------------------------------
(* The table, as the statements of the ORM see it.                          *)

Occupied == {r \in Rowid : rows[r] # None}
Held(r) == \E e \in live : rowid[e] = r
Stored(e) == e \in live /\ rowid[e] >= 0

(* A table without AUTOINCREMENT numbers a new row one above the largest    *)
(* rowid in use, so the number of a deleted last row is given out again.    *)
IsNewRowid(r) ==
  IF Occupied = {} THEN r = 1
  ELSE r - 1 \in Occupied /\ \A q \in Occupied : q < r

(* PRIMARY KEY and UNIQUE: does a row with this id clash with another one?  *)
Conflict(cells, id, others) ==
  \E q \in others :
    \/ q = id
    \/ \E f \in Unique : cells[f] # Null /\ rows[q].cells[f] = cells[f]

(* A constraint of the table, NOT NULL or one of these, refuses the row.    *)
Refused(cells, id, others) ==
  \/ \E f \in Field : cells[f] = Null /\ Kind[f] # "opt"
  \/ Conflict(cells, id, others)

(* The statement throws.  Some errors also end the transaction it ran in.   *)
StepThrows ==
  /\ threw' = TRUE
  /\ UNCHANGED nextTag
  /\ \/ UNCHANGED <<rows, txn>>
     \/ /\ txn # None
        /\ rows' = txn
        /\ txn' = None

-----------------------------------------------------------------------------
(* Objects of the user's entity class.                                      *)

Construct(e) ==
  /\ e \notin live
  /\ live' = live \cup {e}
  /\ threw' = FALSE
  /\ UNCHANGED <<rowid, vals, mem, rows, txn, origin, nextTag>>

Destroy(e) ==
  /\ e \in live
  /\ live' = live \ {e}
  /\ rowid' = [rowid EXCEPT ![e] = -1]
  /\ vals' = [vals EXCEPT ![e] = None]
  /\ mem' = [mem EXCEPT ![e] = NewMembers]
  /\ origin' = [origin EXCEPT ![e] = 0]
  /\ threw' = FALSE
  /\ UNCHANGED <<rows, txn, nextTag>>

MemberValue(f) ==
  IF Kind[f] = "opt" THEN Value \cup {Nullopt}
  ELSE IF Kind[f] = "narrow" THEN Value \cap 0 .. NarrowMod - 1 ELSE Value

(* The program assigns to a member; a row_id() member is const.             *)
Assign(e, f, x) ==
  /\ e \in live
  /\ f \notin KeyFields
  /\ mem[e][f] # x
  /\ mem' = [mem EXCEPT ![e][f] = x]
  /\ threw' = FALSE
  /\ UNCHANGED <<live, rowid, vals, rows, txn, origin, nextTag>>

(* A comparison that goes on after the first difference and forgets it.     *)
IsModifiedEverywhere(e) ==
  \/ vals[e] = None
  \/ \A f \in Field : Getter(f, mem[e][f]) # vals[e][f]

IsModified(e) ==
  \/ vals[e] = None
  \/ \E f \in Field : Getter(f, mem[e][f]) # vals[e][f]

(* entity::reset() runs the setters on m_db_vals, when there are any.       *)
Reset(e) ==
  /\ e \in live
  /\ vals[e] # None
  /\ mem' = [mem EXCEPT ![e] = [f \in Field |-> Setter(f, vals[e][f])]]
  /\ threw' = FALSE
  /\ UNCHANGED <<live, rowid, vals, rows, txn, origin, nextTag>>

-----------------------------------------------------------------------------
(* entity::save() on an entity without a row: entity::insert().             *)

(* An insert() that binds row_id() members, -1 in an entity without a row.  *)
IsInsertIdBound(e, r) ==
  IF KeyFields \cup PkFields = {} THEN IsNewRowid(r)
  ELSE \A f \in KeyFields \cup PkFields : r = Getter(f, mem[e][f])

(* INTEGER PRIMARY KEY: a bound value is the rowid, otherwise SQLite picks. *)
IsInsertId(e, r) ==
  IF PkFields = {} THEN IsNewRowid(r)
  ELSE \A f \in PkFields : r = Getter(f, mem[e][f])

(* What the row holds: row_id() columns are not bound and become the rowid. *)
InsertCells(e, r) ==
  [f \in Field |-> IF f \in KeyFields THEN r
                   ELSE BindDbVal(f, Getter(f, mem[e][f]))]

(* A snapshot whose row_id() fields are left at db_null_type.               *)
InsertValsNoKey(e, r) ==
  [f \in Field |-> IF f \in KeyFields THEN Null ELSE Getter(f, mem[e][f])]

(* What m_db_vals becomes: the values bound, and the rowid learnt.          *)
InsertVals(e, r) ==
  [f \in Field |-> IF f \in KeyFields THEN r ELSE Getter(f, mem[e][f])]

(* The setters of the row_id() fields are not run.                          *)
WithoutKey(m, r) == m

(* The setters of the row_id() fields run, on a new rowid or on -1.         *)
WithKey(m, r) ==
  [f \in Field |-> IF f \in KeyFields THEN Setter(f, r) ELSE m[f]]

InsertOk(e) ==
  /\ e \in live
  /\ rowid[e] < 0
  /\ nextTag < MaxTag
  /\ \E r \in Rowid :
       /\ IsInsertId(e, r)
       /\ ~Refused(InsertCells(e, r), r, Occupied)
       /\ rows' = [rows EXCEPT ![r] = [cells |-> InsertCells(e, r),
                                       tag |-> nextTag + 1]]
       /\ rowid' = [rowid EXCEPT ![e] = r]
       /\ vals' = [vals EXCEPT ![e] = InsertVals(e, r)]
       /\ mem' = [mem EXCEPT ![e] = WithKey(@, r)]
  /\ origin' = [origin EXCEPT ![e] = nextTag + 1]
  /\ nextTag' = nextTag + 1
  /\ threw' = FALSE
  /\ UNCHANGED <<live, txn>>

InsertThrows(e) ==
  /\ e \in live
  /\ rowid[e] < 0
  /\ StepThrows
  /\ UNCHANGED objVars

-----------------------------------------------------------------------------
(* entity::save() on an entity with a row: entity::update().                *)

(* An update() that binds the old snapshot.                                 *)
UpdateCellsStale(e) == [f \in Field |-> BindDbVal(f, vals[e][f])]

UpdateVals(e) == [f \in Field |-> Getter(f, mem[e][f])]
UpdateCells(e) == [f \in Field |-> BindDbVal(f, Getter(f, mem[e][f]))]

(* Every field is in the SET list, so writing the key field moves the row.  *)
UpdateId(e) ==
  IF KeyFields \cup PkFields = {} THEN rowid[e]
  ELSE UpdateCells(e)[CHOOSE f \in KeyFields \cup PkFields : TRUE]

UpdateRefused(e) ==
  /\ rowid[e] \in Occupied
  /\ Refused(UpdateCells(e), UpdateId(e), Occupied \ {rowid[e]})

(* An update() written as INSERT OR REPLACE.                                *)
UpsertedRows(e) ==
  [q \in Rowid |->
    IF q = UpdateId(e) THEN [cells |-> UpdateCells(e), tag |-> origin[e]]
    ELSE IF q = rowid[e] THEN None ELSE rows[q]]

(* The row after UPDATE ... WHERE _rowid_ = r, which matches a row or none. *)
UpdatedRows(e) ==
  IF rowid[e] \notin Occupied THEN rows
  ELSE [q \in Rowid |->
         IF q = UpdateId(e)
         THEN [cells |-> UpdateCells(e), tag |-> rows[rowid[e]].tag]
         ELSE IF q = rowid[e] THEN None ELSE rows[q]]

UpdateOk(e) ==
  /\ Stored(e)
  /\ UpdateId(e) \in Rowid
  /\ ~UpdateRefused(e)
  /\ vals' = [vals EXCEPT ![e] = UpdateVals(e)]
  /\ rows' = UpdatedRows(e)
  /\ threw' = FALSE
  /\ UNCHANGED <<live, rowid, mem, txn, origin, nextTag>>

(* m_db_vals is replaced before the statement is stepped.                   *)
UpdateThrows(e) ==
  /\ Stored(e)
  /\ UpdateRefused(e) \/ "update_fault" \in Env
  /\ vals' = [vals EXCEPT ![e] = UpdateVals(e)]
  /\ StepThrows
  /\ UNCHANGED <<live, rowid, mem, origin>>

(* Preparing the UPDATE throws: nothing has been changed yet.               *)
UpdatePrepareThrows(e) ==
  /\ Stored(e)
  /\ threw' = TRUE
  /\ UNCHANGED <<objVars, rows, txn, nextTag>>

Save(e) ==
  \/ InsertOk(e)
  \/ InsertThrows(e)
  \/ UpdateOk(e)
  \/ UpdateThrows(e)
  \/ UpdatePrepareThrows(e)

-----------------------------------------------------------------------------
(* entity::remove().                                                        *)

(* The entity has no row, as far as it knows: an early return.              *)
RemoveNothing(e) ==
  /\ e \in live
  /\ rowid[e] < 0
  /\ threw' = FALSE
  /\ UNCHANGED <<objVars, rows, txn, nextTag>>

(* A remove() that leaves _rowid_ as it was.                                *)
RemoveKeepsRowid(e) ==
  /\ Stored(e)
  /\ rows' = [rows EXCEPT ![rowid[e]] = None]
  /\ threw' = FALSE
  /\ UNCHANGED <<objVars, txn, nextTag>>

(* A remove() that drops m_db_vals, too.                                    *)
RemoveForgetsVals(e) ==
  /\ Stored(e)
  /\ rows' = [rows EXCEPT ![rowid[e]] = None]
  /\ rowid' = [rowid EXCEPT ![e] = -1]
  /\ mem' = [mem EXCEPT ![e] = WithKey(@, -1)]
  /\ vals' = [vals EXCEPT ![e] = None]
  /\ threw' = FALSE
  /\ UNCHANGED <<live, txn, origin, nextTag>>

RemoveOk(e) ==
  /\ Stored(e)
  /\ rows' = [rows EXCEPT ![rowid[e]] = None]
  /\ rowid' = [rowid EXCEPT ![e] = -1]
  /\ mem' = [mem EXCEPT ![e] = WithKey(@, -1)]
  /\ threw' = FALSE
  /\ UNCHANGED <<live, vals, txn, origin, nextTag>>

RemoveThrows(e) ==
  /\ Stored(e)
  /\ StepThrows
  /\ UNCHANGED objVars

Remove(e) == RemoveNothing(e) \/ RemoveOk(e) \/ RemoveThrows(e)

-----------------------------------------------------------------------------
(* select_one, select_multiple: create an entity and from_result each row.  *)

LoadedVals(r) == [f \in Field |-> ColumnRead(rows[r].cells[f])]
LoadedMembers(r) == [f \in Field |-> Setter(f, LoadedVals(r)[f])]

(* The entities of E are created, h[e] is the row that e is read from.      *)
Select(E, h) ==
  /\ E # {}
  /\ E \cap live = {}
  /\ \A e \in E : h[e] \in Occupied
  /\ \A d, e \in E : h[d] = h[e] => d = e
  /\ "share" \in Env \/ \A e \in E : ~Held(h[e])
  /\ live' = live \cup E
  /\ rowid' = [e \in Entity |-> IF e \in E THEN h[e] ELSE rowid[e]]
  /\ vals' = [e \in Entity |-> IF e \in E THEN LoadedVals(h[e]) ELSE vals[e]]
  /\ mem' = [e \in Entity |-> IF e \in E THEN LoadedMembers(h[e]) ELSE mem[e]]
  /\ origin' = [e \in Entity |-> IF e \in E THEN rows[h[e]].tag ELSE origin[e]]
  /\ threw' = FALSE
  /\ UNCHANGED <<rows, txn, nextTag>>

-----------------------------------------------------------------------------
(* Statements that do not go through an entity.                             *)

(* orm::remove(db, info, where): S is the set of rows the condition selects.*)
ClassRemove(S) ==
  /\ S # {}
  /\ S \subseteq Occupied
  /\ "sweep" \in Env \/ \A r \in S : ~Held(r)
  /\ rows' = [r \in Rowid |-> IF r \in S THEN None ELSE rows[r]]
  /\ threw' = FALSE
  /\ UNCHANGED <<objVars, txn, nextTag>>

(* database::exec of an UPDATE that sets one column of one row.             *)
ExecUpdate(r, f, v) ==
  /\ r \in Occupied
  /\ "sweep" \in Env \/ ~Held(r)
  /\ f \notin KeyFields \cup PkFields
  /\ rows[r].cells[f] # v
  /\ ~Refused([rows[r].cells EXCEPT ![f] = v], r, Occupied \ {r})
  /\ rows' = [rows EXCEPT ![r].cells[f] = v]
  /\ threw' = FALSE
  /\ UNCHANGED <<objVars, txn, nextTag>>

(* orm::remove, orm::count, a select or database::exec throws.              *)
StatementThrows == StepThrows /\ UNCHANGED objVars

Begin ==
  /\ "txn" \in Env
  /\ txn = None
  /\ txn' = rows
  /\ threw' = FALSE
  /\ UNCHANGED <<objVars, rows, nextTag>>

Commit ==
  /\ txn # None
  /\ txn' = None
  /\ threw' = FALSE
  /\ UNCHANGED <<objVars, rows, nextTag>>

Rollback ==
  /\ txn # None
  /\ rows' = txn
  /\ txn' = None
  /\ threw' = FALSE
  /\ UNCHANGED <<objVars, nextTag>>

-----------------------------------------------------------------------------
EntityStep(e) ==
  \/ Construct(e)
  \/ Destroy(e)
  \/ \E f \in Field : \E x \in MemberValue(f) : Assign(e, f, x)
  \/ Reset(e)
  \/ Save(e)
  \/ Remove(e)

StatementStep ==
  \/ \E E \in SUBSET Entity : \E h \in [E -> Rowid] : Select(E, h)
  \/ \E S \in SUBSET Rowid : ClassRemove(S)
  \/ \E r \in Rowid : \E f \in Field : \E v \in Value \cup {Null} :
       ExecUpdate(r, f, v)
  \/ StatementThrows
  \/ Begin
  \/ Commit
  \/ Rollback

Next == (\E e \in Entity : EntityStep(e)) \/ StatementStep

Spec == Init /\ [][Next]_vars

-----------------------------------------------------------------------------
(* Properties that hold whatever the program around the entities does.      *)

(* The member of a row_id() field, its snapshot and _rowid_ are one number  *)
(* as long as the entity is stored.  update() relies on it: it writes that  *)
(* member into the column that _rowid_ is an alias of, so a disagreement    *)
(* would move the row away from its entity.                                 *)
KeyFieldAgrees ==
  \A e \in live : Stored(e) =>
    \A f \in KeyFields :
      /\ mem[e][f] = rowid[e]
      /\ vals[e] # None /\ vals[e][f] = rowid[e]

(* "If it was read from a table it will contain a positive number, if it is *)
(* a new object or was removed from the table it will be negative": save()  *)
(* and remove() decide by the sign.  The rows of a class whose key is not   *)
(* assigned by the program all have positive numbers, and every _rowid_ is  *)
(* such a number or -1.                                                     *)
SignTellsStored ==
  PkFields = {} =>
    /\ \A r \in Occupied : r > 0
    /\ \A e \in live : rowid[e] > 0 \/ rowid[e] = -1

(* reset() passes m_db_vals to the setters, and only the setter of an       *)
(* optional field accepts db_null_type (the others std::get and throw): no  *)
(* sequence of calls leaves a NULL in the snapshot of another field.        *)
ResetNeverThrows ==
  \A e \in Entity : vals[e] # None =>
    \A f \in Field : vals[e][f] = Null => Kind[f] = "opt"

(* A save() or remove() that returns wrote no row but its own: insert()     *)
(* takes a number no row had, update() and remove() keep to row _rowid_ and *)
(* never bring a deleted row back.                                          *)
WritesOwnRowOnly ==
  [][\A e \in live : ~threw' /\ (Save(e) \/ Remove(e)) =>
       {r \in Rowid : rows'[r] # rows[r]} \subseteq
         IF Stored(e) THEN {rowid[e]} \cap Occupied ELSE Rowid \ Occupied]_vars

(* v is the value of the cell, or what a typed read makes of it.            *)
ReadsAs(cell, v) == v \in {cell, ColumnRead(cell)}

(* What is_modified() compares with and reset() brings back is what the     *)
(* entity's row holds.                                                      *)
Snapshot(e) ==
  /\ vals[e] # None
  /\ rows[rowid[e]] # None
  /\ \A f \in Field : ReadsAs(rows[rowid[e]].cells[f], vals[e][f])

(* update() replaces m_db_vals before it executes, so a save() that throws  *)
(* may leave the entity with a snapshot its row never held.  Besides that,  *)
(* the snapshot of a stored entity departs from its row only by a write to  *)
(* the row that is not the entity's save(), and the first save() that       *)
(* returns and finds the row brings them together again.                    *)
SnapshotFollowsRow ==
  [][\A e \in live' : Stored(e)' /\ ~Snapshot(e)' =>
       \/ UpdateThrows(e)
       \/ ~Save(e) /\ rows'[rowid'[e]] # rows[rowid'[e]]
       \/ /\ Stored(e) /\ ~Snapshot(e)
          /\ ~(Save(e) /\ ~threw' /\ rowid[e] \in Occupied)]_vars

-----------------------------------------------------------------------------
(* Properties of a program that gives each row one entity at a time.        *)

(* "This value also allows checking if the entity is stored": the row of a  *)
(* stored entity exists, and is the row it was read from or inserted as     *)
(* rather than a later one that was given the same number.                  *)
StoredRowIsOwn ==
  \A e \in live : Stored(e) =>
    /\ rows[rowid[e]] # None
    /\ rows[rowid[e]].tag = origin[e]

(* Two entities are never bound to one row, however rowids are reused.      *)
NoAliasing ==
  \A d, e \in live : Stored(d) /\ rowid[d] = rowid[e] => d = e

(* A stored entity that is_modified() calls unchanged holds what its row    *)
(* holds: no assignment is lost by being taken for a persisted value.       *)
CleanMeansPersisted ==
  \A e \in live : Stored(e) /\ ~IsModified(e) =>
    /\ rows[rowid[e]] # None
    /\ \A f \in Field :
         ReadsAs(rows[rowid[e]].cells[f], Getter(f, mem[e][f]))

(* Saving a stored entity that is_modified() calls unchanged, however it    *)
(* came to be so, leaves the table as it is.                                *)
SaveUnmodifiedIsNoop ==
  [][\A e \in live : Stored(e) /\ ~IsModified(e) /\ Save(e) /\ ~threw' =>
       UNCHANGED rows]_vars

-----------------------------------------------------------------------------
(* What the documentation says and the code does not do.                    *)

(* A value read from a row by an entity is the value in the row.            *)
LoadReflectsRow ==
  [][\A e \in live' \ live : origin'[e] # 0 =>
       \A f \in Field :
         Getter(f, mem'[e][f]) = rows'[rowid'[e]].cells[f]]_vars
=============================================================================
