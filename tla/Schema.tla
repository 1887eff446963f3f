------------------------------- MODULE Schema -------------------------------
(***************************************************************************)
(* From the attributes of a class to its table and the rows in it: the     *)
(* builder (orm.h) collects attributes in field_info and class_info,       *)
(* generate_create_table (orm.cpp) renders them, and entity::insert names  *)
(* the table and binds its columns.  SQLite decides what a PRIMARY KEY     *)
(* makes of a column, and which table an unqualified name is.              *)
(*                                                                         *)
(* Module Entity takes a class whose key column is an alias of _rowid_ for *)
(* granted; here is which classes have one, and what becomes of the others.*)
(* Values are numbers, the ones of a text column too.                      *)
(***************************************************************************)
EXTENDS Integers, Sequences, SequencesExt, FiniteSetsExt

CONSTANTS
  Entity,         \* new objects of the class
  Schemas,        \* bound: arguments of schema(), None without it
  MaxFields,      \* bound: fields of the class
  MaxAttributes,  \* bound: attributes of a field
  UniqueIds,      \* bound: arguments of unique_id()
  Null,           \* NULL, a parameter that is not bound
  None            \* no schema, no table, an entity without a row

DEFAULT == -1       \* field_info::UNIQUE_ID_DEFAULT
SINGLE_FIELD == -2  \* field_info::UNIQUE_ID_SINGLE_FIELD

(* const int64_t, int64_t, std::optional<int64_t>, std::string; a vector is *)
(* here a text that is never empty (see FieldCodec for one that is).        *)
Overloads == {"rowid", "plain", "opt", "text"}
Databases == {"main", "temp"}

ASSUME SchemaAssumption ==
  /\ Schemas \subseteq Databases \cup {None}
  /\ MaxFields \in Nat
  /\ MaxAttributes \in Nat
  /\ UniqueIds \subseteq Int
  /\ Null \notin Int
  /\ None \notin Databases \cup {"own", "other"}

(* What an entity knows of its row: its number and the values of its fields.*)
Knowledge == [rowid : Int, vals : Seq(Int \cup {Null})]

ASSUME KnowledgeAssumption == None \notin Knowledge

VARIABLES
  temporary, \* class_info::is_temporary
  schema,    \* class_info::schema
  fields,    \* class_info::fields
  tables,    \* whose table of the name class_info::table each database has
  rows,      \* the rows of the class's own table
  saved,     \* saved[e]: _rowid_ and m_db_vals of an entity, or None
  threw      \* whether the last call threw

vars == <<temporary, schema, fields, tables, rows, saved, threw>>

FieldInfo ==
  [overload : Overloads, nullable : BOOLEAN, primary_key : BOOLEAN,
   row_id : BOOLEAN, unique_id : UniqueIds \cup {0}]

FieldIds == 1 .. Len(fields)

TypeOK ==
  /\ temporary \in BOOLEAN
  /\ schema \in Schemas
  /\ fields \in Seq(FieldInfo) /\ Len(fields) <= MaxFields
  /\ tables \in [Databases -> {None, "own", "other"}]
  /\ \A row \in rows :
       /\ row.rowid \in Int
       /\ row.cells \in [FieldIds -> Int \cup {Null}]
  /\ \A e \in Entity : saved[e] # None =>
       /\ saved[e].rowid \in Int
       /\ saved[e].vals \in [FieldIds -> Int \cup {Null}] \cup {<<>>}
  /\ threw \in BOOLEAN

(* builder's constructor applies temporary() and schema().                  *)
Init ==
  /\ temporary \in BOOLEAN
  /\ schema \in Schemas
  /\ fields = <<>>
  /\ tables = [d \in Databases |-> None]
  /\ rows = {}
  /\ saved = [e \in Entity |-> None]
  /\ threw = FALSE

-----------------------------------------------------------------------------
(* builder::field                                                           *)

Attributes ==
  [name : {"primary_key", "row_id", "nullable"}, arg : BOOLEAN]
    \cup [name : {"unique_id"}, arg : UniqueIds]

(* row_id() is a primary_key(), too; of two attributes the last one counts. *)
Apply(f, a) ==
  CASE a.name = "primary_key" -> [f EXCEPT !.primary_key = a.arg]
    [] a.name = "row_id"      -> [f EXCEPT !.primary_key = a.arg, !.row_id = a.arg]
    [] a.name = "nullable"    -> [f EXCEPT !.nullable = a.arg]
    [] a.name = "unique_id"   -> [f EXCEPT !.unique_id = a.arg]

(* The overloads for std::optional are nullable before the attributes run.  *)
NewField(overload) ==
  [overload |-> overload, nullable |-> overload = "opt",
   primary_key |-> FALSE, row_id |-> FALSE, unique_id |-> 0]

Field(overload, attributes) ==
  /\ \A d \in Databases : tables[d] = None
  /\ Len(fields) < MaxFields
  /\ fields' = Append(fields, FoldLeft(Apply, NewField(overload), attributes))
  /\ threw' = FALSE
  /\ UNCHANGED <<temporary, schema, tables, rows, saved>>

-----------------------------------------------------------------------------
(* generate_create_table, executed by database::exec                        *)

(* A key that takes in the UNIQUE fields.                                   *)
PrimaryOrUnique ==
  {i \in FieldIds : fields[i].primary_key \/ fields[i].unique_id # 0}

PrimaryKey == {i \in FieldIds : fields[i].primary_key}

(* PRIMARY KEY(f) on one INTEGER column makes it an alias of _rowid_.       *)
RowidAlias ==
  {i \in FieldIds : PrimaryKey = {i} /\ fields[i].overload # "text"}

(* One map entry for each id that is positive; DEFAULT is left out.         *)
UniquePositive ==
  {{i \in FieldIds : fields[i].unique_id = k} : k \in UniqueIds \cap (Nat \ {0})}
    \cup {{i} : i \in {j \in FieldIds : fields[j].unique_id = SINGLE_FIELD}}

(* UNIQUE behind a column, and UNIQUE(...) for the fields with the same id. *)
UniqueConstraints ==
  {{j \in FieldIds : fields[j].unique_id = fields[i].unique_id} :
     i \in {j \in FieldIds : fields[j].unique_id > 0
                               \/ fields[j].unique_id = DEFAULT}}
    \cup {{i} : i \in {j \in FieldIds : fields[j].unique_id = SINGLE_FIELD}}

(* The database that CREATE TABLE creates the table in; a temporary table   *)
(* cannot be in another one.                                                *)
Home == IF temporary THEN "temp" ELSE IF schema = None THEN "main" ELSE schema

Create ==
  /\ fields # <<>>
  /\ temporary => schema \in {None, "temp"}
  /\ tables[Home] = None
  /\ tables' = [tables EXCEPT ![Home] = "own"]
  /\ threw' = FALSE
  /\ UNCHANGED <<temporary, schema, fields, rows, saved>>

CreateThrows ==
  /\ \/ fields = <<>>
     \/ temporary /\ schema = "main"
     \/ tables[Home] # None
  /\ threw' = TRUE
  /\ UNCHANGED <<temporary, schema, fields, tables, rows, saved>>

(* Another class of the same name gets its table in some database.          *)
CreateOther(d) ==
  /\ tables[d] = None
  /\ tables' = [tables EXCEPT ![d] = "other"]
  /\ threw' = FALSE
  /\ UNCHANGED <<temporary, schema, fields, rows, saved>>

-----------------------------------------------------------------------------
(* entity::insert by save() of an entity without a row                      *)

(* Statements that spell out the default database.                         *)
TargetMain == IF schema # None THEN None ELSE tables["main"]

(* The statements look for the table in temp and then in main.  With a      *)
(* schema they name `schema``table`, one identifier, which is no table.     *)
Target ==
  IF schema # None THEN None
  ELSE IF tables["temp"] # None THEN tables["temp"] ELSE tables["main"]

(* The member of field i; optional members are empty or have a value.       *)
MemberOf(i, empty) ==
  CASE fields[i].overload = "rowid" -> -1
    [] fields[i].overload = "opt"   -> IF empty THEN Null ELSE 1
    [] fields[i].overload \in {"plain", "text"} -> 1

(* An insert() that binds every field.                                      *)
BoundAll(i, empty) == MemberOf(i, empty)

(* row_id() fields are not bound.                                           *)
Bound(i, empty) == IF fields[i].row_id THEN Null ELSE MemberOf(i, empty)

NewRowid == IF rows = {} THEN 1 ELSE Max({row.rowid : row \in rows}) + 1

(* The number of the row: what is bound to the alias, if anything is.       *)
RowidOf(empty) ==
  LET given == {Bound(i, empty) : i \in RowidAlias} \ {Null}
  IN  IF given = {} THEN NewRowid ELSE CHOOSE r \in given : TRUE

NewRow(empty) ==
  [rowid |-> RowidOf(empty),
   cells |-> [i \in FieldIds |-> IF i \in RowidAlias THEN RowidOf(empty)
                                 ELSE Bound(i, empty)]]

(* Rows that agree on columns of which none is NULL.                        *)
Agree(row, other, columns) ==
  columns # {} /\ \A i \in columns :
    row.cells[i] # Null /\ row.cells[i] = other.cells[i]

(* NOT NULL, UNIQUE and PRIMARY KEY of the table reject the row.            *)
Rejected(row) ==
  \/ \E i \in FieldIds : ~fields[i].nullable /\ row.cells[i] = Null
  \/ \E other \in rows :
       \/ other.rowid = row.rowid
       \/ \E columns \in UniqueConstraints \cup {PrimaryKey} :
            Agree(row, other, columns)

(* A snapshot of the fields that are bound only.                            *)
InsertValsBound(empty) ==
  [i \in {j \in FieldIds : ~fields[j].row_id} |-> MemberOf(i, empty)]

(* m_db_vals after insert(): the row_id() fields are given the new _rowid_. *)
InsertVals(empty) ==
  [i \in FieldIds |-> IF fields[i].row_id THEN RowidOf(empty)
                      ELSE MemberOf(i, empty)]

(* The setter of a text field does not accept a rowid: std::get throws.     *)
SetterThrows == \E i \in FieldIds : fields[i].row_id /\ fields[i].overload = "text"

(* _rowid_ is taken over with m_db_vals, when the setters have run.         *)
LearnsLate(e, empty) ==
  /\ saved' = IF SetterThrows THEN saved
              ELSE [saved EXCEPT ![e] = [rowid |-> RowidOf(empty),
                                         vals |-> InsertVals(empty)]]
  /\ threw' = SetterThrows

(* After execute(): _rowid_ first, the setters, then m_db_vals.             *)
Learns(e, empty) ==
  /\ saved' = [saved EXCEPT ![e] = [rowid |-> RowidOf(empty),
                                    vals |-> IF SetterThrows THEN <<>>
                                             ELSE InsertVals(empty)]]
  /\ threw' = SetterThrows

(* save() inserts when _rowid_ is negative, and what it inserts may leave   *)
(* it so: the key of a const int64_t member that is no row_id() is bound.   *)
Unsaved(e) == saved[e] # None => saved[e].rowid < 0

InsertOk(e, empty) ==
  /\ Unsaved(e)
  /\ Target = "own"
  /\ ~Rejected(NewRow(empty))
  /\ rows' = rows \cup {NewRow(empty)}
  /\ Learns(e, empty)
  /\ UNCHANGED <<temporary, schema, fields, tables>>

InsertThrows(e, empty) ==
  /\ Unsaved(e)
  /\ \/ Target = None
     \/ Target = "own" /\ Rejected(NewRow(empty))
     \/ Target = "other"
  /\ threw' = TRUE
  /\ UNCHANGED <<temporary, schema, fields, tables, rows, saved>>

(* The row goes to the other class's table, which has such columns.         *)
InsertStrays(e, empty) ==
  /\ Unsaved(e)
  /\ Target = "other"
  /\ Learns(e, empty)
  /\ UNCHANGED <<temporary, schema, fields, tables, rows>>

Save(e) == \E empty \in BOOLEAN :
  InsertOk(e, empty) \/ InsertThrows(e, empty) \/ InsertStrays(e, empty)

-----------------------------------------------------------------------------
Next ==
  \/ \E o \in Overloads : \E as \in BoundedSeq(Attributes, MaxAttributes) :
       Field(o, as)
  \/ Create
  \/ CreateThrows
  \/ \E d \in Databases : CreateOther(d)
  \/ \E e \in Entity : Save(e)

Spec == Init /\ [][Next]_vars

-----------------------------------------------------------------------------
(* The _rowid_ that an entity records for a row_id() field is in its row,   *)
(* whatever the attributes are and their order: insert() binds nothing for  *)
(* the field, so its column is the alias of _rowid_ or, when another field  *)
(* has a part in the key, the NULL is rejected by NOT NULL.  Only a         *)
(* nullable() column can hold a NULL in its place.                          *)
SavedKeyIsInRow ==
  \A e \in Entity : saved[e] # None /\ Target = "own" =>
    \A row \in rows : row.rowid = saved[e].rowid =>
      \A i \in FieldIds :
        saved[e].vals # <<>> /\ fields[i].row_id /\ ~fields[i].nullable =>
          row.cells[i] = saved[e].vals[i]

(* A class that can have entities saved: no schema, a row_id() field is an  *)
(* integer and the only key, optional fields have stayed nullable.          *)
Storable ==
  /\ Target = "own"
  /\ \A i \in FieldIds :
       /\ fields[i].row_id =>
            /\ fields[i].overload # "text"
            /\ \A j \in FieldIds : fields[j].primary_key <=> j = i
       /\ fields[i].overload = "opt" => fields[i].nullable

(* The table of such a class takes the first entity.                        *)
FirstEntityIsSaved ==
  [][\A e \in Entity : Storable /\ rows = {} /\ Save(e) => ~threw']_vars

(* Every row in the table is the row of an object that will update it:      *)
(* also when the setter of a row_id() field threw after the row had gone    *)
(* in, or when save() goes on inserting because its key is negative.  So    *)
(* saving again what failed to be saved adds no second row.                 *)
RowsAreKnown ==
  \A row \in rows :
    \E e \in Entity : saved[e] # None /\ saved[e].rowid = row.rowid

(* Once a class has its table, an entity is saved in that table, unless     *)
(* another class's temporary table hides it from every statement.  (With a  *)
(* schema no statement finds the table.)                                    *)
SavedInOwnTable ==
  [][tables[Home] = "own" /\ tables["temp"] # "other" =>
       \A e \in Entity : saved[e] = None /\ saved'[e] # None =>
         \E row \in rows' \ rows : row.rowid = saved'[e].rowid]_vars

(* Rows differ as the unique_id() of their fields tell: each in the field   *)
(* itself for SINGLE_FIELD, and somewhere in the group of fields that have  *)
(* DEFAULT or the same positive id.  Other ids, 0 among them, demand        *)
(* nothing.                                                                 *)
RowsDifferAsDeclared ==
  \A row, other \in rows : row # other =>
    \A k \in UniqueIds :
      LET group == {i \in FieldIds : fields[i].unique_id = k}
      IN  /\ k = SINGLE_FIELD => \A i \in group : ~Agree(row, other, {i})
          /\ k = DEFAULT \/ k > 0 => ~Agree(row, other, group)
=============================================================================
