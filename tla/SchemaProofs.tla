---------------------------- MODULE SchemaProofs ----------------------------
(***************************************************************************)
(* Theorems about Schema, for classes of any number of fields with any     *)
(* attributes, and any number of entities.                                 *)
(***************************************************************************)
EXTENDS Schema, FiniteSetTheorems, WellFoundedInduction, TLAPS

LEMMA SequenceParts ==
  ASSUME NEW T, NEW at \in Seq(T)
  PROVE  /\ Len(at) \in Nat
         /\ DOMAIN at = 1 .. Len(at)
         /\ \A x \in 1 .. Len(at) : at[x] \in T
<1>1. DOMAIN at = 1 .. Len(at)
  OBVIOUS
<1>2. Len(at) \in Nat
  OBVIOUS
<1>3. \A x \in 1 .. Len(at) : at[x] \in T
  OBVIOUS
<1> QED BY <1>1, <1>2, <1>3, Zenon

USE SchemaAssumption

-----------------------------------------------------------------------------
(* Tables                                                                   *)

(* A row is inserted, and an entity saved, when there is a table for it.    *)
TablesInv ==
  /\ tables \in [Databases -> {None, "own", "other"}]
  /\ (\A d \in Databases : tables[d] = None)
       => rows = {} /\ \A e \in Entity : saved[e] = None

LEMMA HomeIsDatabase ==
  schema \in Schemas => Home \in Databases
BY DEF Home, Databases

LEMMA TargetIsTable ==
  ASSUME TablesInv, Target # None
  PROVE  \E d \in Databases : tables[d] # None
BY DEF TablesInv, Target, Databases

SchemaInv ==
  /\ schema \in Schemas
  /\ saved = [e \in Entity |-> saved[e]]
  /\ TablesInv

LEMMA SchemaInit == Init => SchemaInv
BY DEF Init, SchemaInv, TablesInv

LEMMA SchemaNext == SchemaInv /\ [Next]_vars => SchemaInv'
<1> SUFFICES ASSUME SchemaInv, [Next]_vars PROVE SchemaInv'
  OBVIOUS
<1>1. CASE UNCHANGED vars
  BY <1>1 DEF SchemaInv, TablesInv, vars
<1>2. ASSUME NEW o \in Overloads,
             NEW as \in BoundedSeq(Attributes, MaxAttributes), Field(o, as)
      PROVE  SchemaInv'
  BY <1>2 DEF Field, SchemaInv, TablesInv
<1>3. CASE Create
  <2>1. Home \in Databases
    BY HomeIsDatabase DEF SchemaInv
  <2>2. tables' = [tables EXCEPT ![Home] = "own"] /\ UNCHANGED <<schema, saved>>
    BY <1>3 DEF Create
  <2>3. tables' \in [Databases -> {None, "own", "other"}]
    BY <2>1, <2>2 DEF SchemaInv, TablesInv
  <2>4. tables'[Home] = "own"
    BY <2>1, <2>2 DEF SchemaInv, TablesInv
  <2>5. None # "own"
    BY <1>3, <2>1 DEF Create, SchemaInv, TablesInv
  <2> QED
    BY <2>1, <2>2, <2>3, <2>4, <2>5 DEF SchemaInv, TablesInv
<1>4. CASE CreateThrows
  BY <1>4 DEF CreateThrows, SchemaInv, TablesInv
<1>5. ASSUME NEW d \in Databases, CreateOther(d) PROVE SchemaInv'
  BY <1>5 DEF CreateOther, SchemaInv, TablesInv
<1>6. ASSUME NEW e \in Entity, Save(e) PROVE SchemaInv'
  <2>1. UNCHANGED <<schema, tables>>
    BY <1>6 DEF Save, InsertOk, InsertThrows, InsertStrays
  <2>0. saved' = [d \in Entity |-> saved'[d]]
    BY <1>6 DEF Save, InsertOk, InsertThrows, InsertStrays, Learns, SchemaInv
  <2>2. CASE UNCHANGED <<rows, saved>>
    BY <2>1, <2>2 DEF SchemaInv, TablesInv
  <2>3. CASE ~UNCHANGED <<rows, saved>>
    <3>1. Target # None
      BY <1>6, <2>3 DEF Save, InsertOk, InsertThrows, InsertStrays
    <3> QED
      BY <2>0, <2>1, <3>1, TargetIsTable DEF SchemaInv, TablesInv
  <2> QED
    BY <2>2, <2>3
<1> QED
  BY <1>1, <1>2, <1>3, <1>4, <1>5, <1>6 DEF Next

-----------------------------------------------------------------------------
(* One step of save()                                                       *)

(* A call of save() that gives an entity its row.                           *)
LEMMA SaveCases ==
  ASSUME NEW e \in Entity, Save(e)
  PROVE  \/ UNCHANGED <<temporary, schema, fields, tables, rows, saved>> /\ threw'
         \/ \E empty \in BOOLEAN : InsertOk(e, empty)
         \/ \E empty \in BOOLEAN : InsertStrays(e, empty)
BY DEF Save, InsertThrows

(* Its number is not in the table before.                                   *)
LEMMA InsertedIsNew ==
  ASSUME NEW e \in Entity, NEW empty \in BOOLEAN, InsertOk(e, empty)
  PROVE  /\ NewRow(empty).rowid = RowidOf(empty)
         /\ \A row \in rows : row.rowid # RowidOf(empty)
         /\ NewRow(empty) \in rows' \ rows
BY DEF InsertOk, Rejected, NewRow

LEMMA TargetOfOwn ==
  ASSUME SchemaInv, tables[Home] = "own", tables["temp"] # "other"
  PROVE  Target \in {"own", None}
<1>1. None # "own"
  BY DEF SchemaInv, TablesInv
<1>2. Home = "main" \/ Home = "temp"
  BY HomeIsDatabase DEF SchemaInv, Databases
<1>3. tables["temp"] \in {None, "own"}
  BY DEF SchemaInv, TablesInv, Databases
<1>4. CASE schema = None
  <2>1. Home = "main" \/ (Home = "temp" /\ tables["temp"] = "own")
    BY <1>2
  <2> QED
    BY <1>1, <1>3, <1>4, <2>1 DEF Target
<1> QED
  BY <1>4 DEF Target

(* Once a class has its table, its entities are saved nowhere else, unless  *)
(* another class's temporary table hides it: whatever attributes there are. *)
THEOREM SavesReachOwnTable == Spec => SavedInOwnTable
<1>1. ASSUME SchemaInv, [Next]_vars
      PROVE  [tables[Home] = "own" /\ tables["temp"] # "other" =>
                \A e \in Entity : saved[e] = None /\ saved'[e] # None =>
                  \E row \in rows' \ rows : row.rowid = saved'[e].rowid]_vars
  <2> SUFFICES ASSUME Next, tables[Home] = "own", tables["temp"] # "other",
                      NEW e \in Entity, saved[e] = None, saved'[e] # None
               PROVE  \E row \in rows' \ rows : row.rowid = saved'[e].rowid
    BY <1>1
  <2>1. PICK d \in Entity : Save(d)
    BY DEF Next, Field, Create, CreateThrows, CreateOther
  <2>2. Target # "other"
    BY <1>1, TargetOfOwn DEF SchemaInv, TablesInv
  <2>3. PICK empty \in BOOLEAN : InsertOk(d, empty)
    BY <2>1, <2>2, SaveCases DEF InsertStrays
  <2>4. d = e /\ saved'[e].rowid = RowidOf(empty)
    BY <1>1, <2>3 DEF InsertOk, Learns, SchemaInv
  <2> QED
    BY <2>3, <2>4, InsertedIsNew
<1> QED
  BY <1>1, SchemaInit, SchemaNext, PTL DEF Spec, SavedInOwnTable

-----------------------------------------------------------------------------
(* Rows                                                                     *)

(* A step that changes no row, or adds one that the constraints accept.     *)
LEMMA RowSteps ==
  ASSUME SchemaInv, [Next]_vars
  PROVE  \/ rows = {} /\ rows' = {}
         \/ UNCHANGED <<fields, rows>>
         \/ \E empty \in BOOLEAN :
              /\ UNCHANGED fields
              /\ rows' = rows \cup {NewRow(empty)}
              /\ ~Rejected(NewRow(empty))
<1>1. CASE UNCHANGED vars
  BY <1>1 DEF vars
<1>2. CASE \E o \in Overloads : \E as \in BoundedSeq(Attributes, MaxAttributes) :
             Field(o, as)
  BY <1>2 DEF Field, SchemaInv, TablesInv
<1>3. CASE \E e \in Entity : Save(e)
  BY <1>3, SaveCases DEF InsertOk, InsertStrays
<1> QED
  BY <1>1, <1>2, <1>3 DEF Next, Create, CreateThrows, CreateOther

Differ(row, other) ==
  \A columns \in UniqueConstraints : ~Agree(row, other, columns)

RowsInv == \A row, other \in rows : row # other => Differ(row, other)

LEMMA RowsNext == SchemaInv /\ RowsInv /\ [Next]_vars => RowsInv'
<1> SUFFICES ASSUME SchemaInv, RowsInv, [Next]_vars PROVE RowsInv'
  OBVIOUS
<1>1. CASE rows' = {}
  BY <1>1 DEF RowsInv
<1>2. ASSUME UNCHANGED fields, NEW row, NEW other
      PROVE  Differ(row, other)' <=> Differ(row, other)
  BY <1>2 DEF Differ, UniqueConstraints, FieldIds, Agree
<1>3. CASE UNCHANGED <<fields, rows>>
  BY <1>2, <1>3 DEF RowsInv
<1>4. ASSUME NEW empty \in BOOLEAN, UNCHANGED fields,
             rows' = rows \cup {NewRow(empty)}, ~Rejected(NewRow(empty))
      PROVE  RowsInv'
  <2>1. \A row, other, columns :
          Agree(row, other, columns) => Agree(other, row, columns)
    BY DEF Agree
  <2>2. \A other \in rows : /\ Differ(NewRow(empty), other)
                            /\ Differ(other, NewRow(empty))
    BY <1>4, <2>1 DEF Rejected, Differ
  <2>3. \A row, other \in rows' : row # other => Differ(row, other)
    BY <1>4, <2>2 DEF RowsInv
  <2> QED
    BY <1>2, <1>4, <2>3 DEF RowsInv
<1> QED
  BY <1>1, <1>3, <1>4, RowSteps

(* Rows differ as the unique_id() arguments tell, in a class with any       *)
(* number of unique fields and groups, and any rows.                        *)
THEOREM RowsDiffer == Spec => []RowsDifferAsDeclared
<1>1. RowsInv => RowsDifferAsDeclared
  <2> SUFFICES ASSUME RowsInv, NEW row \in rows, NEW other \in rows, row # other,
                      NEW k \in UniqueIds
               PROVE  LET group == {i \in FieldIds : fields[i].unique_id = k}
                      IN  /\ k = SINGLE_FIELD
                               => \A i \in group : ~Agree(row, other, {i})
                          /\ k = DEFAULT \/ k > 0 => ~Agree(row, other, group)
    BY DEF RowsDifferAsDeclared
  <2> DEFINE group == {i \in FieldIds : fields[i].unique_id = k}
  <2>1. Differ(row, other)
    BY DEF RowsInv
  <2>2. ASSUME k = SINGLE_FIELD, NEW i \in group PROVE ~Agree(row, other, {i})
    <3>1. {i} \in UniqueConstraints
      BY <2>2 DEF UniqueConstraints
    <3> QED
      BY <2>1, <3>1 DEF Differ
  <2>3. ASSUME k = DEFAULT \/ k > 0 PROVE ~Agree(row, other, group)
    <3>1. CASE group = {}
      BY <3>1 DEF Agree
    <3>2. CASE group # {}
      <4>1. PICK i \in FieldIds : fields[i].unique_id = k
        BY <3>2
      <4>2. i \in {j \in FieldIds : fields[j].unique_id > 0
                                      \/ fields[j].unique_id = DEFAULT}
        BY <2>3, <4>1
      <4>3. group = {j \in FieldIds : fields[j].unique_id = fields[i].unique_id}
        BY <4>1
      <4>4. group \in UniqueConstraints
        BY <4>2, <4>3 DEF UniqueConstraints
      <4> QED
        BY <2>1, <4>4 DEF Differ
    <3> QED
      BY <3>1, <3>2
  <2> QED
    BY <2>2, <2>3
<1>2. Init => RowsInv
  BY DEF Init, RowsInv
<1> QED
  BY <1>1, <1>2, RowsNext, SchemaInit, SchemaNext, PTL DEF Spec

-----------------------------------------------------------------------------
(* row_id() fields                                                          *)

(* The column of a row_id() field has the number of its row, and so has     *)
(* what the entity remembers of the field.                                  *)
KeyInv ==
  /\ \A row \in rows : \A i \in FieldIds :
       fields[i].row_id /\ ~fields[i].nullable => row.cells[i] = row.rowid
  /\ \A e \in Entity : saved[e] # None /\ saved[e].vals # <<>> =>
       \A i \in FieldIds : fields[i].row_id => saved[e].vals[i] = saved[e].rowid

LEMMA NewRowKeyed ==
  ASSUME NEW empty \in BOOLEAN, ~Rejected(NewRow(empty)),
         NEW i \in FieldIds, fields[i].row_id, ~fields[i].nullable
  PROVE  NewRow(empty).cells[i] = NewRow(empty).rowid
<1>1. NewRow(empty).cells[i] # Null
  BY DEF Rejected
<1>2. NewRow(empty).cells[i] = IF i \in RowidAlias THEN RowidOf(empty)
                               ELSE Bound(i, empty)
  BY DEF NewRow
<1>3. Bound(i, empty) = Null
  BY DEF Bound
<1> QED
  BY <1>1, <1>2, <1>3 DEF NewRow

LEMMA LearnsKeyed ==
  ASSUME NEW e \in Entity, NEW empty \in BOOLEAN, Learns(e, empty),
         saved = [d \in Entity |-> saved[d]]
  PROVE  /\ \A d \in Entity : d # e => saved'[d] = saved[d]
         /\ saved'[e].vals # <<>> => \A i \in FieldIds :
              fields[i].row_id => saved'[e].vals[i] = saved'[e].rowid
<1> DEFINE x == [rowid |-> RowidOf(empty),
                 vals |-> IF SetterThrows THEN <<>> ELSE InsertVals(empty)]
<1>1. saved' = [saved EXCEPT ![e] = x]
  BY DEF Learns
<1>2. saved'[e] = x /\ \A d \in Entity : d # e => saved'[d] = saved[d]
  BY <1>1
<1>3. ASSUME x.vals # <<>>, NEW i \in FieldIds, fields[i].row_id
      PROVE  x.vals[i] = x.rowid
  <2>1. x.vals = InsertVals(empty) /\ x.rowid = RowidOf(empty)
    BY <1>3
  <2> QED
    BY <1>3, <2>1 DEF InsertVals
<1> HIDE DEF x
<1> QED
  BY <1>2, <1>3

LEMMA KeyNext == SchemaInv /\ KeyInv /\ [Next]_vars => KeyInv'
<1> SUFFICES ASSUME SchemaInv, KeyInv, [Next]_vars PROVE KeyInv'
  OBVIOUS
<1>1. CASE UNCHANGED <<fields, rows, saved>>
  BY <1>1 DEF KeyInv, FieldIds
<1>2. ASSUME NEW o \in Overloads,
             NEW as \in BoundedSeq(Attributes, MaxAttributes), Field(o, as)
      PROVE  KeyInv'
  BY <1>2 DEF Field, SchemaInv, TablesInv, KeyInv
<1>3. ASSUME NEW e \in Entity, NEW empty \in BOOLEAN, InsertOk(e, empty)
      PROVE  KeyInv'
  <2>1. /\ UNCHANGED fields /\ Learns(e, empty)
        /\ rows' = rows \cup {NewRow(empty)} /\ ~Rejected(NewRow(empty))
    BY <1>3 DEF InsertOk
  <2>2. \A row \in rows' : \A i \in FieldIds :
          fields[i].row_id /\ ~fields[i].nullable => row.cells[i] = row.rowid
    BY <2>1, NewRowKeyed DEF KeyInv
  <2>3. \A d \in Entity : saved'[d] # None /\ saved'[d].vals # <<>> =>
          \A i \in FieldIds : fields[i].row_id => saved'[d].vals[i] = saved'[d].rowid
    BY <2>1, LearnsKeyed DEF KeyInv, SchemaInv
  <2> QED
    BY <2>1, <2>2, <2>3 DEF KeyInv, FieldIds
<1>4. ASSUME NEW e \in Entity, NEW empty \in BOOLEAN, InsertStrays(e, empty)
      PROVE  KeyInv'
  <2>1. UNCHANGED <<fields, rows>> /\ Learns(e, empty)
    BY <1>4 DEF InsertStrays
  <2>2. \A d \in Entity : saved'[d] # None /\ saved'[d].vals # <<>> =>
          \A i \in FieldIds : fields[i].row_id => saved'[d].vals[i] = saved'[d].rowid
    BY <2>1, LearnsKeyed DEF KeyInv, SchemaInv
  <2> QED
    BY <2>1, <2>2 DEF KeyInv, FieldIds
<1> QED
  BY <1>1, <1>2, <1>3, <1>4, SaveCases
  DEF Next, Create, CreateThrows, CreateOther, vars

(* Whatever the attributes of a class are and their order, the key that an  *)
(* entity remembers is the one in its row.                                  *)
THEOREM KeysAreInRows == Spec => []SavedKeyIsInRow
<1>1. KeyInv => SavedKeyIsInRow
  BY DEF KeyInv, SavedKeyIsInRow
<1>2. Init => KeyInv
  BY DEF Init, KeyInv
<1> QED
  BY <1>1, <1>2, KeyNext, SchemaInit, SchemaNext, PTL DEF Spec

-----------------------------------------------------------------------------
(* The attributes of a field                                                *)

(* Induction is by a smallest counterexample, a least element of a set of   *)
(* numbers.                                                                 *)
LEMMA LeastElement ==
  ASSUME NEW T \in SUBSET Nat, T # {}
  PROVE  \E x \in T : \A y \in T : x <= y
<1> DEFINE R == OpToRel(<, Nat)
<1>1. IsWellFoundedOn(R, Nat)
  BY NatLessThanWellFounded
<1>2. \A x, y \in Nat : y < x => <<y, x>> \in R
  BY DEF OpToRel
<1> HIDE DEF R
<1>3. PICK x \in T : \A y \in T : ~ (<<y, x>> \in R)
  BY <1>1, WFMin, Zenon
<1>4. \A y \in T : x <= y
  <2> TAKE y \in T
  <2>1. x \in Nat /\ y \in Nat
    OBVIOUS
  <2>2. ~(y < x)
    BY <1>2, <1>3, <2>1
  <2> QED BY <2>1, <2>2
<1> QED BY <1>4

LEMMA GreatestElement ==
  ASSUME NEW b \in Int, NEW T \in SUBSET Int, T # {}, \A x \in T : x <= b
  PROVE  Max(T) \in T /\ \A y \in T : Max(T) >= y
<1> DEFINE D == {b - x : x \in T}
<1>1. D \in SUBSET Nat
  <2>1. \A x \in T : b - x \in Nat
    OBVIOUS
  <2> QED BY <2>1
<1>2. D # {}
  OBVIOUS
<1>3. PICK d \in D : \A e \in D : d <= e
  BY <1>1, <1>2, LeastElement
<1>4. PICK x \in T : d = b - x
  OBVIOUS
<1>5. \A y \in T : x >= y
  <2> TAKE y \in T
  <2>1. b - y \in D
    OBVIOUS
  <2>2. b - x <= b - y
    BY <1>3, <1>4, <2>1
  <2>3. x \in Int /\ y \in Int
    OBVIOUS
  <2> QED BY <2>2, <2>3
<1> QED BY <1>5 DEF Max

LEMMA LastOfPart ==
  ASSUME NEW n \in Nat, NEW s \in SUBSET (1 .. n), s # {}
  PROVE  Max(s) \in s
<1>1. s \in SUBSET Int
  OBVIOUS
<1>2. \A x \in s : x <= n
  <2> TAKE x \in s
  <2>1. x \in 1 .. n
    OBVIOUS
  <2> QED BY <2>1
<1> QED BY <1>1, <1>2, GreatestElement

(* What holds of {} and, if of a set without its greatest element, of the   *)
(* set, holds of a finite set.                                              *)
Inductive(S, P) ==
  \A s \in SUBSET S : s = {} \/ s \ {Max(s)} \in P => s \in P

LEMMA PartsInduction ==
  ASSUME NEW S, IsFiniteSet(S),
         \A s \in SUBSET S : s # {} =>
           /\ s \ {Max(s)} \in SUBSET S
           /\ Cardinality(s \ {Max(s)}) = Cardinality(s) - 1,
         NEW P, Inductive(S, P)
  PROVE  S \in P
<1> DEFINE Sizes == {Cardinality(s) : s \in {t \in SUBSET S : t \notin P}}
<1>1. \A s \in SUBSET S : Cardinality(s) \in Nat
  BY FS_Subset, FS_CardinalityType
<1>2. CASE Sizes = {}
  <2>1. S \in SUBSET S
    OBVIOUS
  <2> QED BY <1>2, <2>1
<1>3. CASE Sizes # {}
  <2>1. Sizes \in SUBSET Nat
    BY <1>1
  <2>2. PICK n \in Sizes : \A m \in Sizes : n <= m
    BY <1>3, <2>1, LeastElement
  <2>3. PICK s \in SUBSET S : s \notin P /\ n = Cardinality(s)
    OBVIOUS
  <2>4. s # {} /\ s \ {Max(s)} \notin P
    BY <2>3 DEF Inductive
  <2>5. Cardinality(s) - 1 \in Sizes
    BY <2>4
  <2> HIDE DEF Sizes
  <2> QED BY <1>1, <2>2, <2>3, <2>5
<1> QED BY <1>2, <1>3

LEMMA AppliedIsField ==
  ASSUME NEW f \in FieldInfo, NEW a \in Attributes
  PROVE  Apply(f, a) \in FieldInfo
<1>1. \/ a.name \in {"primary_key", "row_id", "nullable"} /\ a.arg \in BOOLEAN
      \/ a.name = "unique_id" /\ a.arg \in UniqueIds
  BY DEF Attributes
<1> QED BY <1>1 DEF Apply, FieldInfo

(* However many attributes a field has, what they make of it is a field.    *)
LEMMA AttributesMakeField ==
  ASSUME NEW f \in FieldInfo, NEW at \in Seq(Attributes)
  PROVE  FoldLeft(Apply, f, at) \in FieldInfo
<1> DEFINE S == 1 .. Len(at)
           It(g, s) == IF s = {} THEN f ELSE Apply(g[s \ {Max(s)}], at[Max(s)])
           Equation(g) == g = [s \in SUBSET S |-> It(g, s)]
           iter == CHOOSE g : Equation(g)
<1>1. FoldLeft(Apply, f, at) = iter[S]
  <2>1. DOMAIN at = S
    BY SequenceParts
  <2> QED BY <2>1 DEF FoldLeft, MapThenFoldSet
<1>2. /\ IsFiniteSet(S) /\ Cardinality(S) \in Nat
      /\ \A s \in SUBSET S : IsFiniteSet(s) /\ Cardinality(s) \in Nat
                               /\ Cardinality(s) <= Cardinality(S)
  <2>1. IsFiniteSet(S)
    <3>1. Len(at) \in Nat
      BY SequenceParts
    <3>2. IsFiniteSet(1 .. Len(at))
      BY <3>1, FS_Interval
    <3> QED BY <3>2
  <2> HIDE DEF S
  <2> QED BY <2>1, FS_Subset, FS_CardinalityType
<1>3. ASSUME NEW s \in SUBSET S, s # {}
      PROVE  /\ Max(s) \in s
             /\ s \ {Max(s)} \in SUBSET S
             /\ Cardinality(s \ {Max(s)}) = Cardinality(s) - 1
  <2>1. Len(at) \in Nat
    BY SequenceParts
  <2>2. Max(s) \in s
    BY <1>3, <2>1, LastOfPart
  <2> HIDE DEF S
  <2> QED BY <1>2, <2>2, FS_RemoveElement
<1>4. \A x \in S : at[x] \in Attributes
  BY SequenceParts
<1> DEFINE Upto(n, g) == \A s \in SUBSET S : Cardinality(s) <= n => g[s] = It(g, s)
           Lacking == {n \in Nat : ~\E g \in [SUBSET S -> FieldInfo] : Upto(n, g)}
<1> HIDE DEF S
<1>5. ASSUME NEW g \in [SUBSET S -> FieldInfo], NEW s \in SUBSET S
      PROVE  It(g, s) \in FieldInfo
  BY <1>3, <1>4, AppliedIsField
<1>6. Lacking = {}
  <2> SUFFICES ASSUME Lacking # {} PROVE FALSE
    OBVIOUS
  <2>1. PICK n \in Lacking : \A m \in Lacking : n <= m
    BY LeastElement
  <2>2. \E g \in [SUBSET S -> FieldInfo] : n # 0 => Upto(n - 1, g)
    <3>1. CASE n = 0
      <4> DEFINE k == [s \in SUBSET S |-> f]
      <4>1. k \in [SUBSET S -> FieldInfo]
        OBVIOUS
      <4> HIDE DEF k
      <4> QED BY <3>1, <4>1
    <3>2. CASE n # 0
      <4>1. n \in Nat /\ n - 1 \in Nat
        BY <3>2
      <4>2. n - 1 \notin Lacking
        <5> HIDE DEF Lacking
        <5> QED BY <2>1, <4>1
      <4> HIDE DEF Upto
      <4>3. \E g \in [SUBSET S -> FieldInfo] : Upto(n - 1, g)
        BY <4>1, <4>2
      <4> QED BY <4>3
    <3> HIDE DEF Upto
    <3> QED BY <3>1, <3>2
  <2>3. PICK g \in [SUBSET S -> FieldInfo] : n # 0 => Upto(n - 1, g)
    BY <2>2
  <2> DEFINE h == [s \in SUBSET S |-> It(g, s)]
  <2>4. h \in [SUBSET S -> FieldInfo]
    BY <1>5
  <2>5. ASSUME NEW s \in SUBSET S, Cardinality(s) <= n
        PROVE  h[s] = It(h, s)
    <3>1. CASE s = {}
      BY <3>1
    <3>2. CASE s # {}
      <4> DEFINE t == s \ {Max(s)}
      <4>1. t \in SUBSET S /\ Cardinality(t) = Cardinality(s) - 1
        BY <1>3, <3>2
      <4>2. n # 0 /\ Cardinality(t) <= n - 1
        BY <1>2, <2>5, <4>1
      <4>3. h[t] = g[t]
        BY <2>3, <4>1, <4>2
      <4> QED BY <3>2, <4>3
    <3> QED BY <3>1, <3>2
  <2> HIDE DEF h
  <2>6. Upto(n, h)
    BY <2>5
  <2> QED BY <2>1, <2>4, <2>6
<1>7. PICK g \in [SUBSET S -> FieldInfo] : Upto(Cardinality(S), g)
  BY <1>2, <1>6
<1>8. Equation(g)
  BY <1>2, <1>7
<1>9. Equation(iter)
  <2> HIDE DEF Equation
  <2> QED BY <1>8
<1>10. \A s \in SUBSET S : iter[s] = It(iter, s)
  BY <1>9
<1> HIDE DEF iter
<1> DEFINE Fine == {s \in SUBSET S : iter[s] \in FieldInfo}
<1>11. {} \in Fine
  BY <1>10
<1>12. ASSUME NEW s \in SUBSET S, s # {}, s \ {Max(s)} \in Fine
       PROVE  s \in Fine
  <2>1. Max(s) \in S
    BY <1>3, <1>12
  <2>2. Apply(iter[s \ {Max(s)}], at[Max(s)]) \in FieldInfo
    BY <1>4, <1>12, <2>1, AppliedIsField
  <2> QED BY <1>10, <1>12, <2>2
<1>13. S \in Fine
  <2> HIDE DEF Fine
  <2>1. \A s \in SUBSET S : s # {} => s \ {Max(s)} \in SUBSET S
          /\ Cardinality(s \ {Max(s)}) = Cardinality(s) - 1
    BY <1>3
  <2>2. Inductive(S, Fine)
    BY <1>11, <1>12 DEF Inductive
  <2>3. IsFiniteSet(S)
    BY <1>2
  <2> QED BY <2>1, <2>2, <2>3, PartsInduction
<1> QED BY <1>1, <1>13

LEMMA AttributesAreSequence ==
  ASSUME NEW n \in Nat, NEW at \in BoundedSeq(Attributes, n)
  PROVE  at \in Seq(Attributes)
<1>1. PICK m \in 0 .. n : at \in [1 .. m -> Attributes]
  BY DEF BoundedSeq, SeqOf
<1> QED BY <1>1

LEMMA NewFieldIsField ==
  ASSUME NEW o \in Overloads
  PROVE  NewField(o) \in FieldInfo
BY DEF NewField, FieldInfo

-----------------------------------------------------------------------------
(* Types                                                                    *)

FieldsInv == fields \in Seq(FieldInfo) /\ Len(fields) <= MaxFields

(* The rowids have a greatest, the one that the next row is numbered after. *)
RowidsInv ==
  /\ \A row \in rows : row.rowid \in Int
  /\ \E b \in Int : \A row \in rows : row.rowid <= b

LEMMA NewRowidIsInt ==
  ASSUME RowidsInv
  PROVE  NewRowid \in Int
<1>1. CASE rows = {}
  BY <1>1 DEF NewRowid
<1>2. CASE rows # {}
  <2> DEFINE T == {row.rowid : row \in rows}
  <2>1. T \in SUBSET Int /\ T # {}
    BY <1>2 DEF RowidsInv
  <2>2. PICK b \in Int : \A x \in T : x <= b
    BY DEF RowidsInv
  <2> HIDE DEF T
  <2>3. Max(T) \in T
    BY <2>1, <2>2, GreatestElement
  <2>4. Max(T) \in Int
    BY <2>1, <2>3
  <2> QED BY <1>2, <2>4 DEF NewRowid, T
<1> QED BY <1>1, <1>2

(* A member is a number, or NULL in an optional one.                        *)
LEMMA MemberTypes ==
  ASSUME FieldsInv, NEW i \in FieldIds, NEW empty \in BOOLEAN
  PROVE  /\ MemberOf(i, empty) \in Int \cup {Null}
         /\ MemberOf(i, empty) = Null => fields[i].overload = "opt"
<1>1. fields[i].overload \in Overloads
  <2>1. fields[i] \in FieldInfo
    BY SequenceParts DEF FieldsInv, FieldIds
  <2> QED BY <2>1 DEF FieldInfo
<1>2. CASE fields[i].overload = "rowid"
  BY <1>2 DEF MemberOf
<1>3. CASE fields[i].overload = "opt"
  BY <1>3 DEF MemberOf
<1>4. CASE fields[i].overload \in {"plain", "text"}
  BY <1>4 DEF MemberOf
<1> QED BY <1>1, <1>2, <1>3, <1>4 DEF Overloads

LEMMA RowidIsInt ==
  ASSUME FieldsInv, RowidsInv, NEW empty \in BOOLEAN
  PROVE  RowidOf(empty) \in Int
<1> DEFINE given == {Bound(i, empty) : i \in RowidAlias} \ {Null}
<1>1. given \subseteq Int
  <2>1. \A i \in RowidAlias : Bound(i, empty) \in Int \cup {Null}
    BY MemberTypes DEF RowidAlias, Bound
  <2> QED BY <2>1
<1>2. NewRowid \in Int
  BY NewRowidIsInt
<1>3. RowidOf(empty) = IF given = {} THEN NewRowid ELSE CHOOSE r \in given : TRUE
  BY DEF RowidOf
<1> HIDE DEF given
<1> QED BY <1>1, <1>2, <1>3

TypeInv == TypeOK /\ SchemaInv /\ RowidsInv

LEMMA TypeInit == Init => TypeInv
<1> SUFFICES ASSUME Init PROVE TypeInv
  OBVIOUS
<1>1. fields \in Seq(FieldInfo) /\ Len(fields) = 0
  BY DEF Init
<1>2. MaxFields \in Nat
  OBVIOUS
<1>3. FieldsInv
  BY <1>1, <1>2 DEF FieldsInv
<1>4. RowidsInv
  <2>1. 0 \in Int
    OBVIOUS
  <2> QED BY <2>1 DEF Init, RowidsInv
<1>5. /\ temporary \in BOOLEAN /\ schema \in Schemas
      /\ rows = {} /\ threw \in BOOLEAN
      /\ \A e \in Entity : saved[e] = None
      /\ tables \in [Databases -> {None, "own", "other"}]
  BY DEF Init
<1> QED BY <1>3, <1>4, <1>5, SchemaInit DEF TypeInv, TypeOK, FieldsInv

LEMMA CellsTyped ==
  ASSUME FieldsInv, RowidsInv, NEW empty \in BOOLEAN
  PROVE  NewRow(empty).cells \in [FieldIds -> Int \cup {Null}]
<1>1. RowidOf(empty) \in Int
  BY RowidIsInt
<1>2. \A i \in FieldIds : Bound(i, empty) \in Int \cup {Null}
  BY MemberTypes DEF Bound
<1> QED BY <1>1, <1>2 DEF NewRow

LEMMA LearnsTyped ==
  ASSUME FieldsInv, RowidsInv, NEW empty \in BOOLEAN
  PROVE  InsertVals(empty) \in [FieldIds -> Int \cup {Null}]
<1>1. RowidOf(empty) \in Int
  BY RowidIsInt
<1>2. \A i \in FieldIds : MemberOf(i, empty) \in Int \cup {Null}
  BY MemberTypes
<1> QED BY <1>1, <1>2 DEF InsertVals

(* What the entities have learnt, and the rows.                             *)
SavedTyped ==
  \A e \in Entity : saved[e] # None =>
    /\ saved[e].rowid \in Int
    /\ saved[e].vals \in [FieldIds -> Int \cup {Null}] \cup {<<>>}

RowsTyped ==
  \A row \in rows :
    row.rowid \in Int /\ row.cells \in [FieldIds -> Int \cup {Null}]

LEMMA RowsStayTyped ==
  ASSUME FieldsInv, RowidsInv, RowsTyped, NEW empty \in BOOLEAN,
         UNCHANGED fields, rows' = rows \cup {NewRow(empty)}
  PROVE  RowsTyped' /\ RowidsInv'
<1>1. NewRow(empty).rowid = RowidOf(empty) /\ RowidOf(empty) \in Int
  BY RowidIsInt DEF NewRow
<1>2. RowsTyped'
  BY <1>1, CellsTyped DEF RowsTyped, FieldIds
<1>3. \E b \in Int : \A row \in rows' : row.rowid <= b
  <2>1. PICK b \in Int : \A row \in rows : row.rowid <= b
    BY DEF RowidsInv
  <2> DEFINE c == IF b <= RowidOf(empty) THEN RowidOf(empty) ELSE b
  <2>2. c \in Int /\ b <= c /\ RowidOf(empty) <= c
    BY <1>1
  <2> HIDE DEF c
  <2>3. \A row \in rows : row.rowid <= c
    BY <2>1, <2>2 DEF RowidsInv
  <2> QED BY <1>1, <2>2, <2>3
<1> QED BY <1>2, <1>3 DEF RowsTyped, RowidsInv

LEMMA SavedStaysTyped ==
  ASSUME FieldsInv, RowidsInv, SavedTyped, saved = [d \in Entity |-> saved[d]],
         NEW e \in Entity, NEW empty \in BOOLEAN,
         UNCHANGED fields, Learns(e, empty)
  PROVE  SavedTyped' /\ threw' \in BOOLEAN
<1> DEFINE x == [rowid |-> RowidOf(empty),
                 vals |-> IF SetterThrows THEN <<>> ELSE InsertVals(empty)]
<1>1. x.rowid \in Int /\ x.vals \in [FieldIds -> Int \cup {Null}] \cup {<<>>}
  <2>1. RowidOf(empty) \in Int /\ InsertVals(empty) \in [FieldIds -> Int \cup {Null}]
    BY RowidIsInt, LearnsTyped
  <2> QED BY <2>1
<1>2. saved' = [saved EXCEPT ![e] = x] /\ threw' = SetterThrows
  BY DEF Learns
<1> HIDE DEF x
<1>3. \A d \in Entity : saved'[d] = IF d = e THEN x ELSE saved[d]
  BY <1>2
<1>4. SavedTyped'
  BY <1>1, <1>3 DEF SavedTyped, FieldIds
<1> QED BY <1>2, <1>4 DEF SetterThrows

LEMMA TypeNext == TypeInv /\ [Next]_vars => TypeInv'
<1> SUFFICES ASSUME TypeInv, [Next]_vars PROVE TypeInv'
  OBVIOUS
<1>1. /\ SchemaInv /\ FieldsInv /\ RowidsInv /\ RowsTyped /\ SavedTyped
      /\ temporary \in BOOLEAN /\ threw \in BOOLEAN
  BY DEF TypeInv, TypeOK, FieldsInv, RowsTyped, SavedTyped
<1>2. SchemaInv'
  BY <1>1, SchemaNext
<1>3. ASSUME temporary' \in BOOLEAN, threw' \in BOOLEAN,
             FieldsInv', RowidsInv', RowsTyped', SavedTyped'
      PROVE  TypeInv'
  BY <1>2, <1>3
  DEF TypeInv, TypeOK, SchemaInv, TablesInv, FieldsInv, RowsTyped, SavedTyped
<1>4. ASSUME UNCHANGED <<temporary, fields, rows, saved>>, threw' \in BOOLEAN
      PROVE  TypeInv'
  BY <1>1, <1>3, <1>4 DEF FieldsInv, RowidsInv, RowsTyped, SavedTyped, FieldIds
<1>5. CASE UNCHANGED vars
  BY <1>1, <1>4, <1>5 DEF vars
<1>6. ASSUME NEW o \in Overloads,
             NEW as \in BoundedSeq(Attributes, MaxAttributes), Field(o, as)
      PROVE  TypeInv'
  <2> DEFINE f == FoldLeft(Apply, NewField(o), as)
  <2>1. f \in FieldInfo
    BY AttributesAreSequence, NewFieldIsField, AttributesMakeField
  <2>2. /\ fields' = Append(fields, f) /\ Len(fields) < MaxFields
        /\ UNCHANGED <<temporary, rows, saved>> /\ threw' = FALSE
        /\ \A d \in Databases : tables[d] = None
    BY <1>6 DEF Field
  <2> HIDE DEF f
  <2>3. FieldsInv'
    BY <1>1, <2>1, <2>2 DEF FieldsInv
  <2>4. rows' = {} /\ \A e \in Entity : saved'[e] = None
    BY <1>1, <2>2 DEF SchemaInv, TablesInv
  <2>5. RowidsInv' /\ RowsTyped' /\ SavedTyped'
    <3>1. 0 \in Int
      OBVIOUS
    <3> QED BY <2>4, <3>1 DEF RowidsInv, RowsTyped, SavedTyped
  <2> QED BY <1>1, <1>3, <2>2, <2>3, <2>5
<1>7. CASE Create
  BY <1>4, <1>7 DEF Create
<1>8. CASE CreateThrows
  BY <1>4, <1>8 DEF CreateThrows
<1>9. ASSUME NEW d \in Databases, CreateOther(d) PROVE TypeInv'
  BY <1>4, <1>9 DEF CreateOther
<1>10. ASSUME NEW e \in Entity, Save(e) PROVE TypeInv'
  <2>1. CASE UNCHANGED <<temporary, schema, fields, tables, rows, saved>> /\ threw'
    <3>1. threw' \in BOOLEAN
      BY <1>10, <1>1 DEF Save, InsertOk, InsertThrows, InsertStrays, Learns, SetterThrows
    <3> QED BY <1>4, <2>1, <3>1
  <2>2. ASSUME NEW empty \in BOOLEAN, InsertOk(e, empty) PROVE TypeInv'
    <3>1. /\ UNCHANGED <<temporary, fields>> /\ Learns(e, empty)
          /\ rows' = rows \cup {NewRow(empty)}
      BY <2>2 DEF InsertOk
    <3>2. RowsTyped' /\ RowidsInv'
      BY <1>1, <3>1, RowsStayTyped
    <3>3. SavedTyped' /\ threw' \in BOOLEAN
      BY <1>1, <3>1, SavedStaysTyped DEF SchemaInv
    <3> QED BY <1>1, <1>3, <3>1, <3>2, <3>3 DEF FieldsInv
  <2>3. ASSUME NEW empty \in BOOLEAN, InsertStrays(e, empty) PROVE TypeInv'
    <3>1. UNCHANGED <<temporary, fields, rows>> /\ Learns(e, empty)
      BY <2>3 DEF InsertStrays
    <3>2. SavedTyped' /\ threw' \in BOOLEAN
      BY <1>1, <3>1, SavedStaysTyped DEF SchemaInv
    <3> QED
      BY <1>1, <1>3, <3>1, <3>2 DEF FieldsInv, RowidsInv, RowsTyped, FieldIds
  <2> QED BY <1>10, <2>1, <2>2, <2>3, SaveCases
<1> QED
  BY <1>5, <1>6, <1>7, <1>8, <1>9, <1>10 DEF Next

(* The variables have the types that TypeOK gives them, however many        *)
(* attributes builder::field folds into a field and whatever numbers the    *)
(* rows get.                                                                *)
THEOREM SchemaTypes == Spec => []TypeOK
<1>1. TypeInv => TypeOK
  BY DEF TypeInv
<1> QED
  BY <1>1, TypeInit, TypeNext, PTL DEF Spec

-----------------------------------------------------------------------------
(* The first entity                                                         *)

LEMMA FirstRowIsAccepted ==
  ASSUME FieldsInv, RowidsInv, Storable, rows = {}, NEW empty \in BOOLEAN
  PROVE  ~Rejected(NewRow(empty))
<1> SUFFICES ASSUME NEW i \in FieldIds, ~fields[i].nullable,
                    NewRow(empty).cells[i] = Null
             PROVE  FALSE
  BY DEF Rejected
<1>1. RowidOf(empty) \in Int /\ Null \notin Int
  BY RowidIsInt
<1>2. NewRow(empty).cells[i] = IF i \in RowidAlias THEN RowidOf(empty)
                               ELSE Bound(i, empty)
  BY DEF NewRow
<1>3. i \notin RowidAlias /\ Bound(i, empty) = Null
  BY <1>1, <1>2
<1>4. CASE fields[i].row_id
  <2>1. /\ fields[i].overload # "text"
        /\ \A j \in FieldIds : fields[j].primary_key <=> j = i
    BY <1>4 DEF Storable
  <2>2. PrimaryKey = {i}
    BY <2>1 DEF PrimaryKey
  <2> QED BY <1>3, <2>1, <2>2 DEF RowidAlias
<1>5. CASE ~fields[i].row_id
  <2>1. MemberOf(i, empty) = Null
    BY <1>3, <1>5 DEF Bound
  <2>2. fields[i].overload = "opt"
    BY <2>1, MemberTypes
  <2> QED BY <2>2 DEF Storable
<1> QED BY <1>4, <1>5

(* The first entity of a class that can have entities saved is saved, of    *)
(* whatever fields the class is made.                                       *)
THEOREM FirstSaveSucceeds == Spec => FirstEntityIsSaved
<1>1. ASSUME TypeInv, [Next]_vars
      PROVE  [\A e \in Entity : Storable /\ rows = {} /\ Save(e) => ~threw']_vars
  <2> SUFFICES ASSUME NEW e \in Entity, Storable, rows = {}, Save(e)
               PROVE  ~threw'
    BY <1>1
  <2>1. FieldsInv /\ RowidsInv /\ TablesInv
    BY <1>1 DEF TypeInv, TypeOK, FieldsInv, SchemaInv
  <2>2. Target = "own" /\ Target # None /\ Target # "other"
    BY DEF Storable
  <2>3. ~SetterThrows
    BY DEF Storable, SetterThrows
  <2>4. PICK empty \in BOOLEAN : InsertOk(e, empty) \/ InsertThrows(e, empty)
                                   \/ InsertStrays(e, empty)
    BY DEF Save
  <2>5. ~InsertThrows(e, empty)
    BY <2>1, <2>2, FirstRowIsAccepted DEF InsertThrows
  <2> QED BY <2>2, <2>3, <2>4, <2>5 DEF InsertOk, InsertStrays, Learns
<1> QED
  BY <1>1, TypeInit, TypeNext, PTL DEF Spec, FirstEntityIsSaved

-----------------------------------------------------------------------------
(* Rows and objects                                                         *)

(* The alias of _rowid_ is a const int64_t member that insert() binds: -1.  *)
BindsMinusOne ==
  \E i \in RowidAlias : fields[i].overload = "rowid" /\ ~fields[i].row_id

LEMMA BoundMinusOne ==
  ASSUME BindsMinusOne, NEW empty \in BOOLEAN
  PROVE  RowidOf(empty) = -1
<1> DEFINE given == {Bound(i, empty) : i \in RowidAlias} \ {Null}
<1>1. PICK i \in RowidAlias : fields[i].overload = "rowid" /\ ~fields[i].row_id
  BY DEF BindsMinusOne
<1>2. Bound(i, empty) = -1
  BY <1>1 DEF Bound, MemberOf
<1>3. \A j \in RowidAlias : j = i
  BY DEF RowidAlias
<1>4. -1 # Null
  OBVIOUS
<1>5. given = {-1}
  BY <1>2, <1>3, <1>4
<1>6. RowidOf(empty) = IF given = {} THEN NewRowid ELSE CHOOSE r \in given : TRUE
  BY DEF RowidOf
<1> HIDE DEF given
<1> QED
  BY <1>5, <1>6

RowsBounded == \A row \in rows : row.rowid >= -1

LEMMA NewRowidIsNatural ==
  ASSUME RowidsInv, RowsBounded
  PROVE  NewRowid \in Int /\ NewRowid >= 0
<1>1. CASE rows = {}
  BY <1>1 DEF NewRowid
<1>2. CASE rows # {}
  <2> DEFINE T == {row.rowid : row \in rows}
  <2>1. /\ T \in SUBSET Int /\ T # {}
        /\ \A x \in T : x >= -1
    BY <1>2 DEF RowidsInv, RowsBounded
  <2>2. PICK b \in Int : \A x \in T : x <= b
    BY DEF RowidsInv
  <2> HIDE DEF T
  <2>3. Max(T) \in T
    BY <2>1, <2>2, GreatestElement
  <2>4. Max(T) \in Int /\ Max(T) >= -1
    BY <2>1, <2>3
  <2>5. NewRowid = Max(T) + 1
    BY <1>2 DEF NewRowid, T
  <2> QED
    BY <2>4, <2>5
<1> QED
  BY <1>1, <1>2

(* A row gets a negative number from such a member only.                    *)
LEMMA NegativeIsBound ==
  ASSUME FieldsInv, RowidsInv, RowsBounded, NEW empty \in BOOLEAN
  PROVE  /\ RowidOf(empty) \in Int
         /\ RowidOf(empty) >= -1
         /\ RowidOf(empty) < 0 => BindsMinusOne
<1> DEFINE given == {Bound(i, empty) : i \in RowidAlias} \ {Null}
<1>1. RowidOf(empty) = IF given = {} THEN NewRowid ELSE CHOOSE r \in given : TRUE
  BY DEF RowidOf
<1>2. CASE given = {}
  BY <1>1, <1>2, NewRowidIsNatural
<1>3. CASE given # {}
  <2>1. RowidOf(empty) \in given
    <3> HIDE DEF given
    <3> QED
      BY <1>1, <1>3
  <2>2. PICK i \in RowidAlias : Bound(i, empty) = RowidOf(empty)
    BY <2>1
  <2>3. RowidOf(empty) # Null
    BY <2>1
  <2>4. ~fields[i].row_id /\ MemberOf(i, empty) = RowidOf(empty)
    BY <2>2, <2>3 DEF Bound
  <2>5. fields[i].overload \in Overloads
    <3>1. i \in FieldIds
      BY DEF RowidAlias
    <3>2. fields[i] \in FieldInfo
      BY <3>1, SequenceParts DEF FieldsInv, FieldIds
    <3> QED
      BY <3>2 DEF FieldInfo
  <2>6. CASE fields[i].overload = "rowid"
    <3>1. RowidOf(empty) = -1
      BY <2>4, <2>6 DEF MemberOf
    <3> QED
      BY <2>2, <2>4, <2>6, <3>1 DEF BindsMinusOne
  <2>7. CASE fields[i].overload # "rowid"
    <3>1. RowidOf(empty) = 1
      BY <2>3, <2>4, <2>5, <2>7 DEF MemberOf, Overloads
    <3> QED
      BY <3>1
  <2> QED
    BY <2>6, <2>7
<1> QED
  BY <1>2, <1>3

(* An object that still has a negative _rowid_ after it was saved would     *)
(* insert the same key again.                                               *)
KnownInv ==
  /\ RowsBounded
  /\ \A e \in Entity : saved[e] # None /\ saved[e].rowid < 0 =>
       BindsMinusOne /\ saved[e].rowid = -1
  /\ RowsAreKnown

LEMMA KnownInit == Init => KnownInv
BY DEF Init, KnownInv, RowsBounded, RowsAreKnown

(* What an entity learns, and that the others keep what they know.          *)
LEMMA LearnsRowid ==
  ASSUME SchemaInv, FieldsInv, RowidsInv,
         NEW e \in Entity, NEW empty \in BOOLEAN, Learns(e, empty)
  PROVE  /\ saved'[e] # None
         /\ saved'[e].rowid = RowidOf(empty)
         /\ \A d \in Entity : d # e => saved'[d] = saved[d]
<1> DEFINE x == [rowid |-> RowidOf(empty),
                 vals |-> IF SetterThrows THEN <<>> ELSE InsertVals(empty)]
<1>1. saved' = [saved EXCEPT ![e] = x]
  BY DEF Learns
<1>2. saved'[e] = x /\ \A d \in Entity : d # e => saved'[d] = saved[d]
  BY <1>1 DEF SchemaInv
<1>3. x \in Knowledge
  <2>1. InsertVals(empty) \in Seq(Int \cup {Null})
    <3>1. Len(fields) \in Nat
      BY DEF FieldsInv
    <3>2. InsertVals(empty) \in [1 .. Len(fields) -> Int \cup {Null}]
      BY LearnsTyped DEF FieldIds
    <3> QED
      BY <3>1, <3>2
  <2>2. RowidOf(empty) \in Int
    BY RowidIsInt
  <2>3. <<>> \in Seq(Int \cup {Null})
    OBVIOUS
  <2> QED
    BY <2>1, <2>2, <2>3 DEF Knowledge
<1>4. x.rowid = RowidOf(empty)
  OBVIOUS
<1> HIDE DEF x
<1> QED
  BY <1>2, <1>3, <1>4, KnowledgeAssumption

(* An entity that inserts either knew no row or inserts one that is not     *)
(* there, with the number of the one it knew.                               *)
LEMMA InsertsForItself ==
  ASSUME KnownInv, NEW e \in Entity, NEW empty \in BOOLEAN, InsertOk(e, empty),
         NEW row \in rows
  PROVE  ~(saved[e] # None /\ saved[e].rowid = row.rowid)
<1> SUFFICES ASSUME saved[e] # None, saved[e].rowid = row.rowid PROVE FALSE
  OBVIOUS
<1>1. saved[e].rowid < 0
  BY DEF InsertOk, Unsaved
<1>2. BindsMinusOne /\ saved[e].rowid = -1
  BY <1>1 DEF KnownInv
<1>3. RowidOf(empty) = -1
  BY <1>2, BoundMinusOne
<1> QED
  BY <1>2, <1>3, InsertedIsNew

LEMMA KnownNext ==
  TypeInv /\ KnownInv /\ [Next]_vars => KnownInv'
<1> SUFFICES ASSUME TypeInv, KnownInv, [Next]_vars PROVE KnownInv'
  OBVIOUS
<1>1. SchemaInv /\ FieldsInv /\ RowidsInv /\ RowsBounded
  BY DEF TypeInv, TypeOK, FieldsInv, KnownInv
<1>2. ASSUME UNCHANGED fields PROVE BindsMinusOne' <=> BindsMinusOne
  BY <1>2 DEF BindsMinusOne, RowidAlias, PrimaryKey, FieldIds
<1>3. CASE UNCHANGED <<fields, rows, saved>>
  BY <1>2, <1>3 DEF KnownInv, RowsBounded, RowsAreKnown
<1>4. ASSUME NEW o \in Overloads,
             NEW as \in BoundedSeq(Attributes, MaxAttributes), Field(o, as)
      PROVE  KnownInv'
  <2>1. rows' = {} /\ \A e \in Entity : saved'[e] = None
    BY <1>1, <1>4 DEF Field, SchemaInv, TablesInv
  <2> QED
    BY <2>1 DEF KnownInv, RowsBounded, RowsAreKnown
<1>5. ASSUME NEW e \in Entity, NEW empty \in BOOLEAN, Learns(e, empty),
             UNCHANGED fields
      PROVE  \A d \in Entity : saved'[d] # None /\ saved'[d].rowid < 0 =>
               BindsMinusOne' /\ saved'[d].rowid = -1
  <2>1. /\ saved'[e] # None /\ saved'[e].rowid = RowidOf(empty)
        /\ \A d \in Entity : d # e => saved'[d] = saved[d]
    BY <1>1, <1>5, LearnsRowid
  <2>2. /\ RowidOf(empty) \in Int /\ RowidOf(empty) >= -1
        /\ RowidOf(empty) < 0 => BindsMinusOne
    BY <1>1, NegativeIsBound
  <2>3. \A d \in Entity : saved[d] # None /\ saved[d].rowid < 0 =>
          BindsMinusOne /\ saved[d].rowid = -1
    BY DEF KnownInv
  <2> QED
    BY <1>2, <1>5, <2>1, <2>2, <2>3
<1>6. ASSUME NEW e \in Entity, NEW empty \in BOOLEAN, InsertOk(e, empty)
      PROVE  KnownInv'
  <2>1. /\ UNCHANGED fields /\ Learns(e, empty)
        /\ rows' = rows \cup {NewRow(empty)}
    BY <1>6 DEF InsertOk
  <2>2. /\ saved'[e] # None /\ saved'[e].rowid = RowidOf(empty)
        /\ \A d \in Entity : d # e => saved'[d] = saved[d]
    BY <1>1, <2>1, LearnsRowid
  <2>3. NewRow(empty).rowid = RowidOf(empty) /\ RowidOf(empty) >= -1
    BY <1>1, NegativeIsBound DEF NewRow
  <2>4. RowsBounded'
    BY <1>1, <2>1, <2>3 DEF RowsBounded
  <2>5. ASSUME NEW row \in rows
        PROVE  \E d \in Entity : saved'[d] # None /\ saved'[d].rowid = row.rowid
    <3>1. PICK d \in Entity : saved[d] # None /\ saved[d].rowid = row.rowid
      BY DEF KnownInv, RowsAreKnown
    <3>2. d # e
      BY <1>6, <3>1, InsertsForItself
    <3> QED
      BY <2>2, <3>1, <3>2
  <2>6. RowsAreKnown'
    BY <2>1, <2>2, <2>3, <2>5 DEF RowsAreKnown
  <2> QED
    BY <1>5, <2>1, <2>4, <2>6 DEF KnownInv
<1>7. ASSUME NEW e \in Entity, NEW empty \in BOOLEAN, InsertStrays(e, empty)
      PROVE  KnownInv'
  <2>1. UNCHANGED <<fields, rows>> /\ Learns(e, empty) /\ Unsaved(e)
    BY <1>7 DEF InsertStrays
  <2>2. /\ saved'[e] # None /\ saved'[e].rowid = RowidOf(empty)
        /\ \A d \in Entity : d # e => saved'[d] = saved[d]
    BY <1>1, <2>1, LearnsRowid
  <2>3. ASSUME NEW row \in rows
        PROVE  \E d \in Entity : saved'[d] # None /\ saved'[d].rowid = row.rowid
    <3>1. PICK d \in Entity : saved[d] # None /\ saved[d].rowid = row.rowid
      BY DEF KnownInv, RowsAreKnown
    <3>2. CASE d # e
      BY <2>2, <3>1, <3>2
    <3>3. CASE d = e
      <4>1. BindsMinusOne /\ saved[e].rowid = -1
        BY <2>1, <3>1, <3>3 DEF Unsaved, KnownInv
      <4>2. RowidOf(empty) = -1
        BY <4>1, BoundMinusOne
      <4> QED
        BY <2>2, <3>1, <3>3, <4>1, <4>2
    <3> QED
      BY <3>2, <3>3
  <2> QED
    BY <1>1, <1>5, <2>1, <2>3 DEF KnownInv, RowsBounded, RowsAreKnown
<1> QED
  BY <1>3, <1>4, <1>6, <1>7, SaveCases
  DEF Next, Create, CreateThrows, CreateOther, vars

(* Every row has an object that will update it, whatever the class and      *)
(* however save() fails: saving again never adds a second row.              *)
THEOREM RowsHaveObjects == Spec => []RowsAreKnown
<1>1. KnownInv => RowsAreKnown
  BY DEF KnownInv
<1> QED
  BY <1>1, TypeInit, TypeNext, KnownInit, KnownNext, PTL DEF Spec
=============================================================================
