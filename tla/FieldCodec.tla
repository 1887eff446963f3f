----------------------------- MODULE FieldCodec -----------------------------
(***************************************************************************)
(* The conversions a value goes through between a C++ data member and a    *)
(* SQLite cell: the getter and setter lambdas that builder<T>::field       *)
(* generates (orm.h), bind_db_val (orm.cpp) and the typed column reads of  *)
(* result_iterator.                                                        *)
(*                                                                         *)
(* Integers stand for the values of all four db_types: what the code tells *)
(* apart is the SQL NULL, the value a typed read of NULL returns (0, 0.0,  *)
(* the empty string, the empty blob: here 0) and the other values.         *)
(***************************************************************************)
EXTENDS Integers

CONSTANTS
  Field,      \* the fields of the class_info, in any order
  Kind,       \* Kind[f]: which overload of builder::field made f, see Kinds
  NarrowMod,  \* 2^w, for the width w of the member of a "narrow" field
  Ticks,      \* what a time_point counts in a second
  Null,       \* db_null_type, and the NULL of a cell
  Nullopt     \* std::nullopt, a std::optional member without a value

Kinds ==
  { "key",    \* const int64_t member with the row_id() attribute
    "pk",     \* int64_t member with the primary_key() attribute
    "wide",   \* member as wide as its db_type, NOT NULL
    "opt",    \* std::optional member, nullable column
    "blob",   \* std::vector<uint8_t> member, NOT NULL; 0 is the empty vector
    "time",   \* time_point member, its column counts whole seconds
    "narrow" }\* unsigned member narrower than int64_t; what is stored in it by
              \* static_cast stands for every lossy one: bool, int8_t, float

(***************************************************************************)
(* PRIMARY KEY(f) on one INTEGER field makes f an alias of _rowid_.  A     *)
(* composite key does not, hence at most one field has a key attribute.    *)
(***************************************************************************)
ASSUME CodecAssumption ==
  /\ Kind \in [Field -> Kinds]
  /\ \A f, g \in Field : {Kind[f], Kind[g]} \subseteq {"key", "pk"} => f = g
  /\ NarrowMod \in Nat \ {0}
  /\ Ticks \in Nat \ {0}
  /\ Null \notin Int
  /\ Nullopt \notin Int
  /\ Null # Nullopt

KeyFields == {f \in Field : Kind[f] = "key"}
PkFields  == {f \in Field : Kind[f] = "pk"}

DbValue == Int \cup {Null}      \* db_value, and the contents of a cell
Member  == Int \cup {Nullopt}   \* the contents of a data member

(* The members of an object: only a std::optional can be without a value.   *)
Members ==
  {m \in [Field -> Member] :
     \A f \in Field : m[f] = Nullopt => Kind[f] = "opt"}

(* The cells of a row: generate_create_table makes every other column       *)
(* NOT NULL.                                                                *)
Cells ==
  {c \in [Field -> DbValue] :
     \A f \in Field : c[f] = Null => Kind[f] = "opt"}

(* to_time_t drops what a point in time has beyond the whole second.        *)
Seconds(t) == IF t >= 0 THEN t \div Ticks ELSE -((-t) \div Ticks)

(* getter_fn_t: an empty optional becomes db_null_type, a point in time the *)
(* number of its second, the rest is widened.                               *)
Getter(f, m) ==
  IF Kind[f] = "opt" /\ m = Nullopt THEN Null
  ELSE IF Kind[f] = "time" THEN Seconds(m) ELSE m

(* A setter that stores a NULL in an optional as if it were a value.        *)
SetterKeepsNull(f, v) == IF Kind[f] = "narrow" THEN v % NarrowMod ELSE v

(* A setter that takes the number of a second for a point in time.          *)
SetterInTicks(f, v) ==
  IF Kind[f] = "opt" /\ v = Null THEN Nullopt
  ELSE IF Kind[f] = "narrow" THEN v % NarrowMod ELSE v

(* setter_fn_t: static_cast<U> keeps the low bits, NULL resets an optional, *)
(* from_time_t gives the beginning of the second.                           *)
Setter(f, v) ==
  IF Kind[f] = "opt" /\ v = Null THEN Nullopt
  ELSE IF Kind[f] = "narrow" THEN v % NarrowMod
  ELSE IF Kind[f] = "time" THEN v * Ticks ELSE v

(* sqlite3_column_int64, _double, _text and _blob turn a NULL into a zero.  *)
ColumnRead(cell) == IF cell = Null THEN 0 ELSE cell

(* bind_db_val binds nothing for db_null_type: the fresh statement's        *)
(* parameter keeps its initial NULL.  An empty vector has no data(), and    *)
(* sqlite3_bind_blob64 takes a null pointer for NULL.                       *)
Unbound == Null
BindDbVal(f, v) ==
  IF v = Null \/ (Kind[f] = "blob" /\ v = 0) THEN Unbound ELSE v

(* A member before the entity's constructor is given anything else.         *)
InitialMember(f) ==
  IF Kind[f] = "key" THEN -1 ELSE IF Kind[f] = "opt" THEN Nullopt ELSE 0
=============================================================================
