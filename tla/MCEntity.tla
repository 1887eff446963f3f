------------------------------ MODULE MCEntity ------------------------------
(* Instances of Entity for TLC: the classes whose entities are checked.     *)
EXTENDS EntityRefinement, TLC

(* class_info of a class with a row_id() field and an optional field *)
KeyOptFields == {"id", "opt"}
KeyOptKind == [id |-> "key", opt |-> "opt"]

(* with a row_id() field and a plain field *)
KeyWideFields == {"id", "a"}
KeyWideKind == [id |-> "key", a |-> "wide"]

(* with a row_id() field and a blob field *)
KeyBlobFields == {"id", "a"}
KeyBlobKind == [id |-> "key", a |-> "blob"]

(* no key attribute (a hidden _rowid_), a point in time and a narrow field *)
HiddenFields == {"t", "n"}
HiddenKind == [t |-> "time", n |-> "narrow"]

(* no key attribute, one optional field *)
OptFields == {"opt"}
OptKind == [opt |-> "opt"]

(* a primary_key() field that the program assigns, and a plain field *)
PkFieldsOf == {"id", "a"}
PkKind == [id |-> "pk", a |-> "wide"]

Rowids == 1 .. 3
RowidsOfAny == {-1} \cup 1 .. 3
SignedRowids == -1 .. 2
SignedValues == {-1, 1}

EntitySymmetry == Permutations(Entity)
=============================================================================
