-------------------------- MODULE EntityRefinement --------------------------
(***************************************************************************)
(* How the entities of module Entity implement those of EntityPromise: the *)
(* record of a stored entity is the row with its _rowid_, the identity of  *)
(* a record is the tag of its row, and what reset() brings back is what    *)
(* the setters make of m_db_vals.                                          *)
(***************************************************************************)
EXTENDS Entity

ASSUME RefinementAssumption == None \notin [Field \ KeyFields -> Member]

DataOf(m) == [f \in Field \ KeyFields |-> m[f]]

boundOf == [e \in Entity |-> IF rowid[e] >= 0 THEN origin[e] ELSE 0]
membersOf == [e \in Entity |-> DataOf(mem[e])]
baseOf ==
  [e \in Entity |->
    IF vals[e] = None THEN None
    ELSE [f \in Field \ KeyFields |-> Setter(f, vals[e][f])]]
RecordAt(r) == [id |-> rows[r].tag, content |-> DataOf(rows[r].cells)]
recordsOf == {RecordAt(r) : r \in Occupied}

Promise == INSTANCE EntityPromise WITH
  CellValue <- Value \cup {Null},
  alive <- live,
  bound <- boundOf,
  members <- membersOf,
  base <- baseOf,
  records <- recordsOf,
  issued <- nextTag

(* As long as each row has one entity at a time and no UPDATE fails, the    *)
(* program cannot tell entities from the objects of EntityPromise: however  *)
(* rowids are reused, whatever key members and snapshots hold and whichever *)
(* calls throw, an object keeps to its own record.                          *)
KeepsPromise == Promise!Spec
=============================================================================
