---------------------------- MODULE EntityPromise ----------------------------
(***************************************************************************)
(* What entities promise a program that gives each row one entity at a     *)
(* time: an object stands for a record or for none, save() writes its      *)
(* members to that record and to no other, remove() ends the record,       *)
(* reset() brings back what was last read or saved (a point in time to the *)
(* second), and a call that throws has done nothing.  There are no rowids  *)
(* here, no key members and no snapshot: a record has an identity that is  *)
(* never used again.                                                       *)
(***************************************************************************)
EXTENDS FieldCodec

CONSTANTS
  Entity,         \* the objects that can be alive together
  MemberValue(_), \* the values assigned to the member of a field
  CellValue,      \* the values SQL writes to a column
  None            \* for an object that was neither read nor saved

VARIABLES
  alive,    \* the objects that exist
  bound,    \* bound[e]: the identity of the record of e, 0 for none
  members,  \* members[e]: the data members of e
  base,     \* base[e]: what is kept of the members last read or saved
  records,  \* the records: their identities and contents
  issued    \* the identities given out so far: 1 .. issued

vars == <<alive, bound, members, base, records, issued>>

Data == Field \ KeyFields

InitialMembers == [f \in Data |-> InitialMember(f)]
Written(m) == [f \in Data |-> BindDbVal(f, Getter(f, m[f]))]
Kept(m) ==
  [f \in Data |-> IF Kind[f] = "time" THEN Seconds(m[f]) * Ticks ELSE m[f]]
ReadBack(c) == [f \in Data |-> Setter(f, ColumnRead(c[f]))]

HasObject(id) == \E e \in alive : bound[e] = id
Others(id) == {p \in records : p.id # id}

Init ==
  /\ alive = {}
  /\ bound = [e \in Entity |-> 0]
  /\ members = [e \in Entity |-> InitialMembers]
  /\ base = [e \in Entity |-> None]
  /\ records = {}
  /\ issued = 0

New(e) ==
  /\ e \notin alive
  /\ alive' = alive \cup {e}
  /\ UNCHANGED <<bound, members, base, records, issued>>

Forget(e) ==
  /\ e \in alive
  /\ alive' = alive \ {e}
  /\ bound' = [bound EXCEPT ![e] = 0]
  /\ members' = [members EXCEPT ![e] = InitialMembers]
  /\ base' = [base EXCEPT ![e] = None]
  /\ UNCHANGED <<records, issued>>

Assign(e, f, x) ==
  /\ e \in alive
  /\ members' = [members EXCEPT ![e][f] = x]
  /\ UNCHANGED <<alive, bound, base, records, issued>>

Restore(e) ==
  /\ e \in alive
  /\ base[e] # None
  /\ members' = [members EXCEPT ![e] = base[e]]
  /\ UNCHANGED <<alive, bound, base, records, issued>>

Insert(e) ==
  /\ e \in alive
  /\ bound[e] = 0
  /\ issued' = issued + 1
  /\ bound' = [bound EXCEPT ![e] = issued + 1]
  /\ base' = [base EXCEPT ![e] = Kept(members[e])]
  /\ records' =
       records \cup {[id |-> issued + 1, content |-> Written(members[e])]}
  /\ UNCHANGED <<alive, members>>

Update(e) ==
  /\ e \in alive
  /\ bound[e] # 0
  /\ base' = [base EXCEPT ![e] = Kept(members[e])]
  /\ records' = Others(bound[e])
       \cup {[id |-> bound[e], content |-> Written(members[e])]}
  /\ UNCHANGED <<alive, bound, members, issued>>

Remove(e) ==
  /\ e \in alive
  /\ bound[e] # 0
  /\ bound' = [bound EXCEPT ![e] = 0]
  /\ records' = Others(bound[e])
  /\ UNCHANGED <<alive, members, base, issued>>

(* Each object of E is made from the record h[e].                           *)
Load(E, h) ==
  /\ E \cap alive = {}
  /\ \A e \in E : ~HasObject(h[e].id)
  /\ \A d, e \in E : h[d].id = h[e].id => d = e
  /\ alive' = alive \cup E
  /\ bound' = [e \in Entity |-> IF e \in E THEN h[e].id ELSE bound[e]]
  /\ members' = [e \in Entity |->
       IF e \in E THEN ReadBack(h[e].content) ELSE members[e]]
  /\ base' = [e \in Entity |->
       IF e \in E THEN ReadBack(h[e].content) ELSE base[e]]
  /\ UNCHANGED <<records, issued>>

(* Statements that do not go through an object.                             *)
RemoveRecords(P) ==
  /\ \A p \in P : ~HasObject(p.id)
  /\ records' = records \ P
  /\ UNCHANGED <<alive, bound, members, base, issued>>

Rewrite(p, f, v) ==
  /\ ~HasObject(p.id)
  /\ records' = Others(p.id) \cup {[p EXCEPT !.content[f] = v]}
  /\ UNCHANGED <<alive, bound, members, base, issued>>

ObjectStep(e) ==
  \/ New(e)
  \/ Forget(e)
  \/ \E f \in Data : \E x \in MemberValue(f) : Assign(e, f, x)
  \/ Restore(e)
  \/ Insert(e)
  \/ Update(e)
  \/ Remove(e)

StatementStep ==
  \/ \E E \in SUBSET Entity : \E h \in [E -> records] : Load(E, h)
  \/ \E P \in SUBSET records : RemoveRecords(P)
  \/ \E p \in records : \E f \in Data : \E v \in CellValue : Rewrite(p, f, v)

Next == (\E e \in Entity : ObjectStep(e)) \/ StatementStep

Spec == Init /\ [][Next]_vars
=============================================================================
