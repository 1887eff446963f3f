---------------------------- MODULE CursorProofs ----------------------------
(***************************************************************************)
(* Proofs about statements and iterators, for any number of them, however  *)
(* the program shares a statement between its iterators.                   *)
(***************************************************************************)
EXTENDS Cursor, TLAPS

-----------------------------------------------------------------------------
(* Types.                                                                   *)

LEMMA AtType ==
  ASSUME NEW state \in {"free", "ready", "row", "halted"}
  PROVE  At(state) \in Position
BY CursorAssumption DEF At, Position

LEMMA StepsType ==
  ASSUME TypeOK, NEW h \in Handle, NEW c \in Steps(h)
  PROVE  c \in Position /\ c.state \in {"row", "halted"}
<1>1. PICK k \in Nat \ {0}, len \in 0 .. MaxRows : c = Row(k, len)
  <2>1. CASE Begins(h)
    BY <2>1 DEF Steps
  <2>2. CASE ~Begins(h)
    <3>1. cursor[h] \in Position
      BY DEF TypeOK
    <3>2. cursor[h].row + 1 \in Nat \ {0} /\ cursor[h].len \in 0 .. MaxRows
      BY <3>1, CursorAssumption DEF Position
    <3>3. c = Row(cursor[h].row + 1, cursor[h].len)
      BY <2>2 DEF Steps
    <3>4. QED
      BY <3>2, <3>3
  <2>3. QED
    BY <2>1, <2>2
<1>2. CASE k <= len
  <2>1. c = [state |-> "row", row |-> k, len |-> len]
    BY <1>1, <1>2 DEF Row
  <2>2. k \in 0 .. MaxRows
    BY <1>2, CursorAssumption
  <2>3. QED
    BY <2>1, <2>2 DEF Position
<1>3. CASE ~(k <= len)
  <2>1. c = At("halted")
    BY <1>1, <1>3 DEF Row
  <2>2. QED
    BY <2>1, AtType DEF At
<1>4. QED
  BY <1>2, <1>3

LEMMA RunsType ==
  ASSUME TypeOK, NEW h \in Handle, CanStep(h)
  PROVE  RunsAfter(h) \in 0 .. MaxRuns
<1>1. runs[h] \in 0 .. MaxRuns
  BY DEF TypeOK
<1>2. QED
  BY <1>1, CursorAssumption DEF CanStep, RunsAfter

LEMMA NewIteratorType ==
  ASSUME TypeOK, NEW h \in Handle
  PROVE  NewIterator(h) \in IteratorObject
<1>1. runs[h] \in 0 .. MaxRuns
  BY DEF TypeOK
<1>2. QED
  BY <1>1, CursorAssumption DEF NewIterator, IteratorObject

LEMMA SteppedType ==
  ASSUME NEW it \in IteratorObject, NEW c \in Position
  PROVE  /\ Stepped(it, c) \in IteratorObject
         /\ Stepped(it, c).handle = it.handle
<1>1. HasRow(c) \in BOOLEAN
  BY DEF HasRow
<1>2. Count(it.got, HasRow(c)) \in 0 .. MaxRows + 1
  BY CursorAssumption DEF Count, IteratorObject
<1>3. (IF it.ranged THEN c.row ELSE 0) \in 0 .. MaxRows
  BY CursorAssumption DEF Position
<1>4. QED
  BY <1>1, <1>2, <1>3 DEF Stepped, IteratorObject

LEMMA FinalizedType ==
  ASSUME TypeOK, NEW h \in Handle \cup {None}
  PROVE  Finalized(h) \in [Handle -> Position] /\ Released(h) \in [Handle -> Position]
BY AtType DEF Finalized, Released, TypeOK

LEMMA TypeInit == Init => TypeOK
BY AtType, CursorAssumption DEF Init, TypeOK

LEMMA TypeStep ==
  ASSUME TypeOK, [Next]_vars
  PROVE  TypeOK'
<1>0. share' \in Sharing
  BY DEF TypeOK, Next, vars
<1>1. ASSUME NEW s \in Statement, NEW h \in Handle, Prepare(s, h)
      PROVE  TypeOK'
  BY <1>0, <1>1, AtType, CursorAssumption DEF Prepare, TypeOK
<1>2. ASSUME NEW s \in Statement, NEW t \in Statement,
             MoveConstruct(t, s) \/ MoveAssign(t, s)
      PROVE  TypeOK'
  <2>1. Handover(t, s) \in [Statement -> Handle \cup {None}]
    BY DEF Handover, TypeOK
  <2>2. owned[t] \in Handle \cup {None}
    BY DEF TypeOK
  <2>3. QED
    BY <1>0, <1>2, <2>1, <2>2, FinalizedType DEF MoveConstruct, MoveAssign, TypeOK
<1>3. ASSUME NEW s \in Statement, DestroyStatement(s)
      PROVE  TypeOK'
  <2>1. owned[s] \in Handle \cup {None}
    BY DEF TypeOK
  <2>2. QED
    BY <1>0, <1>3, <2>1, FinalizedType DEF DestroyStatement, TypeOK
<1>4. ASSUME NEW s \in Statement, Execute(s)
      PROVE  TypeOK'
  <2>1. owned[s] \in Handle
    BY <1>4 DEF Execute, MayRead, TypeOK
  <2>2. RunsAfter(owned[s]) \in 0 .. MaxRuns
    BY <1>4, <2>1, RunsType DEF Execute
  <2>3. QED
    BY <1>0, <1>4, <2>1, <2>2, FinalizedType DEF Execute, TypeOK
<1>5. ASSUME NEW s \in Statement, NEW i \in Iterator, Open(s, i)
      PROVE  TypeOK'
  <2>1. owned[s] \in Handle
    BY <1>5 DEF Open, MayRead, TypeOK
  <2>2. QED
    BY <1>0, <1>5, <2>1, NewIteratorType DEF Open, TypeOK
<1>6. ASSUME NEW s \in Statement, NEW i \in Iterator, RangeBegin(s, i)
      PROVE  TypeOK'
  <2>1. owned[s] \in Handle
    BY <1>6 DEF RangeBegin, MayRead, TypeOK
  <2>2. PICK c \in Steps(owned[s]) :
          /\ StepHandle(owned[s], c)
          /\ iter' = [iter EXCEPT ![i] =
               Stepped([NewIterator(owned[s]) EXCEPT !.ranged = TRUE], c)]
    BY <1>6 DEF RangeBegin
  <2>3. c \in Position /\ RunsAfter(owned[s]) \in 0 .. MaxRuns
    BY <2>1, <2>2, StepsType, RunsType DEF StepHandle
  <2>4. NewIterator(owned[s]) \in IteratorObject
    BY <2>1, NewIteratorType
  <2>5. [NewIterator(owned[s]) EXCEPT !.ranged = TRUE] \in IteratorObject
    BY <2>4 DEF IteratorObject
  <2>6. iter' \in [Iterator -> IteratorObject \cup {None}]
    BY <2>2, <2>3, <2>5, SteppedType DEF TypeOK
  <2>7. QED
    BY <1>0, <1>6, <2>1, <2>2, <2>3, <2>6 DEF RangeBegin, StepHandle, TypeOK
<1>7. ASSUME NEW i \in Iterator, NextRow(i) \/ RangeNext(i)
      PROVE  TypeOK'
  <2>1. iter[i] \in IteratorObject /\ iter[i].handle # None
    BY <1>7 DEF NextRow, RangeNext, NotEnd, Alive, TypeOK
  <2>2. iter[i].handle \in Handle
    BY <2>1 DEF IteratorObject
  <2>3. PICK c \in Steps(iter[i].handle) :
          /\ StepHandle(iter[i].handle, c)
          /\ iter' = [iter EXCEPT ![i] = Stepped(iter[i], c)]
    BY <1>7 DEF NextRow, RangeNext
  <2>4. c \in Position /\ RunsAfter(iter[i].handle) \in 0 .. MaxRuns
    BY <2>2, <2>3, StepsType, RunsType DEF StepHandle
  <2>5. iter' \in [Iterator -> IteratorObject \cup {None}]
    BY <2>1, <2>3, <2>4, SteppedType DEF TypeOK
  <2>6. owned' = owned
    BY <1>7 DEF NextRow, RangeNext
  <2>7. QED
    BY <1>0, <2>2, <2>3, <2>4, <2>5, <2>6 DEF StepHandle, TypeOK
<1>8. ASSUME NEW i \in Iterator, NextRowThrows(i)
      PROVE  TypeOK'
  <2>1. iter[i] \in IteratorObject /\ iter[i].handle # None
    BY <1>8 DEF NextRowThrows, Alive, TypeOK
  <2>2. iter[i].handle \in Handle
    BY <2>1 DEF IteratorObject
  <2>3. [iter[i] EXCEPT !.failed = TRUE, !.got = 0] \in IteratorObject
    <3>1. 0 \in 0 .. MaxRows + 1
      BY CursorAssumption
    <3>2. QED
      BY <2>1, <3>1 DEF IteratorObject
  <2>4. iter' = [iter EXCEPT ![i] = [iter[i] EXCEPT !.failed = TRUE, !.got = 0]]
    BY <1>8, <2>1 DEF NextRowThrows, TypeOK
  <2>5. RunsAfter(iter[i].handle) \in 0 .. MaxRuns
    BY <1>8, <2>2, RunsType DEF NextRowThrows, StepHandle
  <2>6. QED
    BY <1>0, <1>8, <2>2, <2>3, <2>4, <2>5, AtType DEF NextRowThrows, StepHandle, TypeOK
<1>9. ASSUME NEW i \in Iterator, NEW j \in Iterator, MoveIterator(j, i)
      PROVE  TypeOK'
  <2>1. iter[i] \in IteratorObject
    BY <1>9 DEF MoveIterator, Alive, TypeOK
  <2>2. MovedFrom(iter[i]) \in IteratorObject
    BY <2>1 DEF MovedFrom, IteratorObject
  <2>3. QED
    BY <1>0, <1>9, <2>1, <2>2 DEF MoveIterator, TypeOK
<1>10. ASSUME NEW i \in Iterator, Close(i)
       PROVE  TypeOK'
  <2>1. iter[i] \in IteratorObject
    BY <1>10 DEF Close, Alive, TypeOK
  <2>2. iter[i].handle \in Handle \cup {None}
    BY <2>1 DEF IteratorObject
  <2>3. QED
    BY <1>0, <1>10, <2>2, FinalizedType DEF Close, TypeOK
<1>11. ASSUME NEW i \in Iterator, RangeNextThrows(i)
       PROVE  TypeOK'
  <2>1. iter[i] \in IteratorObject /\ iter[i].handle # None
    BY <1>11 DEF RangeNextThrows, NotEnd, Alive, TypeOK
  <2>2. iter[i].handle \in Handle
    BY <2>1 DEF IteratorObject
  <2>3. RunsAfter(iter[i].handle) \in 0 .. MaxRuns
    BY <1>11, <2>2, RunsType DEF RangeNextThrows
  <2>4. QED
    BY <1>0, <1>11, <2>2, <2>3, FinalizedType DEF RangeNextThrows, TypeOK
<1>12. CASE UNCHANGED vars
  BY <1>0, <1>12 DEF vars, TypeOK
<1>13. QED
  BY <1>1, <1>2, <1>3, <1>4, <1>5, <1>6, <1>7, <1>8, <1>9, <1>10, <1>11, <1>12
     DEF Next, StatementStep, IteratorStep, RangeBeginThrows, RangeEnd

(* The objects and the positions keep their types.                          *)
THEOREM TypeCorrect == Spec => []TypeOK
BY TypeInit, TypeStep, PTL DEF Spec

-----------------------------------------------------------------------------
(* Ownership and resets.  IdleWhenUnread speaks of statements; for the      *)
(* induction the same is said of handles.                                   *)
BusyIsRead ==
  \A h \in Handle : Unread(h) => cursor[h].state \in {"free", "ready"}

CursorInv == TypeOK /\ OwnedOnce /\ BusyIsRead

LEMMA CursorInvInit == Init => CursorInv
<1>1. SUFFICES ASSUME Init PROVE OwnedOnce /\ BusyIsRead
  BY TypeInit DEF CursorInv
<1>2. \A h \in Handle : cursor[h].state = "free" /\ Unread(h)
  BY <1>1 DEF Init, At, Unread, On, Alive
<1>3. \A s \in Statement : owned[s] = None /\ None \notin Handle
  BY <1>1, CursorAssumption DEF Init
<1>4. QED
  BY <1>2, <1>3 DEF OwnedOnce, BusyIsRead

(* What finalizing and resetting do to the positions.                       *)
LEMMA FinalizedState ==
  ASSUME TypeOK, NEW h \in Handle \cup {None}, NEW g \in Handle
  PROVE  /\ Finalized(h)[g].state = IF g = h THEN "free" ELSE cursor[g].state
         /\ Released(h)[g].state = IF g = h THEN "ready" ELSE cursor[g].state
BY CursorAssumption DEF Finalized, Released, TypeOK, At

(* An owned handle is allocated; a handle that an iterator is on, too.      *)
LEMMA Allocated ==
  ASSUME CursorInv
  PROVE  /\ \A s \in Statement : owned[s] # None =>
              owned[s] \in Handle /\ cursor[owned[s]].state # "free"
         /\ \A i \in Iterator : Alive(i) /\ iter[i].handle # None =>
              iter[i].handle \in Handle /\ cursor[iter[i].handle].state # "free"
<1>1. \A s \in Statement : owned[s] # None =>
        owned[s] \in Handle /\ cursor[owned[s]].state # "free"
  BY DEF CursorInv, TypeOK, OwnedOnce
<1>2. ASSUME NEW i \in Iterator, Alive(i), iter[i].handle # None
      PROVE  iter[i].handle \in Handle /\ cursor[iter[i].handle].state # "free"
  <2>1. iter[i] \in IteratorObject
    BY <1>2 DEF CursorInv, TypeOK, Alive
  <2>2. iter[i].handle \in Handle
    BY <1>2, <2>1 DEF IteratorObject
  <2>3. QED
    BY <1>2, <2>2 DEF CursorInv, OwnedOnce, Unread, On
<1>3. QED
  BY <1>1, <1>2

(* Steps that give and take no handle, and leave every iterator where it is *)
(* or, after a reset, gone from its handle.                                 *)
LEMMA SameOwners ==
  ASSUME CursorInv, owned' = owned,
         \A h \in Handle :
           /\ cursor'[h].state = "free" <=> cursor[h].state = "free"
           /\ cursor[h].state = "free" /\ Unread(h) => Unread(h)'
           /\ Unread(h)' => \/ cursor'[h].state = "ready"
                            \/ Unread(h) /\ cursor'[h].state = cursor[h].state
  PROVE  OwnedOnce' /\ BusyIsRead'
<1>1. OwnedOnce'
  BY DEF CursorInv, OwnedOnce
<1>2. BusyIsRead'
  BY DEF CursorInv, BusyIsRead
<1>3. QED
  BY <1>1, <1>2

LEMMA StepState ==
  ASSUME TypeOK, NEW h \in Handle, NEW c, StepHandle(h, c),
         c.state # "free", cursor[h].state # "free"
  PROVE  \A g \in Handle :
           /\ cursor'[g].state = "free" <=> cursor[g].state = "free"
           /\ g # h => cursor'[g].state = cursor[g].state
BY DEF StepHandle, TypeOK

LEMMA CursorInvStep == CursorInv /\ [Next]_vars => CursorInv'
<1> SUFFICES ASSUME CursorInv, [Next]_vars
             PROVE  OwnedOnce' /\ BusyIsRead'
  BY TypeStep DEF CursorInv
<1>0. TypeOK
  BY DEF CursorInv
<1>1. ASSUME NEW s \in Statement, NEW h \in Handle, Prepare(s, h)
      PROVE  OwnedOnce' /\ BusyIsRead'
  <2>1. /\ owned[s] = None /\ cursor[h].state = "free"
        /\ owned'[s] = h /\ \A t \in Statement \ {s} : owned'[t] = owned[t]
        /\ cursor'[h].state = "ready"
        /\ \A g \in Handle \ {h} : cursor'[g] = cursor[g]
    BY <1>0, <1>1 DEF Prepare, TypeOK, At
  <2>2. \A g \in Handle : Unread(g)' <=> Unread(g)
    BY <1>1 DEF Prepare, Unread, On, Alive
  <2>3. \A t \in Statement : owned[t] # h
    BY <2>1 DEF CursorInv, OwnedOnce
  <2>4. ASSUME NEW g \in Handle
        PROVE  cursor'[g].state # "free" <=> \E t \in Statement : owned'[t] = g
    <3>1. CASE g = h
      BY <2>1, <3>1
    <3>2. CASE g # h
      <4>1. cursor[g].state # "free" <=> \E t \in Statement : owned[t] = g
        BY DEF CursorInv, OwnedOnce
      <4>2. (\E t \in Statement : owned[t] = g) <=> \E t \in Statement : owned'[t] = g
        <5>1. owned[s] # g /\ owned'[s] # g
          BY <2>1, <3>2, CursorAssumption
        <5>2. QED
          BY <2>1, <5>1
      <4>3. QED
        BY <2>1, <3>2, <4>1, <4>2
    <3>3. QED
      BY <3>1, <3>2
  <2>5. \A t, u \in Statement : owned'[t] # None /\ owned'[t] = owned'[u] => t = u
    BY <2>1, <2>3 DEF CursorInv, OwnedOnce
  <2>6. \A g \in Handle : cursor'[g].state = "free" => Unread(g)'
    BY <2>1, <2>2 DEF CursorInv, OwnedOnce
  <2>7. BusyIsRead'
    BY <2>1, <2>2 DEF CursorInv, BusyIsRead
  <2>8. QED
    BY <2>4, <2>5, <2>6, <2>7 DEF OwnedOnce
<1>2. ASSUME NEW s \in Statement, NEW t \in Statement, MoveConstruct(t, s)
      PROVE  OwnedOnce' /\ BusyIsRead'
  <2>1. /\ t # s /\ owned[t] = None /\ owned'[t] = owned[s] /\ owned'[s] = None
        /\ \A u \in Statement \ {s, t} : owned'[u] = owned[u]
        /\ cursor' = cursor
    BY <1>0, <1>2 DEF MoveConstruct, Handover, TypeOK
  <2>2. \A g \in Handle : Unread(g)' <=> Unread(g)
    BY <1>2 DEF MoveConstruct, Unread, On, Alive
  <2>3. \A u, w \in Statement : owned'[u] # None /\ owned'[u] = owned'[w] => u = w
    BY <2>1 DEF CursorInv, OwnedOnce
  <2>4. \A g \in Handle : (\E u \in Statement : owned'[u] = g)
                            <=> \E u \in Statement : owned[u] = g
    <3>1. \A g \in Handle : g # None
      BY CursorAssumption
    <3>2. ASSUME NEW g \in Handle, NEW u \in Statement, owned'[u] = g
          PROVE  \E w \in Statement : owned[w] = g
      BY <2>1, <3>1, <3>2
    <3>3. ASSUME NEW g \in Handle, NEW u \in Statement, owned[u] = g
          PROVE  \E w \in Statement : owned'[w] = g
      <4>1. CASE u = s
        BY <2>1, <3>3, <4>1
      <4>2. CASE u # s
        BY <2>1, <3>1, <3>3, <4>2
      <4>3. QED
        BY <4>1, <4>2
    <3>4. QED
      BY <3>2, <3>3
  <2>5. BusyIsRead'
    BY <2>1, <2>2 DEF CursorInv, BusyIsRead
  <2>6. QED
    BY <2>1, <2>2, <2>3, <2>4, <2>5 DEF CursorInv, OwnedOnce
<1>3. ASSUME NEW s \in Statement, NEW t \in Statement, MoveAssign(t, s)
      PROVE  OwnedOnce' /\ BusyIsRead'
  <2>1. /\ owned[t] \in Handle /\ Unread(owned[t])
        /\ owned'[s] = None /\ (t # s => owned'[t] = owned[s])
        /\ \A u \in Statement \ {s, t} : owned'[u] = owned[u]
        /\ cursor' = Finalized(owned[t])
    BY <1>0, <1>3 DEF MoveAssign, Handover, TypeOK
  <2>2. \A g \in Handle : Unread(g)' <=> Unread(g)
    BY <1>3 DEF MoveAssign, Unread, On, Alive
  <2>3. \A g \in Handle :
          cursor'[g].state = IF g = owned[t] THEN "free" ELSE cursor[g].state
    BY <1>0, <2>1, FinalizedState
  <2>4. \A u, w \in Statement : owned'[u] # None /\ owned'[u] = owned'[w] => u = w
    BY <2>1 DEF CursorInv, OwnedOnce
  <2>5. \A g \in Handle : (\E u \in Statement : owned'[u] = g)
                            <=> g # owned[t] /\ \E u \in Statement : owned[u] = g
    BY <2>1, CursorAssumption DEF CursorInv, OwnedOnce
  <2>6. BusyIsRead'
    BY <2>2, <2>3 DEF CursorInv, BusyIsRead
  <2>7. QED
    BY <2>1, <2>2, <2>3, <2>4, <2>5, <2>6 DEF CursorInv, OwnedOnce
<1>4. ASSUME NEW s \in Statement, DestroyStatement(s)
      PROVE  OwnedOnce' /\ BusyIsRead'
  <2>1. /\ owned[s] \in Handle /\ Unread(owned[s]) /\ owned'[s] = None
        /\ \A u \in Statement \ {s} : owned'[u] = owned[u]
        /\ cursor' = Finalized(owned[s])
    BY <1>0, <1>4 DEF DestroyStatement, TypeOK
  <2>2. \A g \in Handle : Unread(g)' <=> Unread(g)
    BY <1>4 DEF DestroyStatement, Unread, On, Alive
  <2>3. \A g \in Handle :
          cursor'[g].state = IF g = owned[s] THEN "free" ELSE cursor[g].state
    BY <1>0, <2>1, FinalizedState
  <2>4. \A u, w \in Statement : owned'[u] # None /\ owned'[u] = owned'[w] => u = w
    BY <2>1 DEF CursorInv, OwnedOnce
  <2>5. \A g \in Handle : (\E u \in Statement : owned'[u] = g)
                            <=> g # owned[s] /\ \E u \in Statement : owned[u] = g
    BY <2>1, CursorAssumption DEF CursorInv, OwnedOnce
  <2>6. BusyIsRead'
    BY <2>2, <2>3 DEF CursorInv, BusyIsRead
  <2>7. QED
    BY <2>1, <2>2, <2>3, <2>4, <2>5, <2>6 DEF CursorInv, OwnedOnce
<1>5. ASSUME NEW s \in Statement, Execute(s)
      PROVE  OwnedOnce' /\ BusyIsRead'
  <2>1. owned[s] \in Handle /\ cursor[owned[s]].state # "free"
    BY <1>5, Allocated DEF Execute, MayRead
  <2>2. \A g \in Handle :
          cursor'[g].state = IF g = owned[s] THEN "ready" ELSE cursor[g].state
    BY <1>0, <1>5, <2>1, FinalizedState DEF Execute
  <2>3. \A g \in Handle : Unread(g)' <=> Unread(g)
    BY <1>5 DEF Execute, Unread, On, Alive
  <2>4. owned' = owned
    BY <1>5 DEF Execute
  <2>5. QED
    BY <2>1, <2>2, <2>3, <2>4, SameOwners
<1>6. ASSUME NEW s \in Statement, NEW i \in Iterator, Open(s, i)
      PROVE  OwnedOnce' /\ BusyIsRead'
  <2>1. /\ owned[s] \in Handle /\ cursor[owned[s]].state # "free"
        /\ owned' = owned /\ cursor' = cursor
    BY <1>6, Allocated DEF Open, MayRead
  <2>2. iter'[i].handle = owned[s] /\ \A j \in Iterator \ {i} : iter'[j] = iter[j]
    BY <1>0, <1>6 DEF Open, NewIterator, TypeOK
  <2>3. \A g \in Handle : g # owned[s] => (Unread(g) => Unread(g)')
    BY <1>6, <2>2 DEF Open, Unread, On, Alive
  <2>4. \A g \in Handle : Unread(g)' => Unread(g)
    BY <1>6, <2>2 DEF Open, Unread, On, Alive
  <2>5. QED
    BY <2>1, <2>3, <2>4, SameOwners
<1>7. ASSUME NEW s \in Statement, NEW i \in Iterator, RangeBegin(s, i)
      PROVE  OwnedOnce' /\ BusyIsRead'
  <2>1. owned[s] \in Handle /\ cursor[owned[s]].state # "free" /\ owned' = owned
    BY <1>7, Allocated DEF RangeBegin, MayRead
  <2>2. PICK c \in Steps(owned[s]) :
          /\ StepHandle(owned[s], c)
          /\ iter' = [iter EXCEPT ![i] =
               Stepped([NewIterator(owned[s]) EXCEPT !.ranged = TRUE], c)]
    BY <1>7 DEF RangeBegin
  <2>3. c \in Position /\ c.state # "free"
    BY <1>0, <2>1, StepsType
  <2>4. \A g \in Handle :
          /\ cursor'[g].state = "free" <=> cursor[g].state = "free"
          /\ g # owned[s] => cursor'[g].state = cursor[g].state
    BY <1>0, <2>1, <2>2, <2>3, StepState
  <2>5. iter'[i].handle = owned[s] /\ iter'[i] # None
    <3>1. NewIterator(owned[s]) \in IteratorObject
      BY <1>0, <2>1, NewIteratorType
    <3>2. /\ [NewIterator(owned[s]) EXCEPT !.ranged = TRUE] \in IteratorObject
          /\ [NewIterator(owned[s]) EXCEPT !.ranged = TRUE].handle = owned[s]
      BY <3>1 DEF IteratorObject, NewIterator
    <3>3. QED
      BY <1>0, <2>2, <2>3, <3>2, SteppedType, NoneAssumption DEF TypeOK
  <2>6. ~Alive(i) /\ \A j \in Iterator \ {i} : iter'[j] = iter[j]
    BY <1>0, <1>7, <2>2 DEF RangeBegin, TypeOK
  <2>7. \A g \in Handle : g # owned[s] => (Unread(g)' <=> Unread(g))
    BY <2>5, <2>6 DEF Unread, On, Alive
  <2>8. ~Unread(owned[s])'
    BY <2>1, <2>5 DEF Unread, On, Alive
  <2>9. QED
    BY <2>1, <2>4, <2>7, <2>8, SameOwners
<1>8. ASSUME NEW i \in Iterator, NextRow(i) \/ RangeNext(i) \/ NextRowThrows(i)
      PROVE  OwnedOnce' /\ BusyIsRead'
  <2>1. /\ iter[i] \in IteratorObject /\ iter[i].handle # None /\ Alive(i)
        /\ owned' = owned
    BY <1>0, <1>8 DEF NextRow, RangeNext, NextRowThrows, NotEnd, Alive, TypeOK
  <2>2. iter[i].handle \in Handle /\ cursor[iter[i].handle].state # "free"
    BY <2>1, Allocated
  <2>3. PICK c \in Steps(iter[i].handle) \cup {At("halted")} :
          /\ StepHandle(iter[i].handle, c)
          /\ iter' \in {[iter EXCEPT ![i] = Stepped(iter[i], c)],
                        [iter EXCEPT ![i] = [iter[i] EXCEPT !.failed = TRUE, !.got = 0]]}
    <3>1. CASE NextRow(i) \/ RangeNext(i)
      BY <3>1 DEF NextRow, RangeNext
    <3>2. CASE NextRowThrows(i)
      <4>1. iter' = [iter EXCEPT ![i] = [iter[i] EXCEPT !.failed = TRUE, !.got = 0]]
        BY <1>0, <2>1, <3>2 DEF NextRowThrows, TypeOK
      <4>2. QED
        BY <3>2, <4>1 DEF NextRowThrows
    <3>3. QED
      BY <1>8, <3>1, <3>2
  <2>4. c \in Position /\ c.state # "free"
    BY <1>0, <2>2, StepsType, AtType DEF At
  <2>5. \A g \in Handle :
          /\ cursor'[g].state = "free" <=> cursor[g].state = "free"
          /\ g # iter[i].handle => cursor'[g].state = cursor[g].state
    BY <1>0, <2>2, <2>3, <2>4, StepState
  <2>6. iter'[i].handle = iter[i].handle /\ iter'[i] # None
    <3>1. /\ Stepped(iter[i], c) \in IteratorObject
          /\ Stepped(iter[i], c).handle = iter[i].handle
      BY <2>1, <2>4, SteppedType
    <3>2. 0 \in 0 .. MaxRows + 1
      BY CursorAssumption
    <3>3. /\ [iter[i] EXCEPT !.failed = TRUE, !.got = 0] \in IteratorObject
          /\ [iter[i] EXCEPT !.failed = TRUE, !.got = 0].handle = iter[i].handle
      BY <2>1, <3>2 DEF IteratorObject
    <3>4. QED
      BY <1>0, <2>3, <3>1, <3>3, NoneAssumption DEF TypeOK
  <2>7. \A j \in Iterator \ {i} : iter'[j] = iter[j]
    BY <1>0, <2>3 DEF TypeOK
  <2>8. \A g \in Handle : Unread(g)' <=> Unread(g)
    BY <2>1, <2>6, <2>7 DEF Unread, On, Alive
  <2>9. ~Unread(iter[i].handle)
    BY <2>1 DEF Unread, On
  <2>10. QED
    BY <2>1, <2>5, <2>8, <2>9, SameOwners
<1>9. ASSUME NEW i \in Iterator, NEW j \in Iterator, MoveIterator(j, i)
      PROVE  OwnedOnce' /\ BusyIsRead'
  <2>1. iter[i] \in IteratorObject /\ i # j /\ ~Alive(j) /\ Alive(i)
    BY <1>0, <1>9 DEF MoveIterator, Alive, TypeOK
  <2>2. MovedFrom(iter[i]) \in IteratorObject /\ MovedFrom(iter[i]).handle = None
    BY <2>1 DEF MovedFrom, IteratorObject
  <2>3. /\ iter'[j] = iter[i] /\ iter'[i] = MovedFrom(iter[i])
        /\ \A k \in Iterator \ {i, j} : iter'[k] = iter[k]
        /\ owned' = owned /\ cursor' = cursor
    BY <1>0, <1>9, <2>1 DEF MoveIterator, TypeOK
  <2>4. \A g \in Handle : g # None
    BY CursorAssumption
  <2>5. \A g \in Handle : Unread(g)' <=> Unread(g)
    BY <2>1, <2>2, <2>3, <2>4 DEF Unread, On, Alive
  <2>6. QED
    BY <2>3, <2>5, SameOwners
<1>10. ASSUME NEW i \in Iterator, Close(i) \/ RangeNextThrows(i)
       PROVE  OwnedOnce' /\ BusyIsRead'
  <2>1. /\ iter[i] \in IteratorObject /\ Alive(i) /\ owned' = owned
        /\ cursor' = Released(iter[i].handle) /\ iter' = [iter EXCEPT ![i] = None]
    BY <1>0, <1>10 DEF Close, RangeNextThrows, Alive, TypeOK
  <2>2. iter[i].handle \in Handle \cup {None}
    BY <2>1 DEF IteratorObject
  <2>3. \A g \in Handle :
          cursor'[g].state = IF g = iter[i].handle THEN "ready" ELSE cursor[g].state
    BY <1>0, <2>1, <2>2, FinalizedState
  <2>4. iter[i].handle \in Handle => cursor[iter[i].handle].state # "free"
    BY <2>1, Allocated, CursorAssumption
  <2>5. \A g \in Handle : g # iter[i].handle => (Unread(g)' <=> Unread(g))
    BY <1>0, <2>1 DEF Unread, On, Alive, TypeOK
  <2>6. QED
    BY <2>1, <2>3, <2>4, <2>5, SameOwners
<1>11. CASE UNCHANGED vars
  <2>1. \A g \in Handle : Unread(g)' <=> Unread(g)
    BY <1>11 DEF vars, Unread, On, Alive
  <2>2. owned' = owned /\ cursor' = cursor
    BY <1>11 DEF vars
  <2>3. QED
    BY <2>1, <2>2, SameOwners
<1>12. QED
  BY <1>1, <1>2, <1>3, <1>4, <1>5, <1>6, <1>7, <1>8, <1>9, <1>10, <1>11
     DEF Next, StatementStep, IteratorStep, RangeBeginThrows, RangeEnd

(* Every sqlite3_stmt is finalized by exactly one statement, through all    *)
(* moves, and no iterator is left on one that nobody owns.                  *)
THEOREM HandlesAreOwnedOnce == Spec => []OwnedOnce
<1>1. CursorInv => OwnedOnce
  BY DEF CursorInv
<1>2. QED
  BY <1>1, CursorInvInit, CursorInvStep, PTL DEF Spec

(* A statement without an iterator accepts parameters, however its last     *)
(* run ended.                                                               *)
THEOREM StatementsAreIdle == Spec => []IdleWhenUnread
<1>1. CursorInv => IdleWhenUnread
  <2>1. SUFFICES ASSUME CursorInv, NEW s \in Statement, owned[s] # None,
                        Unread(owned[s])
                 PROVE  cursor[owned[s]].state = "ready"
    BY DEF IdleWhenUnread, BindAccepts
  <2>2. owned[s] \in Handle /\ cursor[owned[s]].state # "free"
    BY <2>1, Allocated
  <2>3. QED
    BY <2>1, <2>2 DEF CursorInv, BusyIsRead
<1>2. QED
  BY <1>1, CursorInvInit, CursorInvStep, PTL DEF Spec

-----------------------------------------------------------------------------
(* The order of the rows, for a program that does not share statements.     *)

(* Where an iterator believes to be and where its statement is.  After a    *)
(* next() that threw m_has_row says nothing, but the statement is halted.   *)
Reading(i) ==
  /\ iter[i].ranged =>
       /\ iter[i].handle # None /\ ~iter[i].failed
       /\ runs[iter[i].handle] = iter[i].born + 1
  /\ iter[i].handle # None =>
       /\ iter[i].failed \/ ~iter[i].hasRow =>
            iter[i].got = 0 /\ cursor[iter[i].handle].state # "row"
       /\ ~iter[i].failed /\ iter[i].hasRow => ReadsInOrder(i)

OneReader ==
  \A i, j \in Iterator :
    Alive(i) /\ Alive(j) /\ iter[i].handle # None
      /\ iter[i].handle = iter[j].handle => i = j

AllReading == \A i \in Iterator : Alive(i) => Reading(i)

OrderInv == CursorInv /\ (~share => OneReader /\ AllReading)

LEMMA OrderInvInit == Init => OrderInv
BY CursorInvInit DEF Init, OrderInv, OneReader, AllReading, Alive

(* Iterators that stay as they are, on handles that stay where they are.    *)
LEMMA KeepReading ==
  ASSUME AllReading, NEW J \in SUBSET Iterator, NEW h,
         \A j \in J : iter'[j] = iter[j] /\ ~On(j, h),
         \A g \in Handle : g # h => cursor'[g] = cursor[g] /\ runs'[g] = runs[g],
         TypeOK
  PROVE  \A j \in J : Alive(j)' => Reading(j)'
<1>1. SUFFICES ASSUME NEW j \in J, Alive(j)' PROVE Reading(j)'
  OBVIOUS
<1>2. Alive(j) /\ iter'[j] = iter[j] /\ iter[j].handle # h /\ Reading(j)
  BY <1>1 DEF Alive, On, AllReading
<1>3. iter[j] \in IteratorObject
  BY <1>2 DEF Alive, TypeOK
<1>4. CASE iter[j].handle = None
  BY <1>2, <1>4 DEF Reading
<1>5. CASE iter[j].handle # None
  <2>1. iter[j].handle \in Handle
    BY <1>3, <1>5 DEF IteratorObject
  <2>2. /\ cursor'[iter[j].handle] = cursor[iter[j].handle]
        /\ runs'[iter[j].handle] = runs[iter[j].handle]
    BY <1>2, <2>1
  <2>3. QED
    BY <1>2, <2>2 DEF Reading, ReadsInOrder
<1>6. QED
  BY <1>4, <1>5

(* Where a step leads that follows a row, or that begins a run.             *)
LEMMA StepOrder ==
  ASSUME TypeOK, NEW h \in Handle, NEW c \in Steps(h)
  PROVE  /\ c.state = "row" => c.row = IF Begins(h) THEN 1 ELSE cursor[h].row + 1
         /\ c.state \in {"row", "halted"}
<1>1. \A k \in Int, len \in Int :
        /\ Row(k, len).state = "row" => Row(k, len).row = k
        /\ Row(k, len).state \in {"row", "halted"}
  BY DEF Row, At
<1>2. CASE Begins(h)
  BY <1>1, <1>2, CursorAssumption DEF Steps
<1>3. CASE ~Begins(h)
  <2>1. cursor[h].row \in Int /\ cursor[h].len \in Int
    BY CursorAssumption DEF TypeOK, Position
  <2>2. c = Row(cursor[h].row + 1, cursor[h].len)
    BY <1>3 DEF Steps
  <2>3. cursor[h].row + 1 \in Int
    BY <2>1
  <2>4. QED
    BY <1>1, <1>3, <2>1, <2>2, <2>3
<1>4. QED
  BY <1>2, <1>3

(* An iterator object that has been stepped tells where its statement is.   *)
LEMMA SteppedReading ==
  ASSUME NEW it \in IteratorObject, NEW c \in Position,
         c.state = "row" => c.row = it.got + 1,
         c.state \in {"row", "halted"}
  PROVE  /\ Stepped(it, c).hasRow <=> c.state = "row"
         /\ ~Stepped(it, c).failed
         /\ Stepped(it, c).got = IF c.state = "row" THEN c.row ELSE 0
         /\ it.ranged => Stepped(it, c).row = c.row
         /\ Stepped(it, c).ranged = it.ranged
         /\ Stepped(it, c).born = it.born
<1>1. HasRow(c) <=> c.state = "row"
  BY DEF HasRow
<1>2. Count(it.got, HasRow(c)) = IF c.state = "row" THEN c.row ELSE 0
  BY <1>1, CursorAssumption DEF Count, IteratorObject, Position
<1>3. QED
  BY <1>1, <1>2 DEF Stepped, IteratorObject

LEMMA OrderInvStep == OrderInv /\ [Next]_vars => OrderInv'
<1> SUFFICES ASSUME OrderInv, [Next]_vars, ~share
             PROVE  OneReader' /\ AllReading'
  <2>1. ASSUME OrderInv, [Next]_vars PROVE CursorInv' /\ share' = share
    BY <2>1, CursorInvStep DEF OrderInv, Next, vars
  <2>2. QED
    BY <2>1 DEF OrderInv
<1>0. TypeOK /\ CursorInv /\ OneReader /\ AllReading
  BY DEF OrderInv, CursorInv
<1>1. ASSUME NEW s \in Statement, NEW h \in Handle, Prepare(s, h)
      PROVE  OneReader' /\ AllReading'
  <2>1. iter' = iter /\ Unread(h)
    BY <1>0, <1>1 DEF Prepare, CursorInv, OwnedOnce
  <2>2. \A g \in Handle : g # h => cursor'[g] = cursor[g] /\ runs'[g] = runs[g]
    BY <1>0, <1>1 DEF Prepare, TypeOK
  <2>3. \A j \in Iterator : iter'[j] = iter[j] /\ ~On(j, h)
    BY <2>1 DEF Unread
  <2>4. QED
    BY <1>0, <2>1, <2>2, <2>3, KeepReading DEF OneReader, AllReading, Alive
<1>2. ASSUME NEW s \in Statement, NEW t \in Statement, MoveConstruct(t, s)
      PROVE  OneReader' /\ AllReading'
  BY <1>0, <1>2 DEF MoveConstruct, OneReader, AllReading, Alive, Reading, ReadsInOrder
<1>3. ASSUME NEW s \in Statement, NEW t \in Statement,
             MoveAssign(t, s) \/ DestroyStatement(s)
      PROVE  OneReader' /\ AllReading'
  <2>1. PICK h \in Handle :
          Unread(h) /\ cursor' = Finalized(h) /\ iter' = iter /\ runs' = runs
    BY <1>0, <1>3 DEF MoveAssign, DestroyStatement, TypeOK
  <2>2. \A g \in Handle : g # h => cursor'[g] = cursor[g] /\ runs'[g] = runs[g]
    BY <1>0, <2>1 DEF Finalized, TypeOK
  <2>3. \A j \in Iterator : iter'[j] = iter[j] /\ ~On(j, h)
    BY <2>1 DEF Unread
  <2>4. QED
    BY <1>0, <2>1, <2>2, <2>3, KeepReading DEF OneReader, AllReading, Alive
<1>4. ASSUME NEW s \in Statement, Execute(s)
      PROVE  OneReader' /\ AllReading'
  <2>1. owned[s] \in Handle /\ Unread(owned[s])
    BY <1>0, <1>4, Allocated DEF Execute, MayRead
  <2>2. \A g \in Handle :
          g # owned[s] => cursor'[g] = cursor[g] /\ runs'[g] = runs[g]
    BY <1>0, <1>4, <2>1 DEF Execute, Released, TypeOK
  <2>3. \A j \in Iterator : iter'[j] = iter[j] /\ ~On(j, owned[s])
    BY <1>4, <2>1 DEF Execute, Unread
  <2>4. QED
    BY <1>0, <1>4, <2>1, <2>2, <2>3, KeepReading
       DEF Execute, OneReader, AllReading, Alive
<1>5. ASSUME NEW s \in Statement, NEW i \in Iterator, Open(s, i)
      PROVE  OneReader' /\ AllReading'
  <2>1. /\ owned[s] \in Handle /\ Unread(owned[s])
        /\ cursor' = cursor /\ runs' = runs
    BY <1>0, <1>5, Allocated DEF Open, MayRead
  <2>2. iter'[i] = NewIterator(owned[s]) /\ \A j \in Iterator \ {i} : iter'[j] = iter[j]
    BY <1>0, <1>5 DEF Open, TypeOK
  <2>3. \A j \in Iterator \ {i} : Alive(j)' => Reading(j)'
    <3>1. \A j \in Iterator \ {i} : iter'[j] = iter[j] /\ ~On(j, owned[s])
      BY <2>1, <2>2 DEF Unread
    <3>2. QED
      BY <1>0, <2>1, <3>1, KeepReading
  <2>4. Reading(i)'
    <3>1. cursor[owned[s]].state # "row"
      BY <1>0, <2>1 DEF CursorInv, BusyIsRead
    <3>2. QED
      BY <2>1, <2>2, <3>1 DEF Reading, NewIterator
  <2>5. OneReader'
    BY <1>0, <2>1, <2>2 DEF OneReader, NewIterator, Unread, On, Alive
  <2>6. QED
    BY <2>3, <2>4, <2>5 DEF AllReading
<1>6. ASSUME NEW s \in Statement, NEW i \in Iterator, RangeBegin(s, i)
      PROVE  OneReader' /\ AllReading'
  <2> DEFINE h == owned[s]
             new == [NewIterator(h) EXCEPT !.ranged = TRUE]
  <2>1. h \in Handle /\ Unread(h)
    BY <1>0, <1>6, Allocated DEF RangeBegin, MayRead
  <2>2. PICK c \in Steps(h) : StepHandle(h, c) /\ iter' = [iter EXCEPT ![i] = Stepped(new, c)]
    BY <1>6 DEF RangeBegin
  <2>3. Begins(h) /\ runs[h] \in Nat
    BY <1>0, <2>1, CursorAssumption DEF CursorInv, BusyIsRead, Begins, TypeOK
  <2>4. /\ iter'[i] = Stepped(new, c) /\ cursor'[h] = c /\ runs'[h] = runs[h] + 1
        /\ \A j \in Iterator \ {i} : iter'[j] = iter[j]
        /\ \A g \in Handle : g # h => cursor'[g] = cursor[g] /\ runs'[g] = runs[g]
    BY <1>0, <2>1, <2>2, <2>3 DEF StepHandle, RunsAfter, TypeOK
  <2>5. c \in Position /\ c.state \in {"row", "halted"} /\ (c.state = "row" => c.row = 1)
    BY <1>0, <2>1, <2>3, StepsType, StepOrder
  <2>6. /\ new \in IteratorObject /\ new.got = 0 /\ new.ranged
        /\ new.born = runs[h] /\ new.handle = h
    <3>1. NewIterator(h) \in IteratorObject
      BY <1>0, <2>1, NewIteratorType
    <3>2. QED
      BY <3>1 DEF IteratorObject, NewIterator
  <2>7. Stepped(new, c).handle = h
    BY <2>5, <2>6, SteppedType
  <2> HIDE DEF h, new
  <2>8. Reading(i)'
    BY <2>1, <2>4, <2>5, <2>6, <2>7, SteppedReading, CursorAssumption
       DEF Reading, ReadsInOrder
  <2>9. \A j \in Iterator \ {i} : Alive(j)' => Reading(j)'
    <3>1. \A j \in Iterator \ {i} : iter'[j] = iter[j] /\ ~On(j, h)
      BY <2>1, <2>4 DEF Unread
    <3>2. QED
      BY <1>0, <2>4, <3>1, KeepReading
  <2>10. OneReader'
    BY <1>0, <2>1, <2>4, <2>7 DEF OneReader, Unread, On, Alive
  <2>11. QED
    BY <2>8, <2>9, <2>10 DEF AllReading
<1>7. ASSUME NEW i \in Iterator, NextRow(i) \/ RangeNext(i)
      PROVE  OneReader' /\ AllReading'
  <2> DEFINE h == iter[i].handle
  <2>1. iter[i] \in IteratorObject /\ h # None /\ Alive(i) /\ Reading(i)
    BY <1>0, <1>7 DEF NextRow, RangeNext, NotEnd, Alive, AllReading, TypeOK
  <2>2. h \in Handle
    BY <2>1 DEF IteratorObject
  <2>3. PICK c \in Steps(h) : StepHandle(h, c) /\ iter' = [iter EXCEPT ![i] = Stepped(iter[i], c)]
    BY <1>7 DEF NextRow, RangeNext
  <2>4. /\ iter'[i] = Stepped(iter[i], c) /\ cursor'[h] = c /\ runs'[h] = RunsAfter(h)
        /\ \A j \in Iterator \ {i} : iter'[j] = iter[j]
        /\ \A g \in Handle : g # h => cursor'[g] = cursor[g] /\ runs'[g] = runs[g]
    BY <1>0, <2>2, <2>3 DEF StepHandle, TypeOK
  <2>5. /\ c \in Position /\ c.state \in {"row", "halted"}
        /\ c.state = "row" => c.row = iter[i].got + 1
    <3>1. iter[i].got = IF Begins(h) THEN 0 ELSE cursor[h].row
      BY <2>1 DEF Reading, ReadsInOrder, Begins
    <3>2. cursor[h].row \in Nat
      BY <1>0, <2>2, CursorAssumption DEF TypeOK, Position
    <3>3. QED
      BY <1>0, <2>2, <3>1, <3>2, StepsType, StepOrder
  <2>6. Stepped(iter[i], c).handle = h
    BY <2>1, <2>5, SteppedType
  <2>7. iter[i].ranged => runs'[h] = iter[i].born + 1
    <3>1. iter[i].ranged => iter[i].hasRow
      BY <1>7 DEF NextRow, RangeNext, NotEnd
    <3>2. iter[i].ranged => ~Begins(h)
      BY <2>1, <3>1 DEF Reading, ReadsInOrder, Begins
    <3>3. QED
      BY <2>1, <2>4, <3>2 DEF Reading, RunsAfter
  <2> HIDE DEF h
  <2>8. Reading(i)'
    BY <2>1, <2>2, <2>4, <2>5, <2>6, <2>7, SteppedReading
       DEF Reading, ReadsInOrder
  <2>9. \A j \in Iterator \ {i} : Alive(j)' => Reading(j)'
    <3>1. \A j \in Iterator \ {i} : iter'[j] = iter[j] /\ ~On(j, h)
      BY <1>0, <2>1, <2>4 DEF OneReader, On, h
    <3>2. QED
      BY <1>0, <2>4, <3>1, KeepReading
  <2>10. OneReader'
    BY <1>0, <2>1, <2>4, <2>6 DEF OneReader, Alive, h
  <2>11. QED
    BY <2>8, <2>9, <2>10 DEF AllReading
<1>8. ASSUME NEW i \in Iterator, NextRowThrows(i)
      PROVE  OneReader' /\ AllReading'
  <2> DEFINE h == iter[i].handle
             it == [iter[i] EXCEPT !.failed = TRUE, !.got = 0]
  <2>1. iter[i] \in IteratorObject /\ h # None /\ Alive(i) /\ ~iter[i].ranged
    BY <1>0, <1>8 DEF NextRowThrows, Alive, TypeOK
  <2>2. h \in Handle
    BY <2>1 DEF IteratorObject
  <2>3. /\ iter'[i] = it /\ cursor'[h] = At("halted")
        /\ \A j \in Iterator \ {i} : iter'[j] = iter[j]
        /\ \A g \in Handle : g # h => cursor'[g] = cursor[g] /\ runs'[g] = runs[g]
    BY <1>0, <1>8, <2>1, <2>2 DEF NextRowThrows, StepHandle, TypeOK
  <2>4. it.handle = h /\ it.failed /\ it.got = 0 /\ ~it.ranged
    BY <2>1 DEF IteratorObject
  <2> HIDE DEF h, it
  <2>5. Reading(i)'
    BY <2>3, <2>4 DEF Reading, At
  <2>6. \A j \in Iterator \ {i} : Alive(j)' => Reading(j)'
    <3>1. \A j \in Iterator \ {i} : iter'[j] = iter[j] /\ ~On(j, h)
      BY <1>0, <2>1, <2>3 DEF OneReader, On, h
    <3>2. QED
      BY <1>0, <2>3, <3>1, KeepReading
  <2>7. OneReader'
    BY <1>0, <2>1, <2>3, <2>4 DEF OneReader, Alive, h
  <2>8. QED
    BY <2>5, <2>6, <2>7 DEF AllReading
<1>9. ASSUME NEW i \in Iterator, NEW j \in Iterator, MoveIterator(j, i)
      PROVE  OneReader' /\ AllReading'
  <2>1. iter[i] \in IteratorObject /\ i # j /\ ~Alive(j) /\ Alive(i) /\ ~iter[i].ranged
    BY <1>0, <1>9 DEF MoveIterator, Alive, TypeOK
  <2>2. MovedFrom(iter[i]).handle = None /\ ~MovedFrom(iter[i]).ranged
    BY <2>1 DEF MovedFrom, IteratorObject
  <2>3. /\ iter'[j] = iter[i] /\ iter'[i] = MovedFrom(iter[i])
        /\ \A k \in Iterator \ {i, j} : iter'[k] = iter[k]
        /\ cursor' = cursor /\ runs' = runs
    BY <1>0, <1>9, <2>1 DEF MoveIterator, TypeOK
  <2>4. Reading(i)' /\ Reading(j)'
    BY <1>0, <2>1, <2>2, <2>3 DEF AllReading, Reading, ReadsInOrder
  <2>5. \A k \in Iterator \ {i, j} : Alive(k)' => Reading(k)'
    BY <1>0, <2>3 DEF AllReading, Alive, Reading, ReadsInOrder
  <2>6. OneReader'
    BY <1>0, <2>1, <2>2, <2>3 DEF OneReader, Alive
  <2>7. QED
    BY <2>4, <2>5, <2>6 DEF AllReading
<1>10. ASSUME NEW i \in Iterator, Close(i) \/ RangeNextThrows(i)
       PROVE  OneReader' /\ AllReading'
  <2> DEFINE h == iter[i].handle
  <2>1. /\ Alive(i) /\ cursor' = Released(h) /\ iter' = [iter EXCEPT ![i] = None]
        /\ \A g \in Handle : g # h => runs'[g] = runs[g]
    BY <1>0, <1>10 DEF Close, RangeNextThrows, TypeOK
  <2>2. iter'[i] = None /\ \A j \in Iterator \ {i} : iter'[j] = iter[j]
    BY <1>0, <2>1 DEF TypeOK
  <2>3. \A g \in Handle : g # h => cursor'[g] = cursor[g]
    BY <1>0, <2>1 DEF Released, TypeOK
  <2>4. \A j \in Iterator \ {i} : Alive(j)' => Reading(j)'
    <3>1. CASE h = None
      <4>1. cursor' = cursor /\ \A g \in Handle : runs'[g] = runs[g]
        BY <2>1, <3>1, CursorAssumption DEF Released
      <4>2. \A j \in Iterator \ {i} : Alive(j) /\ iter[j].handle # None => iter[j].handle \in Handle
        BY <1>0, Allocated
      <4>3. QED
        BY <1>0, <2>2, <4>1, <4>2 DEF AllReading, Alive, Reading, ReadsInOrder
    <3>2. CASE h # None
      <4>1. \A j \in Iterator \ {i} : iter'[j] = iter[j] /\ ~On(j, h)
        BY <1>0, <2>1, <2>2, <3>2 DEF OneReader, On
      <4>2. \A g \in Handle : g # h => cursor'[g] = cursor[g] /\ runs'[g] = runs[g]
        BY <2>1, <2>3
      <4>3. QED
        <5> HIDE DEF h
        <5> QED BY <1>0, <4>1, <4>2, KeepReading
    <3>3. QED
      BY <3>1, <3>2
  <2>5. OneReader'
    BY <1>0, <2>2 DEF OneReader, Alive
  <2>6. QED
    BY <2>2, <2>4, <2>5 DEF AllReading, Alive
<1>11. CASE UNCHANGED vars
  BY <1>0, <1>11 DEF vars, OneReader, AllReading, Alive, Reading, ReadsInOrder
<1>12. QED
  BY <1>1, <1>2, <1>3, <1>4, <1>5, <1>6, <1>7, <1>8, <1>9, <1>10, <1>11
     DEF Next, StatementStep, IteratorStep, RangeBeginThrows, RangeEnd

(* The columns read are those of the row announced, in the order of the     *)
(* result, for programs that read a statement with one iterator at a time.  *)
THEOREM RowsAreInOrder == Spec => []InOrder
<1>1. OrderInv => InOrder
  BY DEF OrderInv, InOrder, AllReading, Reading, ReadsInOrder
<1>2. QED
  BY <1>1, OrderInvInit, OrderInvStep, PTL DEF Spec

(* A range-for loop of such a program runs its statement once.              *)
THEOREM LoopsRunOnce == Spec => []RangeRunsOnce
<1>1. OrderInv => RangeRunsOnce
  BY DEF OrderInv, RangeRunsOnce, AllReading, Reading
<1>2. QED
  BY <1>1, OrderInvInit, OrderInvStep, PTL DEF Spec
=============================================================================
