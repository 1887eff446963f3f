------------------------------- MODULE Cursor -------------------------------
(***************************************************************************)
(* Statements and the iterators over their results: sqlitepp::statement    *)
(* (statement.h, statement.cpp), result_iterator (result_iterator.cpp) and *)
(* the range-for iterator stl_for_each_iterator (result_iterator.h).       *)
(*                                                                         *)
(* A statement owns an sqlite3_stmt and finalizes it.  An iterator only    *)
(* borrows it, steps it, and resets it when the iterator is destroyed, so  *)
(* the iterators of one statement, and its execute(), share one position.  *)
(*                                                                         *)
(* One thread.  Destroying a statement, or assigning to it, while one of   *)
(* its iterators is alive leaves that iterator dangling: the library       *)
(* documents no such use and the guards exclude it.                        *)
(***************************************************************************)
EXTENDS Integers, FiniteSets

CONSTANTS
  Statement,  \* statement objects
  Iterator,   \* result_iterator and stl_for_each_iterator objects
  Handle,     \* bound: the sqlite3_stmt addresses in use together
  MaxRows,    \* bound: the rows of a result
  MaxRuns,    \* bound: the runs of a statement in its lifetime
  Sharing,    \* whether programs open a statement that is being read
  None        \* a null pointer, an object that does not exist

ASSUME CursorAssumption ==
  /\ MaxRows \in Nat
  /\ MaxRuns \in Nat
  /\ Sharing \subseteq BOOLEAN
  /\ None \notin Handle

(***************************************************************************)
(* An sqlite3_stmt: not allocated, reset and ready to run, on a row of its *)
(* result, or halted, after the last row or an error.  A halted one begins *)
(* anew at the next step, but it cannot be bound before it is reset.       *)
(***************************************************************************)
Position ==
  [state : {"free", "ready", "row", "halted"}, row : 0 .. MaxRows,
   len : 0 .. MaxRows]

At(state) == [state |-> state, row |-> 0, len |-> 0]

(* row: what stl_for_each_iterator copied.  The last three are history.     *)
IteratorObject ==
  [handle : Handle \cup {None}, hasRow : BOOLEAN, ranged : BOOLEAN,
   row : 0 .. MaxRows,
   got : 0 .. MaxRows + 1,  \* rows that next() announced in this run
   born : 0 .. MaxRuns,     \* the runs of the handle before this iterator
   failed : BOOLEAN]        \* the last next() threw

ASSUME NoneAssumption == None \notin IteratorObject

VARIABLES
  share,  \* whether this program does
  owned,  \* owned[s]: statement::m_handle, None also if s does not exist
  cursor, \* cursor[h]: the state of the sqlite3_stmt at h
  runs,   \* history: how often the statement at h was begun
  iter    \* iter[i]: an iterator object, or None

vars == <<share, owned, cursor, runs, iter>>

TypeOK ==
  /\ share \in Sharing
  /\ owned \in [Statement -> Handle \cup {None}]
  /\ cursor \in [Handle -> Position]
  /\ runs \in [Handle -> 0 .. MaxRuns]
  /\ iter \in [Iterator -> IteratorObject \cup {None}]

Init ==
  /\ share \in Sharing
  /\ owned = [s \in Statement |-> None]
  /\ cursor = [h \in Handle |-> At("free")]
  /\ runs = [h \in Handle |-> 0]
  /\ iter = [i \in Iterator |-> None]

Alive(i) == iter[i] # None
On(i, h) == Alive(i) /\ iter[i].handle = h
Unread(h) == \A i \in Iterator : ~On(i, h)

-----------------------------------------------------------------------------
(* sqlite3_step: advance on the row, or begin a run with some result.       *)

Begins(h) == cursor[h].state # "row"

Row(k, len) ==
  IF k <= len THEN [state |-> "row", row |-> k, len |-> len] ELSE At("halted")

Steps(h) ==
  IF Begins(h) THEN {Row(1, len) : len \in 0 .. MaxRows}
  ELSE {Row(cursor[h].row + 1, cursor[h].len)}

RunsAfter(h) == IF Begins(h) THEN runs[h] + 1 ELSE runs[h]

CanStep(h) == RunsAfter(h) <= MaxRuns

-----------------------------------------------------------------------------
(* statement                                                                *)

(* A constructor that throws leaves nothing behind, so it is no action.     *)
Prepare(s, h) ==
  /\ owned[s] = None
  /\ cursor[h].state = "free"
  /\ owned' = [owned EXCEPT ![s] = h]
  /\ cursor' = [cursor EXCEPT ![h] = At("ready")]
  /\ runs' = [runs EXCEPT ![h] = 0]
  /\ UNCHANGED iter

(* sqlite3_finalize, which accepts the handle of no statement.              *)
Finalized(h) ==
  IF h = None THEN cursor ELSE [cursor EXCEPT ![h] = At("free")]

(* A move that leaves the handle with its source, too.                      *)
HandoverShared(t, s) == [owned EXCEPT ![t] = owned[s]]

(* The handle goes from one object to another.                              *)
Handover(t, s) == [owned EXCEPT ![t] = owned[s], ![s] = None]

MoveConstruct(t, s) ==
  /\ t # s
  /\ owned[t] = None
  /\ owned[s] # None
  /\ owned' = Handover(t, s)
  /\ UNCHANGED <<cursor, runs, iter>>

(* t = std::move(s).  For t = s the handle is finalized and forgotten.      *)
MoveAssign(t, s) ==
  /\ owned[t] # None
  /\ Unread(owned[t])
  /\ cursor' = Finalized(owned[t])
  /\ owned' = Handover(t, s)
  /\ UNCHANGED <<runs, iter>>

DestroyStatement(s) ==
  /\ owned[s] # None
  /\ Unread(owned[s])
  /\ cursor' = Finalized(owned[s])
  /\ owned' = [owned EXCEPT ![s] = None]
  /\ UNCHANGED <<runs, iter>>

(* bind() throws unless the statement has been reset since its last step.   *)
BindAccepts(h) == cursor[h].state = "ready"

(* A destructor that forgets to reset.                                      *)
ReleasedLater(h) == cursor

(* sqlite3_reset, by the destructor of an iterator that still has a handle. *)
Released(h) ==
  IF h = None THEN cursor ELSE [cursor EXCEPT ![h] = At("ready")]

MayRead(h) == h # None /\ (share \/ Unread(h))

(* execute(): iterator(), next() and the destructor.  When next() throws    *)
(* the destructor runs as well: a statement that fails is left the same.    *)
Execute(s) ==
  /\ MayRead(owned[s])
  /\ CanStep(owned[s])
  /\ runs' = [runs EXCEPT ![owned[s]] = RunsAfter(owned[s])]
  /\ cursor' = Released(owned[s])
  /\ UNCHANGED <<owned, iter>>

-----------------------------------------------------------------------------
(* result_iterator                                                          *)

(* A constructor that leaves m_has_row indeterminate.                       *)
NewIteratorUnset(h) ==
  [handle |-> h, hasRow |-> None, ranged |-> FALSE, row |-> 0, got |-> 0,
   born |-> runs[h], failed |-> FALSE]

NewIterator(h) ==
  [handle |-> h, hasRow |-> FALSE, ranged |-> FALSE, row |-> 0, got |-> 0,
   born |-> runs[h], failed |-> FALSE]

Open(s, i) ==
  /\ ~Alive(i)
  /\ MayRead(owned[s])
  /\ iter' = [iter EXCEPT ![i] = NewIterator(owned[s])]
  /\ UNCHANGED <<owned, cursor, runs>>

(* A next() that takes SQLITE_DONE for a row.                               *)
HasRowOrDone(c) == c.state # "ready"

(* m_has_row after a step that left the handle at position c.               *)
HasRow(c) == c.state = "row"

Count(got, hasRow) ==
  IF ~hasRow THEN 0 ELSE IF got <= MaxRows THEN got + 1 ELSE got

(* An iterator object after its next() left the handle at position c.       *)
Stepped(it, c) ==
  [it EXCEPT !.hasRow = HasRow(c),
             !.row = IF it.ranged THEN c.row ELSE 0,
             !.got = Count(it.got, HasRow(c)),
             !.failed = FALSE]

StepHandle(h, c) ==
  /\ CanStep(h)
  /\ runs' = [runs EXCEPT ![h] = RunsAfter(h)]
  /\ cursor' = [cursor EXCEPT ![h] = c]

(* On a moved-from iterator next() throws and changes nothing.              *)
NextRow(i) ==
  /\ Alive(i) /\ ~iter[i].ranged
  /\ iter[i].handle # None
  /\ \E c \in Steps(iter[i].handle) :
       /\ StepHandle(iter[i].handle, c)
       /\ iter' = [iter EXCEPT ![i] = Stepped(@, c)]
  /\ UNCHANGED owned

(* next() throws before it assigns m_has_row.  A retry begins a new run.    *)
NextRowThrows(i) ==
  /\ Alive(i) /\ ~iter[i].ranged
  /\ iter[i].handle # None
  /\ StepHandle(iter[i].handle, At("halted"))
  /\ iter' = [iter EXCEPT ![i].failed = TRUE, ![i].got = 0]
  /\ UNCHANGED owned

(* A move that leaves the handle with its source, too.                      *)
MovedFromShared(it) == it

(* The moved-from iterator keeps its m_has_row.                             *)
MovedFrom(it) == [it EXCEPT !.handle = None]

MoveIterator(j, i) ==
  /\ ~Alive(j)
  /\ Alive(i) /\ ~iter[i].ranged
  /\ iter' = [iter EXCEPT ![j] = iter[i], ![i] = MovedFrom(iter[i])]
  /\ UNCHANGED <<owned, cursor, runs>>

Close(i) ==
  /\ Alive(i)
  /\ cursor' = Released(iter[i].handle)
  /\ iter' = [iter EXCEPT ![i] = None]
  /\ UNCHANGED <<owned, runs>>

-----------------------------------------------------------------------------
(* for(auto& row : stmt.iterate<Types...>()) { body }                       *)

(* begin(): an iterator that is stepped and read once.                      *)
RangeBegin(s, i) ==
  /\ ~Alive(i)
  /\ MayRead(owned[s])
  /\ \E c \in Steps(owned[s]) :
       /\ StepHandle(owned[s], c)
       /\ iter' = [iter EXCEPT ![i] =
            Stepped([NewIterator(owned[s]) EXCEPT !.ranged = TRUE], c)]
  /\ UNCHANGED owned

(* begin() throws in its constructor's body: m_result is destroyed again.   *)
RangeBeginThrows(s) == Execute(s)

(* A comparison that only asks whether the iterator is end().               *)
NotEndUnchecked(i) == iter[i].handle # None

(* operator!= with end(), which has no handle.                              *)
NotEnd(i) == iter[i].handle # None /\ iter[i].hasRow

RangeNext(i) ==
  /\ Alive(i) /\ iter[i].ranged
  /\ NotEnd(i)
  /\ \E c \in Steps(iter[i].handle) :
       /\ StepHandle(iter[i].handle, c)
       /\ iter' = [iter EXCEPT ![i] = Stepped(@, c)]
  /\ UNCHANGED owned

(* ++ throws: the exception leaves the loop, which destroys its iterator.   *)
RangeNextThrows(i) ==
  /\ Alive(i) /\ iter[i].ranged
  /\ NotEnd(i)
  /\ CanStep(iter[i].handle)
  /\ runs' = [runs EXCEPT ![iter[i].handle] = RunsAfter(iter[i].handle)]
  /\ cursor' = Released(iter[i].handle)
  /\ iter' = [iter EXCEPT ![i] = None]
  /\ UNCHANGED owned

(* The loop is over, or its body leaves it (then Close happens earlier).    *)
RangeEnd(i) ==
  /\ Alive(i) /\ iter[i].ranged
  /\ ~NotEnd(i)
  /\ Close(i)

-----------------------------------------------------------------------------
StatementStep(s) ==
  \/ \E h \in Handle : Prepare(s, h)
  \/ \E t \in Statement : MoveConstruct(t, s) \/ MoveAssign(t, s)
  \/ DestroyStatement(s)
  \/ Execute(s)
  \/ \E i \in Iterator : Open(s, i) \/ RangeBegin(s, i)
  \/ RangeBeginThrows(s)

IteratorStep(i) ==
  \/ NextRow(i)
  \/ NextRowThrows(i)
  \/ \E j \in Iterator : MoveIterator(j, i)
  \/ Close(i)
  \/ RangeNext(i)
  \/ RangeNextThrows(i)
  \/ RangeEnd(i)

Next ==
  /\ \/ \E s \in Statement : StatementStep(s)
     \/ \E i \in Iterator : IteratorStep(i)
  /\ UNCHANGED share

Spec == Init /\ [][Next]_vars

(* A thread in a range-for loop keeps going round it until it ends.         *)
RangeStep(i) ==
  (RangeNext(i) \/ RangeNextThrows(i) \/ RangeEnd(i)) /\ UNCHANGED share
FairSpec == Spec /\ \A i \in Iterator : WF_vars(RangeStep(i))

-----------------------------------------------------------------------------
(* Every sqlite3_stmt that was prepared and not finalized belongs to one    *)
(* statement, through all moves and assignments: none leaks and none is     *)
(* finalized twice.  No iterator is left on a handle that nobody owns.      *)
OwnedOnce ==
  /\ \A s, t \in Statement : owned[s] # None /\ owned[s] = owned[t] => s = t
  /\ \A h \in Handle :
       /\ cursor[h].state # "free" <=> \E s \in Statement : owned[s] = h
       /\ cursor[h].state = "free" => Unread(h)

(* A statement that nobody iterates over has been reset, however the last   *)
(* iteration ended (at the end, early, by an exception): bind() accepts     *)
(* parameters, the next run begins at the first row, and no read            *)
(* transaction is held open.                                                *)
IdleWhenUnread ==
  \A s \in Statement : owned[s] # None /\ Unread(owned[s]) => BindAccepts(owned[s])

(* While done() is false the columns read are those of the row that the     *)
(* last next() announced, and the rows come in order from the first one, if *)
(* no other iterator steps the statement.  After a next() that threw,       *)
(* done() still tells of the row before it, but the statement is on no row: *)
(* nothing of the row before is read as if it were new, and a retried       *)
(* next() begins again at the first row.                                    *)
ReadsInOrder(i) ==
  LET it == iter[i]
      c == cursor[it.handle]
  IN  IF it.hasRow /\ ~it.failed
      THEN /\ c.state = "row" /\ c.row = it.got
           /\ it.ranged => it.row = it.got
      ELSE c.state # "row"

InOrder ==
  ~share => \A i \in Iterator :
    Alive(i) /\ iter[i].handle # None => ReadsInOrder(i)

(* A range-for loop runs its statement once, although the step after the    *)
(* last row would begin it anew: an INSERT ... RETURNING inserts once.      *)
RangeRunsOnce ==
  ~share => \A i \in Iterator : Alive(i) /\ iter[i].ranged =>
    runs[iter[i].handle] = iter[i].born + 1

(* A range-for loop over a statement that nobody else steps comes to its    *)
(* end.                                                                     *)
Looping(i) == Alive(i) /\ iter[i].ranged
RangeForEnds == \A i \in Iterator : ~share /\ Looping(i) ~> ~Looping(i)
=============================================================================
