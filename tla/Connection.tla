----------------------------- MODULE Connection -----------------------------
(***************************************************************************)
(* The life of an sqlite3 connection: sqlitepp::database opens and closes  *)
(* it, executes SQL on it, with a callback for the rows, and interrupts it *)
(* (database.cpp); statements keep it alive (statement.cpp) and iterators  *)
(* keep it busy (result_iterator.cpp).                                     *)
(*                                                                         *)
(* sqlite3_exec holds the connection's mutex, which is recursive, while    *)
(* the callback runs.  An exception of the callback passes through it: its *)
(* statement stays, on its row, and the mutex stays locked.  sqlite3_close *)
(* _v2 frees a connection when its last statement is finalized.  An        *)
(* interrupt takes no mutex: it ends a call that is running on another     *)
(* thread, and holds on until a call begins while no statement is on a row.*)
(*                                                                         *)
(* The program destroys no database that a thread is in a call of, and     *)
(* makes no statement from one that is destroyed.                          *)
(***************************************************************************)
EXTENDS Integers, Sequences

CONSTANTS
  Thread, Database, Statement,
  Conn,     \* bound: the sqlite3 objects of a behaviour that exist together
  MaxDepth, \* bound: calls of exec inside callbacks of exec
  Careful,  \* whether callbacks of exec neither throw nor use another database
  None      \* no connection, no thread, an object that does not exist

ASSUME ConnectionAssumption ==
  /\ MaxDepth \in Nat
  /\ Careful \subseteq BOOLEAN
  /\ None \notin Conn \cup Thread

StatementObject == [conn : Conn, reading : BOOLEAN, onRow : BOOLEAN]

ASSUME NoneAssumption == None \notin StatementObject

VARIABLES
  careful,     \* whether this program's do
  state,       \* state[c]: of the sqlite3 object, "lost" when nobody has it
  handle,      \* handle[d]: database::m_handle, None for no object
  stmt,        \* stmt[s]: a statement; is an iterator alive, is it on a row
  frames,      \* frames[t]: the connections whose exec runs a callback on t
  leaked,      \* leaked[c]: a callback threw, and the statement is still there
  owner,       \* owner[c]: the thread that holds the mutex
  interrupted, \* interrupted[c]: sqlite3_interrupt was called
  over,        \* history: nobody has used c at some time since it was
  wants,       \* wants[t]: the connection whose mutex t is waiting for
  outcome      \* how the last call ended

objects == <<state, handle, stmt>>
locks == <<frames, leaked, owner>>
vars == <<careful, objects, locks, interrupted, over, wants, outcome>>

Nowhere == <<>>
Frames(t) == {frames[t][i] : i \in DOMAIN frames[t]}

TypeOK ==
  /\ careful \in Careful
  /\ state \in [Conn -> {"free", "open", "zombie", "lost"}]
  /\ handle \in [Database -> Conn \cup {None}]
  /\ stmt \in [Statement -> StatementObject \cup {None}]
  /\ frames \in [Thread -> Seq(Conn)]
  /\ \A t \in Thread : Len(frames[t]) <= MaxDepth
  /\ leaked \in [Conn -> BOOLEAN]
  /\ owner \in [Conn -> Thread \cup {None}]
  /\ interrupted \in [Conn -> BOOLEAN]
  /\ over \in [Conn -> BOOLEAN]
  /\ wants \in [Thread -> Conn \cup {None}]
  /\ outcome \in {"ok", "threw", "interrupted", "struck", "waits"}

Init ==
  /\ careful \in Careful
  /\ state = [c \in Conn |-> "free"]
  /\ handle = [d \in Database |-> None]
  /\ stmt = [s \in Statement |-> None]
  /\ frames = [t \in Thread |-> Nowhere]
  /\ leaked = [c \in Conn |-> FALSE]
  /\ owner = [c \in Conn |-> None]
  /\ interrupted = [c \in Conn |-> FALSE]
  /\ over = [c \in Conn |-> TRUE]
  /\ wants = [t \in Thread |-> None]
  /\ outcome = "ok"

Has(s, c) == stmt[s] # None /\ stmt[s].conn = c

-----------------------------------------------------------------------------
(* The mutex of a connection                                                *)

(* A mutex that its owner cannot lock again.                                *)
CanEnterOnce(t, c) == owner[c] = None

(* SQLITE_OPEN_FULLMUTEX: the mutex is recursive.                           *)
CanEnter(t, c) == owner[c] \in {None, t}

(* Careful callbacks use no other connection than the one of their exec.    *)
MayCall(t, c) ==
  /\ wants[t] \in {None, c}
  /\ careful => Frames(t) \subseteq {c}

(* Thread t makes a call into connection c, when it has the mutex.          *)
Calls(t, c) ==
  /\ MayCall(t, c)
  /\ CanEnter(t, c)
  /\ wants' = [wants EXCEPT ![t] = None]

Waits(t, c) ==
  /\ state[c] \in {"open", "zombie"}
  /\ wants[t] = None
  /\ MayCall(t, c)
  /\ ~CanEnter(t, c)
  /\ wants' = [wants EXCEPT ![t] = c]
  /\ outcome' = "waits"
  /\ UNCHANGED <<objects, locks, interrupted>>

-----------------------------------------------------------------------------
(* Interrupts                                                               *)

(* A statement of c is on a row: an iterator's, or that of an exec.         *)
Busy(c) ==
  \/ leaked[c]
  \/ \E s \in Statement : Has(s, c) /\ stmt[s].onRow
  \/ \E t \in Thread : c \in Frames(t)

(* Preparing or stepping forgets an interrupt when no statement is on a row *)
(* and otherwise obeys it.                                                  *)
Obeys(c) == interrupted[c] /\ Busy(c)
Checks(c) == interrupted' = [interrupted EXCEPT ![c] = Obeys(c)]

(* The call into c ends, by an exception if it obeys an earlier interrupt.  *)
Ends(c) ==
  IF Obeys(c) THEN outcome' = "interrupted" ELSE outcome' \in {"ok", "threw"}

(* The call of t into c is running when another thread interrupts c.        *)
Struck(t, c) ==
  /\ \E u \in Thread \ {t}, d \in Database : wants[u] = None /\ handle[d] = c
  /\ interrupted' = [interrupted EXCEPT ![c] = TRUE]
  /\ outcome' = "struck"

Runs(t, c) ==
  \/ Checks(c) /\ Ends(c)
  \/ Struck(t, c)

(* database::interrupt                                                      *)
Interrupt(t, d) ==
  /\ wants[t] = None
  /\ handle[d] # None
  /\ interrupted' = [interrupted EXCEPT ![handle[d]] = TRUE]
  /\ outcome' = "ok"
  /\ UNCHANGED <<objects, locks, wants>>

-----------------------------------------------------------------------------
(* database                                                                 *)

Open(t, d, c) ==
  /\ wants[t] = None
  /\ handle[d] = None
  /\ state[c] = "free"
  /\ handle' = [handle EXCEPT ![d] = c]
  /\ state' = [state EXCEPT ![c] = "open"]
  /\ interrupted' = [interrupted EXCEPT ![c] = FALSE]
  /\ outcome' = "ok"
  /\ UNCHANGED <<stmt, locks, wants>>

(* The version check throws before anything is opened.                      *)
OpenRefused(t, d) ==
  /\ wants[t] = None
  /\ handle[d] = None
  /\ outcome' = "threw"
  /\ UNCHANGED <<objects, locks, interrupted, wants>>

(* sqlite3_open_v2 fails and still returns an object.  The constructor      *)
(* throws, so the destructor that would close it does not run.              *)
OpenThrows(t, d, c) ==
  /\ wants[t] = None
  /\ handle[d] = None
  /\ state[c] = "free"
  /\ state' = [state EXCEPT ![c] = "lost"]
  /\ outcome' = "threw"
  /\ UNCHANGED <<handle, stmt, locks, interrupted, wants>>

(* sqlite3_close: it is refused (SQLITE_BUSY) while there are statements,   *)
(* and the object stays open when its database is gone.                     *)
ClosedBusy(c) ==
  IF leaked[c] \/ \E s \in Statement : Has(s, c) THEN "open" ELSE "free"

(* sqlite3_close_v2                                                         *)
Closed(c) ==
  IF leaked[c] \/ \E s \in Statement : Has(s, c) THEN "zombie" ELSE "free"

Close(t, d) ==
  LET c == handle[d] IN
  /\ c # None
  /\ \A u \in Thread : c \notin Frames(u) /\ (u # t => wants[u] # c)
  /\ Calls(t, c)
  /\ handle' = [handle EXCEPT ![d] = None]
  /\ state' = [state EXCEPT ![c] = Closed(c)]
  /\ outcome' = "ok"
  /\ UNCHANGED <<stmt, locks, interrupted>>

(* exec without a callback, or on a query without rows.                     *)
Exec(t, d) ==
  /\ handle[d] # None
  /\ Calls(t, handle[d])
  /\ Runs(t, handle[d])
  /\ UNCHANGED <<objects, locks>>

(* exec reaches a row and calls the callback.                               *)
ExecCallsBack(t, d) ==
  LET c == handle[d] IN
  /\ c # None
  /\ Len(frames[t]) < MaxDepth
  /\ Calls(t, c)
  /\ Checks(c)
  /\ ~Obeys(c)
  /\ frames' = [frames EXCEPT ![t] = Append(@, c)]
  /\ owner' = [owner EXCEPT ![c] = t]
  /\ outcome' = "ok"
  /\ UNCHANGED <<objects, leaked>>

(* The callback that was called last on t returns or throws, and with it    *)
(* its exec.                                                                *)
Callback(t) == frames[t][Len(frames[t])]
Return(t) == frames' = [frames EXCEPT ![t] = SubSeq(@, 1, Len(@) - 1)]

(* The callback has returned for the last row, or the next step fails: exec *)
(* finalizes its statement and leaves the mutex.  (A next row is a stutter.)*)
ExecEnds(t) ==
  LET c == Callback(t) IN
  /\ frames[t] # Nowhere
  /\ wants[t] = None
  /\ Return(t)
  /\ owner' = [owner EXCEPT ![c] =
       IF leaked[c] \/ \E i \in 1 .. Len(frames[t]) - 1 : frames[t][i] = c
       THEN t ELSE None]
  /\ Checks(c)
  /\ Ends(c)
  /\ UNCHANGED <<objects, leaked, wants>>

CallbackThrows(t) ==
  /\ ~careful
  /\ frames[t] # Nowhere
  /\ wants[t] = None
  /\ Return(t)
  /\ leaked' = [leaked EXCEPT ![Callback(t)] = TRUE]
  /\ outcome' = "threw"
  /\ UNCHANGED <<objects, owner, interrupted, wants>>

-----------------------------------------------------------------------------
(* statement and result_iterator (one iterator at a time, see Cursor)       *)

(* A constructor that does not keep what sqlite3_prepare_v2 returns.        *)
NewStatementNull(c) == [conn |-> None, reading |-> FALSE, onRow |-> FALSE]

NewStatement(c) == [conn |-> c, reading |-> FALSE, onRow |-> FALSE]

Prepare(t, s, d) ==
  LET c == handle[d] IN
  /\ stmt[s] = None
  /\ c # None
  /\ Calls(t, c)
  /\ Checks(c)
  /\ ~Obeys(c)
  /\ stmt' = [stmt EXCEPT ![s] = NewStatement(c)]
  /\ outcome' = "ok"
  /\ UNCHANGED <<state, handle, locks>>

PrepareThrows(t, s, d) ==
  LET c == handle[d] IN
  /\ stmt[s] = None
  /\ c # None
  /\ Calls(t, c)
  /\ Runs(t, c)
  /\ outcome' # "ok"
  /\ UNCHANGED <<objects, locks>>

(* next() of an iterator, perhaps a new one.  When the statement is at its  *)
(* end, or fails, it is on no row.                                          *)
StepStatement(t, s) ==
  LET c == stmt[s].conn IN
  /\ stmt[s] # None
  /\ Calls(t, c)
  /\ Runs(t, c)
  /\ \E row \in BOOLEAN :
       /\ row => outcome' = "ok"
       /\ stmt' = [stmt EXCEPT ![s] =
            [conn |-> c, reading |-> TRUE, onRow |-> row]]
  /\ UNCHANGED <<state, handle, locks>>

(* A destructor that leaves the statement where it is.                      *)
ReleasedOnRow(s) == [stmt EXCEPT ![s].reading = FALSE]

(* ~result_iterator resets the statement: it is as if just prepared.        *)
Released(s) == [stmt EXCEPT ![s] = NewStatement(stmt[s].conn)]

Release(t, s) ==
  /\ stmt[s] # None
  /\ stmt[s].reading
  /\ Calls(t, stmt[s].conn)
  /\ stmt' = Released(s)
  /\ outcome' = "ok"
  /\ UNCHANGED <<state, handle, locks, interrupted>>

(* ~statement; a zombie goes with its last statement.                       *)
Finalize(t, s) ==
  LET c == stmt[s].conn IN
  /\ stmt[s] # None
  /\ ~stmt[s].reading
  /\ Calls(t, c)
  /\ stmt' = [stmt EXCEPT ![s] = None]
  /\ state' = [state EXCEPT ![c] =
       IF @ = "zombie" /\ ~leaked[c] /\ (\A r \in Statement \ {s} : ~Has(r, c))
       THEN "free" ELSE @]
  /\ outcome' = "ok"
  /\ UNCHANGED <<handle, locks, interrupted>>

-----------------------------------------------------------------------------
DatabaseStep(t, d) ==
  \/ \E c \in Conn : Open(t, d, c) \/ OpenThrows(t, d, c)
  \/ OpenRefused(t, d)
  \/ Close(t, d)
  \/ Exec(t, d)
  \/ ExecCallsBack(t, d)
  \/ Interrupt(t, d)

StatementStep(t, s) ==
  \/ \E d \in Database : Prepare(t, s, d) \/ PrepareThrows(t, s, d)
  \/ StepStatement(t, s)
  \/ Release(t, s)
  \/ Finalize(t, s)

ThreadStep(t) ==
  \/ \E d \in Database : DatabaseStep(t, d)
  \/ \E s \in Statement : StatementStep(t, s)
  \/ \E c \in Conn : Waits(t, c)
  \/ ExecEnds(t)
  \/ CallbackThrows(t)

(* A thread uses c in a loop or a callback; what leaked stays in use.       *)
InUse(c) ==
  \/ leaked[c]
  \/ \E s \in Statement : Has(s, c) /\ stmt[s].reading
  \/ \E t \in Thread : c \in Frames(t)

Ages ==
  over' = [c \in Conn |->
    ~interrupted'[c] \/ ~InUse(c)' \/ (interrupted[c] /\ over[c])]

Next == (\E t \in Thread : ThreadStep(t)) /\ Ages /\ UNCHANGED careful

Spec == Init /\ [][Next]_vars

(* Results are finite and callbacks return: an exec on level n that gets to *)
(* go on again and again comes to its end.                                  *)
EndsOnLevel(t, n) ==
  Len(frames[t]) = n /\ ExecEnds(t) /\ Ages /\ UNCHANGED careful
FairSpec ==
  Spec /\ \A t \in Thread : \A n \in 1 .. MaxDepth : SF_vars(EndsOnLevel(t, n))

-----------------------------------------------------------------------------
(* A connection lives as long as somebody can use it and no longer: it      *)
(* belongs to one database, or it is what a database left behind for its    *)
(* statements.  Lost ones are those of a failed open, and those on which a  *)
(* callback threw, whose statement nobody can finalize.                     *)
ConnectionsAreKept ==
  \A c \in Conn :
    LET databases == {d \in Database : handle[d] = c}
        kept == leaked[c] \/ \E s \in Statement : Has(s, c)
    IN  /\ state[c] = "open" <=> databases # {}
        /\ \A d, e \in databases : d = e
        /\ state[c] = "zombie" => kept
        /\ state[c] \in {"free", "lost"} => ~kept

(* What a call into c is: exec, prepare, next, or going on with an exec.    *)
CallInto(c) ==
  \E t \in Thread :
    \/ \E d \in Database :
         /\ handle[d] = c
         /\ Exec(t, d) \/ \E s \in Statement : PrepareThrows(t, s, d)
    \/ \E s \in Statement : Has(s, c) /\ StepStatement(t, s)
    \/ frames[t] # Nowhere /\ Callback(t) = c /\ ExecEnds(t)

(* An interrupt is for the loops, callbacks and calls it finds: as soon as  *)
(* they have all ended once, no later call into the connection is ended by  *)
(* it, whatever has been begun since (but what leaked never ends).  A call  *)
(* that runs while the interrupt comes is ended all the same.               *)
InterruptsPass ==
  [][\A c \in Conn : outcome' = "interrupted" /\ CallInto(c) => ~over[c]]_vars

(* If callbacks are careful, a thread that waits for a connection waits for *)
(* a thread that does not wait itself: threads never wait in a circle, and  *)
(* none waits for what it holds.                                            *)
NoDeadlock ==
  careful => \A t \in Thread : wants[t] # None /\ owner[wants[t]] # None =>
    wants[owner[wants[t]]] = None

(* The mutex of a connection is then not held for ever.                     *)
MutexIsReleased ==
  \A c \in Conn : careful /\ owner[c] # None ~> owner[c] = None
=============================================================================
