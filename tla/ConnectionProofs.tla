-------------------------- MODULE ConnectionProofs --------------------------
(***************************************************************************)
(* Theorems about Connection, for any number of threads, databases,        *)
(* statements and connections.                                             *)
(***************************************************************************)
EXTENDS Connection, TLAPS

USE ConnectionAssumption, NoneAssumption

-----------------------------------------------------------------------------
(* Types                                                                    *)

LEMMA ObeysIsBoolean ==
  ASSUME TypeOK, NEW c \in Conn
  PROVE  Obeys(c) \in BOOLEAN
BY DEF Obeys, TypeOK

LEMMA ChecksType ==
  ASSUME TypeOK, NEW c \in Conn, Checks(c)
  PROVE  interrupted' \in [Conn -> BOOLEAN]
BY ObeysIsBoolean DEF Checks, TypeOK

LEMMA EndsType ==
  ASSUME NEW c, Ends(c)
  PROVE  outcome' \in {"ok", "threw", "interrupted", "struck", "waits"}
BY DEF Ends

LEMMA RunsType ==
  ASSUME TypeOK, NEW t \in Thread, NEW c \in Conn, Runs(t, c)
  PROVE  /\ interrupted' \in [Conn -> BOOLEAN]
         /\ outcome' \in {"ok", "threw", "interrupted", "struck", "waits"}
<1>1. CASE Checks(c) /\ Ends(c)
  BY <1>1, ChecksType, EndsType
<1>2. CASE Struck(t, c)
  BY <1>2 DEF Struck, TypeOK
<1> QED
  BY <1>1, <1>2 DEF Runs

(* A callback that is running belongs to an exec of its thread.             *)
LEMMA CallbackType ==
  ASSUME TypeOK, NEW t \in Thread, frames[t] # Nowhere
  PROVE  /\ Len(frames[t]) \in 1 .. MaxDepth
         /\ Callback(t) \in Conn
         /\ Callback(t) \in Frames(t)
         /\ SubSeq(frames[t], 1, Len(frames[t]) - 1) \in Seq(Conn)
         /\ Len(SubSeq(frames[t], 1, Len(frames[t]) - 1)) = Len(frames[t]) - 1
<1>1. frames[t] \in Seq(Conn) /\ Len(frames[t]) <= MaxDepth
  BY DEF TypeOK
<1>2. Len(frames[t]) \in Nat /\ Len(frames[t]) > 0
  BY <1>1 DEF Nowhere
<1> QED
  BY <1>1, <1>2 DEF Callback, Frames

LEMMA TypeInit == Init => TypeOK
BY DEF Init, TypeOK, Nowhere, StatementObject

LEMMA OverType == Ages => over' \in [Conn -> BOOLEAN]
BY DEF Ages

LEMMA TypeNext == TypeOK /\ [Next]_vars => TypeOK'
<1> SUFFICES ASSUME TypeOK, [Next]_vars PROVE TypeOK'
  OBVIOUS
<1> USE DEF objects, locks
<1>1. CASE UNCHANGED vars
  BY <1>1 DEF TypeOK, vars
<1>2. ASSUME NEW t \in Thread, ThreadStep(t), UNCHANGED careful,
             over' \in [Conn -> BOOLEAN]
      PROVE  TypeOK'
  <2>1. ASSUME NEW d \in Database, NEW c \in Conn, Open(t, d, c) PROVE TypeOK'
    BY <1>2, <2>1 DEF Open, TypeOK
  <2>2. ASSUME NEW d \in Database, NEW c \in Conn, OpenThrows(t, d, c) PROVE TypeOK'
    BY <1>2, <2>2 DEF OpenThrows, TypeOK
  <2>3. ASSUME NEW d \in Database, OpenRefused(t, d) PROVE TypeOK'
    BY <1>2, <2>3 DEF OpenRefused, TypeOK
  <2>4. ASSUME NEW d \in Database, Close(t, d) PROVE TypeOK'
    BY <1>2, <2>4 DEF Close, Calls, Closed, TypeOK
  <2>5. ASSUME NEW d \in Database, Exec(t, d) PROVE TypeOK'
    <3>1. handle[d] \in Conn
      BY <1>2, <2>5 DEF Exec, TypeOK, StatementObject
    <3>2. interrupted' \in [Conn -> BOOLEAN]
      BY <1>2, <2>5, <3>1, RunsType DEF Exec
    <3>3. outcome' \in {"ok", "threw", "interrupted", "struck", "waits"}
      BY <1>2, <2>5, <3>1, RunsType DEF Exec
    <3> QED
      BY <1>2, <2>5, <3>1, <3>2, <3>3 DEF Exec, Calls, TypeOK
  <2>6. ASSUME NEW d \in Database, ExecCallsBack(t, d) PROVE TypeOK'
    <3>1. handle[d] \in Conn
      BY <1>2, <2>6 DEF ExecCallsBack, TypeOK
    <3>2. interrupted' \in [Conn -> BOOLEAN]
      BY <1>2, <2>6, <3>1, ChecksType DEF ExecCallsBack
    <3>3. \A u \in Thread : frames[u] \in Seq(Conn) /\ Len(frames[u]) \in Nat
      BY DEF TypeOK
    <3>4. \A u \in Thread :
            frames'[u] \in Seq(Conn) /\ Len(frames'[u]) <= MaxDepth
      BY <1>2, <2>6, <3>1, <3>3 DEF ExecCallsBack, TypeOK
    <3> QED
      BY <1>2, <2>6, <3>1, <3>2, <3>4 DEF ExecCallsBack, Calls, TypeOK
  <2>7. ASSUME NEW d \in Database, Interrupt(t, d) PROVE TypeOK'
    BY <1>2, <2>7 DEF Interrupt, TypeOK
  <2>8. ASSUME NEW s \in Statement, NEW d \in Database, Prepare(t, s, d) PROVE TypeOK'
    <3>1. handle[d] \in Conn
      BY <1>2, <2>8 DEF Prepare, TypeOK, StatementObject
    <3>2. interrupted' \in [Conn -> BOOLEAN]
      BY <1>2, <2>8, <3>1, ChecksType DEF Prepare
    <3> QED
      BY <1>2, <2>8, <3>1, <3>2 DEF Prepare, Calls, TypeOK, NewStatement, StatementObject
  <2>9. ASSUME NEW s \in Statement, NEW d \in Database, PrepareThrows(t, s, d) PROVE TypeOK'
    <3>1. handle[d] \in Conn
      BY <1>2, <2>9 DEF PrepareThrows, TypeOK, StatementObject
    <3>2. interrupted' \in [Conn -> BOOLEAN]
      BY <1>2, <2>9, <3>1, RunsType DEF PrepareThrows
    <3>3. outcome' \in {"ok", "threw", "interrupted", "struck", "waits"}
      BY <1>2, <2>9, <3>1, RunsType DEF PrepareThrows
    <3> QED
      BY <1>2, <2>9, <3>1, <3>2, <3>3 DEF PrepareThrows, Calls, TypeOK
  <2>10. ASSUME NEW s \in Statement, StepStatement(t, s) PROVE TypeOK'
    <3>1. stmt[s].conn \in Conn
      BY <1>2, <2>10 DEF StepStatement, TypeOK, StatementObject
    <3>2. interrupted' \in [Conn -> BOOLEAN]
      BY <1>2, <2>10, <3>1, RunsType DEF StepStatement
    <3>3. outcome' \in {"ok", "threw", "interrupted", "struck", "waits"}
      BY <1>2, <2>10, <3>1, RunsType DEF StepStatement
    <3> QED
      BY <1>2, <2>10, <3>1, <3>2, <3>3 DEF StepStatement, Calls, TypeOK, StatementObject
  <2>11. ASSUME NEW s \in Statement, Release(t, s) PROVE TypeOK'
    BY <1>2, <2>11 DEF Release, Calls, Released, NewStatement, TypeOK, StatementObject
  <2>12. ASSUME NEW s \in Statement, Finalize(t, s) PROVE TypeOK'
    BY <1>2, <2>12 DEF Finalize, Calls, TypeOK
  <2>13. ASSUME NEW c \in Conn, Waits(t, c) PROVE TypeOK'
    BY <1>2, <2>13 DEF Waits, TypeOK
  <2>14. CASE ExecEnds(t)
    <3>1. Callback(t) \in Conn
      BY <1>2, <2>14, CallbackType DEF ExecEnds
    <3>2. interrupted' \in [Conn -> BOOLEAN]
      BY <1>2, <2>14, <3>1, ChecksType DEF ExecEnds
    <3>3. outcome' \in {"ok", "threw", "interrupted", "struck", "waits"}
      BY <1>2, <2>14, EndsType DEF ExecEnds
    <3>4. \A u \in Thread :
            Len(frames'[u]) <= MaxDepth /\ frames' \in [Thread -> Seq(Conn)]
      BY <1>2, <2>14, CallbackType DEF ExecEnds, Return, TypeOK
    <3> QED
      BY <1>2, <2>14, <3>1, <3>2, <3>3, <3>4 DEF ExecEnds, TypeOK
  <2>15. CASE CallbackThrows(t)
    <3>1. \A u \in Thread :
            Len(frames'[u]) <= MaxDepth /\ frames' \in [Thread -> Seq(Conn)]
      BY <1>2, <2>15, CallbackType DEF CallbackThrows, Return, TypeOK
    <3> QED
      BY <1>2, <2>15, <3>1, CallbackType DEF CallbackThrows, TypeOK
  <2> QED
    BY <1>2, <2>1, <2>2, <2>3, <2>4, <2>5, <2>6, <2>7, <2>8, <2>9, <2>10, <2>11, <2>12, <2>13, <2>14, <2>15
    DEF ThreadStep, DatabaseStep, StatementStep
<1> QED
  BY <1>1, <1>2, OverType DEF Next

(* Every reachable state is well typed: a statement keeps the connection it *)
(* was prepared on, and as many callbacks run as MaxDepth lets nest.        *)
THEOREM TypeCorrect == Spec => []TypeOK
BY TypeInit, TypeNext, PTL DEF Spec

-----------------------------------------------------------------------------
(* Callbacks of exec                                                        *)

LEMMA FramesPushed ==
  ASSUME TypeOK, NEW t \in Thread, NEW c \in Conn,
         frames' = [frames EXCEPT ![t] = Append(@, c)]
  PROVE  \A u \in Thread :
           Frames(u)' = IF u = t THEN Frames(t) \cup {c} ELSE Frames(u)
<1>1. /\ frames[t] \in Seq(Conn)
      /\ Len(frames[t]) \in Nat
      /\ frames'[t] = Append(frames[t], c)
      /\ \A u \in Thread : u # t => frames'[u] = frames[u]
  BY DEF TypeOK
<1>2. /\ DOMAIN Append(frames[t], c) = 1 .. Len(frames[t]) + 1
      /\ DOMAIN frames[t] = 1 .. Len(frames[t])
      /\ \A i \in DOMAIN frames[t] : Append(frames[t], c)[i] = frames[t][i]
      /\ Append(frames[t], c)[Len(frames[t]) + 1] = c
  BY <1>1
<1>3. Frames(t)' = Frames(t) \cup {c}
  <2>1. \A x : x \in Frames(t)' <=>
              \E i \in 1 .. Len(frames[t]) + 1 : Append(frames[t], c)[i] = x
    BY <1>1, <1>2 DEF Frames
  <2>2. \A i \in 1 .. Len(frames[t]) + 1 :
          i \in 1 .. Len(frames[t]) \/ i = Len(frames[t]) + 1
    BY <1>1
  <2>3. Len(frames[t]) + 1 \in 1 .. Len(frames[t]) + 1
        /\ 1 .. Len(frames[t]) \subseteq 1 .. Len(frames[t]) + 1
    BY <1>1
  <2>4. \A x : x \in Frames(t) <=> \E i \in 1 .. Len(frames[t]) : frames[t][i] = x
    BY <1>2 DEF Frames
  <2> QED
    BY <1>2, <2>1, <2>2, <2>3, <2>4
<1> QED
  BY <1>1, <1>3 DEF Frames

LEMMA FramesReturned ==
  ASSUME TypeOK, NEW t \in Thread, frames[t] # Nowhere, Return(t)
  PROVE  /\ \A u \in Thread : u # t => Frames(u)' = Frames(u)
         /\ Frames(t)' = {frames[t][i] : i \in 1 .. Len(frames[t]) - 1}
         /\ Frames(t) = Frames(t)' \cup {Callback(t)}
<1>1. /\ frames[t] \in Seq(Conn)
      /\ Len(frames[t]) \in Nat /\ Len(frames[t]) > 0
      /\ frames'[t] = SubSeq(frames[t], 1, Len(frames[t]) - 1)
      /\ \A u \in Thread : u # t => frames'[u] = frames[u]
  BY CallbackType DEF TypeOK, Return
<1>2. /\ DOMAIN frames[t] = 1 .. Len(frames[t])
      /\ DOMAIN SubSeq(frames[t], 1, Len(frames[t]) - 1)
            = 1 .. Len(frames[t]) - 1
      /\ \A i \in 1 .. Len(frames[t]) - 1 :
           SubSeq(frames[t], 1, Len(frames[t]) - 1)[i] = frames[t][i]
  BY <1>1
<1>3. Frames(t)' = {frames[t][i] : i \in 1 .. Len(frames[t]) - 1}
  BY <1>1, <1>2 DEF Frames
<1>4. \A i : i \in 1 .. Len(frames[t]) <=>
            i \in 1 .. Len(frames[t]) - 1 \/ i = Len(frames[t])
  BY <1>1
<1>5. Frames(t) = Frames(t)' \cup {Callback(t)}
  BY <1>2, <1>3, <1>4 DEF Frames, Callback
<1> QED
  BY <1>1, <1>3, <1>5 DEF Frames

-----------------------------------------------------------------------------
(* The life of connections                                                  *)

(* While a callback runs nobody closes the connection under its exec.       *)
KeptInv ==
  /\ ConnectionsAreKept
  /\ \A t \in Thread : \A c \in Frames(t) : state[c] = "open"

(* A statement that is stepped or released keeps its connection.            *)
LEMMA StatementKept ==
  ASSUME TypeOK, NEW s \in Statement, stmt[s] # None,
         NEW a \in BOOLEAN, NEW b \in BOOLEAN,
         stmt' = [stmt EXCEPT ![s] =
                   [conn |-> stmt[s].conn, reading |-> a, onRow |-> b]]
  PROVE  /\ \A r \in Statement, c \in Conn : Has(r, c)' <=> Has(r, c)
         /\ stmt'[s] # None
         /\ stmt'[s].reading = a
         /\ stmt'[s].onRow = b
         /\ \A r \in Statement : r # s => stmt'[r] = stmt[r]
<1> DEFINE x == [conn |-> stmt[s].conn, reading |-> a, onRow |-> b]
<1>1. stmt[s].conn \in Conn
  BY DEF TypeOK, StatementObject
<1>2. x \in StatementObject
  BY <1>1 DEF StatementObject
<1>3. x # None /\ x.conn = stmt[s].conn /\ x.reading = a /\ x.onRow = b
  BY <1>2
<1>4. stmt'[s] = x /\ \A r \in Statement : r # s => stmt'[r] = stmt[r]
  BY DEF TypeOK
<1> HIDE DEF x
<1> QED
  BY <1>3, <1>4 DEF Has

LEMMA KeptInit == Init => KeptInv
BY DEF Init, KeptInv, ConnectionsAreKept, Has, Frames, Nowhere

LEMMA KeptNext == TypeOK /\ KeptInv /\ [Next]_vars => KeptInv'
<1> SUFFICES ASSUME TypeOK, KeptInv, [Next]_vars PROVE KeptInv'
  OBVIOUS
<1> USE DEF objects, locks
<1>1. CASE UNCHANGED vars
  BY <1>1 DEF KeptInv, ConnectionsAreKept, Has, Frames, vars
<1>2. ASSUME NEW t \in Thread, ThreadStep(t), UNCHANGED careful
      PROVE  KeptInv'
  <2>1. ASSUME NEW d \in Database, NEW c \in Conn, Open(t, d, c) PROVE KeptInv'
    BY <1>2, <2>1 DEF Open, KeptInv, ConnectionsAreKept, Has, Frames, TypeOK
  <2>2. ASSUME NEW d \in Database, NEW c \in Conn, OpenThrows(t, d, c) PROVE KeptInv'
    BY <1>2, <2>2 DEF OpenThrows, KeptInv, ConnectionsAreKept, Has, Frames, TypeOK
  <2>3. ASSUME NEW d \in Database, OpenRefused(t, d) PROVE KeptInv'
    BY <1>2, <2>3 DEF OpenRefused, KeptInv, ConnectionsAreKept, Has, Frames, TypeOK
  <2>4. ASSUME NEW d \in Database, Close(t, d) PROVE KeptInv'
    BY <1>2, <2>4 DEF Close, KeptInv, ConnectionsAreKept, Has, Frames, TypeOK, Closed, Calls
  <2>5. ASSUME NEW d \in Database, Exec(t, d) PROVE KeptInv'
    BY <1>2, <2>5 DEF Exec, KeptInv, ConnectionsAreKept, Has, Frames, TypeOK
  <2>6. ASSUME NEW d \in Database, ExecCallsBack(t, d) PROVE KeptInv'
    <3>1. /\ handle[d] \in Conn
          /\ frames' = [frames EXCEPT ![t] = Append(@, handle[d])]
          /\ UNCHANGED <<objects, leaked>>
      BY <2>6 DEF ExecCallsBack, TypeOK
    <3>2. state[handle[d]] = "open"
      BY <3>1 DEF KeptInv, ConnectionsAreKept
    <3>3. \A u \in Thread :
            Frames(u)' = IF u = t THEN Frames(t) \cup {handle[d]} ELSE Frames(u)
      BY <3>1, FramesPushed
    <3> QED
      BY <1>2, <3>1, <3>2, <3>3 DEF KeptInv, ConnectionsAreKept, Has
  <2>7. ASSUME NEW d \in Database, Interrupt(t, d) PROVE KeptInv'
    BY <1>2, <2>7 DEF Interrupt, KeptInv, ConnectionsAreKept, Has, Frames, TypeOK
  <2>8. ASSUME NEW s \in Statement, NEW d \in Database, Prepare(t, s, d) PROVE KeptInv'
    BY <1>2, <2>8 DEF Prepare, KeptInv, ConnectionsAreKept, Has, Frames, TypeOK, NewStatement
  <2>9. ASSUME NEW s \in Statement, NEW d \in Database, PrepareThrows(t, s, d) PROVE KeptInv'
    BY <1>2, <2>9 DEF PrepareThrows, KeptInv, ConnectionsAreKept, Has, Frames, TypeOK
  <2>10. ASSUME NEW s \in Statement, StepStatement(t, s) PROVE KeptInv'
    <3>1. PICK row \in BOOLEAN :
            stmt' = [stmt EXCEPT ![s] =
                      [conn |-> stmt[s].conn, reading |-> TRUE, onRow |-> row]]
      BY <2>10 DEF StepStatement
    <3>2. \A r \in Statement, c \in Conn : Has(r, c)' <=> Has(r, c)
      BY <2>10, <3>1, StatementKept DEF StepStatement
    <3>3. UNCHANGED <<state, handle, locks>>
      BY <2>10 DEF StepStatement
    <3> QED
      BY <3>2, <3>3 DEF KeptInv, ConnectionsAreKept, Frames
  <2>11. ASSUME NEW s \in Statement, Release(t, s) PROVE KeptInv'
    <3>1. stmt' = [stmt EXCEPT ![s] =
                    [conn |-> stmt[s].conn, reading |-> FALSE, onRow |-> FALSE]]
      BY <2>11 DEF Release, Released, NewStatement
    <3>2. \A r \in Statement, c \in Conn : Has(r, c)' <=> Has(r, c)
      BY <2>11, <3>1, StatementKept DEF Release
    <3>3. UNCHANGED <<state, handle, locks>>
      BY <2>11 DEF Release
    <3> QED
      BY <3>2, <3>3 DEF KeptInv, ConnectionsAreKept, Frames
  <2>12. ASSUME NEW s \in Statement, Finalize(t, s) PROVE KeptInv'
    BY <1>2, <2>12 DEF Finalize, KeptInv, ConnectionsAreKept, Has, Frames, TypeOK
  <2>13. ASSUME NEW c \in Conn, Waits(t, c) PROVE KeptInv'
    BY <1>2, <2>13 DEF Waits, KeptInv, ConnectionsAreKept, Has, Frames, TypeOK
  <2>14. CASE ExecEnds(t)
    <3>1. UNCHANGED <<objects, leaked>>
      BY <2>14 DEF ExecEnds
    <3>2. \A u \in Thread : Frames(u)' \subseteq Frames(u)
      BY <1>2, <2>14, FramesReturned DEF ExecEnds
    <3> QED
      BY <3>1, <3>2 DEF KeptInv, ConnectionsAreKept, Has
  <2>15. CASE CallbackThrows(t)
    <3>1. /\ Callback(t) \in Conn
          /\ leaked' = [leaked EXCEPT ![Callback(t)] = TRUE]
          /\ UNCHANGED objects
      BY <1>2, <2>15, CallbackType DEF CallbackThrows
    <3>2. state[Callback(t)] = "open"
      BY <1>2, <2>15, CallbackType DEF CallbackThrows, KeptInv
    <3>3. \A u \in Thread : Frames(u)' \subseteq Frames(u)
      BY <1>2, <2>15, FramesReturned DEF CallbackThrows
    <3> QED
      BY <3>1, <3>2, <3>3 DEF KeptInv, ConnectionsAreKept, Has, TypeOK
  <2> QED
    BY <1>2, <2>1, <2>2, <2>3, <2>4, <2>5, <2>6, <2>7, <2>8, <2>9, <2>10, <2>11, <2>12, <2>13, <2>14, <2>15
    DEF ThreadStep, DatabaseStep, StatementStep
<1> QED
  BY <1>1, <1>2 DEF Next

(* No connection is freed while a database or a statement can use it, none  *)
(* outlives them, and two databases never have the same one.                *)
THEOREM ConnectionsLive == Spec => []ConnectionsAreKept
<1>1. KeptInv => ConnectionsAreKept
  BY DEF KeptInv
<1> QED
  BY TypeInit, TypeNext, KeptInit, KeptNext, <1>1, PTL DEF Spec

-----------------------------------------------------------------------------
(* Interrupts                                                               *)

(* Only a statement with an iterator is on a row: the destructor resets it. *)
ReadInv == \A s \in Statement : stmt[s] # None /\ stmt[s].onRow => stmt[s].reading

LEMMA ReadInit == Init => ReadInv
BY DEF Init, ReadInv

LEMMA ReadNext == TypeOK /\ ReadInv /\ [Next]_vars => ReadInv'
<1> SUFFICES ASSUME TypeOK, ReadInv, [Next]_vars PROVE ReadInv'
  OBVIOUS
<1> USE DEF objects
<1>1. CASE UNCHANGED vars
  BY <1>1 DEF ReadInv, vars
<1>2. ASSUME NEW t \in Thread, ThreadStep(t), UNCHANGED careful
      PROVE  ReadInv'
  <2>1. ASSUME NEW d \in Database, NEW c \in Conn, Open(t, d, c) PROVE ReadInv'
    BY <2>1 DEF Open, ReadInv
  <2>2. ASSUME NEW d \in Database, NEW c \in Conn, OpenThrows(t, d, c) PROVE ReadInv'
    BY <2>2 DEF OpenThrows, ReadInv
  <2>3. ASSUME NEW d \in Database, OpenRefused(t, d) PROVE ReadInv'
    BY <2>3 DEF OpenRefused, ReadInv
  <2>4. ASSUME NEW d \in Database, Close(t, d) PROVE ReadInv'
    BY <2>4 DEF Close, ReadInv
  <2>5. ASSUME NEW d \in Database, Exec(t, d) PROVE ReadInv'
    BY <2>5 DEF Exec, ReadInv
  <2>6. ASSUME NEW d \in Database, ExecCallsBack(t, d) PROVE ReadInv'
    BY <2>6 DEF ExecCallsBack, ReadInv
  <2>7. ASSUME NEW d \in Database, Interrupt(t, d) PROVE ReadInv'
    BY <2>7 DEF Interrupt, ReadInv
  <2>8. ASSUME NEW s \in Statement, NEW d \in Database, Prepare(t, s, d) PROVE ReadInv'
    <3>1. /\ stmt' = [stmt EXCEPT ![s] = NewStatement(handle[d])]
          /\ handle[d] \in Conn
      BY <2>8 DEF Prepare, TypeOK
    <3>2. ~NewStatement(handle[d]).onRow
      BY DEF NewStatement
    <3> QED
      BY <3>1, <3>2 DEF ReadInv, TypeOK
  <2>9. ASSUME NEW s \in Statement, NEW d \in Database, PrepareThrows(t, s, d) PROVE ReadInv'
    BY <2>9 DEF PrepareThrows, ReadInv
  <2>10. ASSUME NEW s \in Statement, StepStatement(t, s) PROVE ReadInv'
    <3>1. PICK row \in BOOLEAN :
            stmt' = [stmt EXCEPT ![s] =
                      [conn |-> stmt[s].conn, reading |-> TRUE, onRow |-> row]]
      BY <2>10 DEF StepStatement
    <3>2. stmt'[s].reading
      BY <2>10, <3>1, StatementKept DEF StepStatement
    <3>3. \A r \in Statement : r # s => stmt'[r] = stmt[r]
      BY <3>1 DEF TypeOK
    <3> QED
      BY <3>2, <3>3 DEF ReadInv
  <2>11. ASSUME NEW s \in Statement, Release(t, s) PROVE ReadInv'
    <3>1. stmt' = [stmt EXCEPT ![s] =
                    [conn |-> stmt[s].conn, reading |-> FALSE, onRow |-> FALSE]]
      BY <2>11 DEF Release, Released, NewStatement
    <3>2. ~stmt'[s].onRow
      BY <2>11, <3>1, StatementKept DEF Release
    <3>3. \A r \in Statement : r # s => stmt'[r] = stmt[r]
      BY <3>1 DEF TypeOK
    <3> QED
      BY <3>2, <3>3 DEF ReadInv
  <2>12. ASSUME NEW s \in Statement, Finalize(t, s) PROVE ReadInv'
    <3>1. stmt' = [stmt EXCEPT ![s] = None]
      BY <2>12 DEF Finalize
    <3> QED
      BY <3>1 DEF ReadInv, TypeOK
  <2>13. ASSUME NEW c \in Conn, Waits(t, c) PROVE ReadInv'
    BY <2>13 DEF Waits, ReadInv
  <2>14. CASE ExecEnds(t)
    BY <2>14 DEF ExecEnds, ReadInv
  <2>15. CASE CallbackThrows(t)
    BY <2>15 DEF CallbackThrows, ReadInv
  <2> QED
    BY <1>2, <2>1, <2>2, <2>3, <2>4, <2>5, <2>6, <2>7, <2>8, <2>9, <2>10, <2>11, <2>12, <2>13, <2>14, <2>15
    DEF ThreadStep, DatabaseStep, StatementStep
<1> QED
  BY <1>1, <1>2 DEF Next

(* A connection that an interrupt has left has no statement on a row: the   *)
(* call that would get one onto a row forgets the interrupt first.          *)
OverInv == \A c \in Conn : interrupted[c] /\ over[c] => ~Busy(c)

LEMMA OverInit == Init => OverInv
BY DEF Init, OverInv

(* A step after which an interrupt is over and a statement on a row: the    *)
(* interrupt was over before, and the statement not on a row.               *)
LEMMA OverStep ==
  ASSUME TypeOK, OverInv, NEW t \in Thread, ThreadStep(t),
         NEW c \in Conn, interrupted[c], over[c], interrupted'[c]
  PROVE  ~Busy(c)'
<1>1. ~Busy(c) /\ ~Obeys(c)
  BY DEF OverInv, Obeys
<1>2. ~leaked[c] /\ \A u \in Thread : c \notin Frames(u)
  BY <1>1 DEF Busy
<1>3. \A r \in Statement : Has(r, c) => ~stmt[r].onRow
  BY <1>1 DEF Busy
<1>4. ASSUME UNCHANGED <<stmt, frames, leaked>> PROVE ~Busy(c)'
  BY <1>1, <1>4 DEF Busy, Has, Frames
<1>5. ASSUME UNCHANGED <<frames, leaked>>,
             \A r \in Statement : Has(r, c)' => ~stmt'[r].onRow
      PROVE  ~Busy(c)'
  BY <1>2, <1>5 DEF Busy, Frames
<1>6. ~Checks(c)
  BY <1>1 DEF Checks, TypeOK
<1> USE DEF objects, locks
<1>7. ASSUME NEW d \in Database, DatabaseStep(t, d) PROVE ~Busy(c)'
  <2>1. CASE ExecCallsBack(t, d)
    <3>1. /\ handle[d] \in Conn
          /\ Checks(handle[d])
          /\ frames' = [frames EXCEPT ![t] = Append(@, handle[d])]
          /\ UNCHANGED <<stmt, leaked>>
      BY <2>1 DEF ExecCallsBack, TypeOK
    <3>2. handle[d] # c
      BY <1>6, <3>1
    <3>3. \A u \in Thread :
            Frames(u)' = IF u = t THEN Frames(t) \cup {handle[d]} ELSE Frames(u)
      BY <3>1, FramesPushed
    <3>4. \A u \in Thread : c \notin Frames(u)'
      BY <1>2, <3>2, <3>3
    <3> QED
      BY <1>2, <1>3, <3>1, <3>4 DEF Busy, Has
  <2>2. CASE ~ExecCallsBack(t, d)
    <3>1. UNCHANGED <<stmt, frames, leaked>>
      BY <1>7, <2>2 DEF DatabaseStep, Open, OpenThrows, OpenRefused, Close, Exec,
         Interrupt
    <3> QED
      BY <1>4, <3>1
  <2> QED
    BY <2>1, <2>2
<1>8. ASSUME NEW s \in Statement, StatementStep(t, s) PROVE ~Busy(c)'
  <2>1. ASSUME NEW d \in Database, Prepare(t, s, d) PROVE ~Busy(c)'
    <3>1. /\ stmt' = [stmt EXCEPT ![s] = NewStatement(handle[d])]
          /\ UNCHANGED <<frames, leaked>>
      BY <2>1 DEF Prepare
    <3>2. ~NewStatement(handle[d]).onRow
      BY DEF NewStatement
    <3>3. \A r \in Statement : Has(r, c)' => ~stmt'[r].onRow
      BY <1>3, <3>1, <3>2 DEF Has, TypeOK
    <3> QED
      BY <1>5, <3>1, <3>3
  <2>2. ASSUME NEW d \in Database, PrepareThrows(t, s, d) PROVE ~Busy(c)'
    BY <1>4, <2>2 DEF PrepareThrows
  <2>3. CASE StepStatement(t, s)
    <3>1. /\ stmt[s] # None
          /\ Runs(t, stmt[s].conn)
          /\ UNCHANGED <<frames, leaked>>
      BY <2>3 DEF StepStatement
    <3>2. PICK row \in BOOLEAN :
            /\ row => outcome' = "ok"
            /\ stmt' = [stmt EXCEPT ![s] =
                 [conn |-> stmt[s].conn, reading |-> TRUE, onRow |-> row]]
      BY <2>3 DEF StepStatement
    <3>3. /\ \A r \in Statement, b \in Conn : Has(r, b)' <=> Has(r, b)
          /\ stmt'[s].onRow = row
          /\ \A r \in Statement : r # s => stmt'[r] = stmt[r]
      BY <3>1, <3>2, StatementKept
    <3>4. ASSUME Has(s, c), row PROVE FALSE
      <4>1. stmt[s].conn = c /\ outcome' = "ok"
        BY <3>2, <3>4 DEF Has
      <4>2. Checks(c)
        BY <3>1, <4>1 DEF Runs, Struck
      <4> QED
        BY <1>6, <4>2
    <3>5. \A r \in Statement : Has(r, c)' => ~stmt'[r].onRow
      BY <1>3, <3>3, <3>4
    <3> QED
      BY <1>5, <3>1, <3>5
  <2>4. CASE Release(t, s)
    <3>1. /\ stmt[s] # None
          /\ stmt' = [stmt EXCEPT ![s] =
               [conn |-> stmt[s].conn, reading |-> FALSE, onRow |-> FALSE]]
          /\ UNCHANGED <<frames, leaked>>
      BY <2>4 DEF Release, Released, NewStatement
    <3>2. /\ \A r \in Statement, b \in Conn : Has(r, b)' <=> Has(r, b)
          /\ ~stmt'[s].onRow
          /\ \A r \in Statement : r # s => stmt'[r] = stmt[r]
      BY <3>1, StatementKept
    <3>3. \A r \in Statement : Has(r, c)' => ~stmt'[r].onRow
      BY <1>3, <3>2
    <3> QED
      BY <1>5, <3>1, <3>3
  <2>5. CASE Finalize(t, s)
    <3>1. stmt' = [stmt EXCEPT ![s] = None] /\ UNCHANGED <<frames, leaked>>
      BY <2>5 DEF Finalize
    <3>2. \A r \in Statement : Has(r, c)' => ~stmt'[r].onRow
      BY <1>3, <3>1 DEF Has, TypeOK
    <3> QED
      BY <1>5, <3>1, <3>2
  <2> QED
    BY <1>8, <2>1, <2>2, <2>3, <2>4, <2>5 DEF StatementStep
<1>9. ASSUME NEW b \in Conn, Waits(t, b) PROVE ~Busy(c)'
  BY <1>4, <1>9 DEF Waits
<1>10. CASE ExecEnds(t)
  <2>1. \A u \in Thread : Frames(u)' \subseteq Frames(u)
    BY <1>10, FramesReturned DEF ExecEnds
  <2>2. UNCHANGED <<stmt, leaked>>
    BY <1>10 DEF ExecEnds
  <2> QED
    BY <1>2, <1>3, <2>1, <2>2 DEF Busy, Has
<1>11. CASE CallbackThrows(t)
  <2>1. /\ Callback(t) \in Frames(t)
        /\ leaked' = [leaked EXCEPT ![Callback(t)] = TRUE]
        /\ UNCHANGED stmt
    BY <1>11, CallbackType DEF CallbackThrows
  <2>2. ~leaked'[c]
    BY <1>2, <2>1 DEF TypeOK
  <2>3. \A u \in Thread : Frames(u)' \subseteq Frames(u)
    BY <1>11, FramesReturned DEF CallbackThrows
  <2> QED
    BY <1>2, <1>3, <2>1, <2>2, <2>3 DEF Busy, Has
<1> QED
  BY <1>7, <1>8, <1>9, <1>10, <1>11 DEF ThreadStep

LEMMA OverNext == TypeOK /\ ReadInv' /\ OverInv /\ [Next]_vars => OverInv'
<1> SUFFICES ASSUME TypeOK, ReadInv', OverInv, [Next]_vars,
                    NEW c \in Conn, interrupted'[c], over'[c]
             PROVE  ~Busy(c)'
  BY DEF OverInv
<1>1. CASE UNCHANGED vars
  <2>1. UNCHANGED <<stmt, frames, leaked, interrupted, over>>
    BY <1>1 DEF vars, objects, locks
  <2> QED
    BY <2>1 DEF OverInv, Busy, Has, Frames
<1>2. CASE Next
  <2>1. PICK t \in Thread : ThreadStep(t)
    BY <1>2 DEF Next
  <2>2. CASE ~InUse(c)'
    BY <2>2 DEF Busy, InUse, ReadInv, Has
  <2>3. CASE interrupted[c] /\ over[c]
    BY <2>1, <2>3, OverStep
  <2> QED
    BY <1>2, <2>2, <2>3 DEF Next, Ages
<1> QED
  BY <1>1, <1>2

(* An interrupt ends no call that begins after all it found had ended once, *)
(* with any number of threads that interrupt, loop and nest callbacks.      *)
THEOREM InterruptsEnd == Spec => InterruptsPass
<1>1. ASSUME TypeOK, OverInv, NEW c \in Conn, outcome' = "interrupted", CallInto(c)
      PROVE  ~over[c]
  <2>1. ASSUME NEW t \in Thread, Runs(t, c) PROVE Obeys(c)
    BY <1>1, <2>1 DEF Runs, Struck, Ends
  <2>2. ASSUME NEW t \in Thread, frames[t] # Nowhere, Callback(t) = c, ExecEnds(t)
        PROVE  Obeys(c)
    BY <1>1, <2>2 DEF ExecEnds, Ends
  <2>3. Obeys(c)
    BY <1>1, <2>1, <2>2 DEF CallInto, Exec, PrepareThrows, StepStatement, Has
  <2> QED
    BY <1>1, <2>3 DEF OverInv, Obeys
<1>2. TypeOK /\ OverInv /\ [Next]_vars =>
        [\A c \in Conn : outcome' = "interrupted" /\ CallInto(c) => ~over[c]]_vars
  BY <1>1
<1> QED
  BY <1>2, TypeInit, TypeNext, ReadInit, ReadNext, OverInit, OverNext, PTL
  DEF Spec, InterruptsPass

-----------------------------------------------------------------------------
(* Waiting for a mutex                                                      *)

(* A careful thread holds only mutexes of connections on which it runs a    *)
(* callback, and that is no other than the one it waits for.                *)
WaitInv ==
  careful =>
    /\ \A c \in Conn, t \in Thread : owner[c] = t => c \in Frames(t)
    /\ \A t \in Thread : wants[t] # None =>
         Frames(t) \subseteq {wants[t]} /\ owner[wants[t]] # t

LEMMA WaitInit == Init => WaitInv
BY DEF Init, WaitInv

(* Most steps call no callback: a thread gets its mutex, or begins to wait. *)
LEMMA WaitKept ==
  ASSUME TypeOK, WaitInv, careful, UNCHANGED locks,
         \A u \in Thread :
           \/ wants'[u] = wants[u]
           \/ wants'[u] = None
           \/ Frames(u) \subseteq {wants'[u]} /\ owner[wants'[u]] # u
  PROVE  WaitInv'
<1>1. UNCHANGED <<frames, owner>> /\ \A u \in Thread : Frames(u)' = Frames(u)
  BY DEF locks, Frames
<1>2. \A c \in Conn, u \in Thread : owner[c] = u => c \in Frames(u)
  BY DEF WaitInv
<1>3. \A u \in Thread : wants[u] # None =>
        Frames(u) \subseteq {wants[u]} /\ owner[wants[u]] # u
  BY DEF WaitInv
<1>4. ASSUME NEW u \in Thread, wants'[u] # None
      PROVE  Frames(u) \subseteq {wants'[u]} /\ owner[wants'[u]] # u
  <2>1. CASE wants'[u] = wants[u]
    BY <1>3, <1>4, <2>1
  <2> QED
    BY <1>4, <2>1
<1> QED
  BY <1>1, <1>2, <1>4 DEF WaitInv

LEMMA WaitNext == TypeOK /\ (careful => \A c \in Conn : ~leaked[c])
                    /\ WaitInv /\ [Next]_vars => WaitInv'
<1> SUFFICES ASSUME TypeOK, careful => \A c \in Conn : ~leaked[c],
                    WaitInv, [Next]_vars, careful'
             PROVE  WaitInv'
  BY DEF WaitInv
<1> USE DEF locks
<1>1. CASE UNCHANGED vars
  BY <1>1, WaitKept DEF vars
<1>2. ASSUME NEW t \in Thread, ThreadStep(t), UNCHANGED careful
      PROVE  WaitInv'
  <2>1. ASSUME NEW d \in Database, NEW c \in Conn, Open(t, d, c) PROVE WaitInv'
    <3>1. UNCHANGED locks /\ careful
      BY <1>2, <2>1 DEF Open
    <3>2. \A u \in Thread : wants'[u] = wants[u] \/ wants'[u] = None
      BY <2>1 DEF Open, Calls, TypeOK
    <3> QED
      BY <3>1, <3>2, WaitKept
  <2>2. ASSUME NEW d \in Database, NEW c \in Conn, OpenThrows(t, d, c) PROVE WaitInv'
    <3>1. UNCHANGED locks /\ careful
      BY <1>2, <2>2 DEF OpenThrows
    <3>2. \A u \in Thread : wants'[u] = wants[u] \/ wants'[u] = None
      BY <2>2 DEF OpenThrows, Calls, TypeOK
    <3> QED
      BY <3>1, <3>2, WaitKept
  <2>3. ASSUME NEW d \in Database, OpenRefused(t, d) PROVE WaitInv'
    <3>1. UNCHANGED locks /\ careful
      BY <1>2, <2>3 DEF OpenRefused
    <3>2. \A u \in Thread : wants'[u] = wants[u] \/ wants'[u] = None
      BY <2>3 DEF OpenRefused, Calls, TypeOK
    <3> QED
      BY <3>1, <3>2, WaitKept
  <2>4. ASSUME NEW d \in Database, Close(t, d) PROVE WaitInv'
    <3>1. UNCHANGED locks /\ careful
      BY <1>2, <2>4 DEF Close
    <3>2. \A u \in Thread : wants'[u] = wants[u] \/ wants'[u] = None
      BY <2>4 DEF Close, Calls, TypeOK
    <3> QED
      BY <3>1, <3>2, WaitKept
  <2>5. ASSUME NEW d \in Database, Exec(t, d) PROVE WaitInv'
    <3>1. UNCHANGED locks /\ careful
      BY <1>2, <2>5 DEF Exec
    <3>2. \A u \in Thread : wants'[u] = wants[u] \/ wants'[u] = None
      BY <2>5 DEF Exec, Calls, TypeOK
    <3> QED
      BY <3>1, <3>2, WaitKept
  <2>6. ASSUME NEW d \in Database, ExecCallsBack(t, d) PROVE WaitInv'
    <3> DEFINE c == handle[d]
    <3>1. /\ c \in Conn /\ Calls(t, c)
          /\ frames' = [frames EXCEPT ![t] = Append(@, c)]
          /\ owner' = [owner EXCEPT ![c] = t]
      BY <2>6 DEF ExecCallsBack, TypeOK
    <3>2. \A u \in Thread :
            Frames(u)' = IF u = t THEN Frames(t) \cup {c} ELSE Frames(u)
      BY <3>1, FramesPushed
    <3>3. /\ wants'[t] = None
          /\ \A u \in Thread : u # t => wants'[u] = wants[u]
      BY <3>1 DEF Calls, TypeOK
    <3>4. /\ owner'[c] = t
          /\ \A b \in Conn : b # c => owner'[b] = owner[b]
      BY <3>1 DEF TypeOK
    <3> HIDE DEF c
    <3>5. ASSUME NEW b \in Conn, NEW u \in Thread, owner'[b] = u
          PROVE  b \in Frames(u)'
      BY <1>2, <3>1, <3>2, <3>4, <3>5 DEF WaitInv
    <3>6. ASSUME NEW u \in Thread, wants'[u] # None
          PROVE  Frames(u)' \subseteq {wants'[u]} /\ owner'[wants'[u]] # u
      BY <1>2, <3>1, <3>2, <3>3, <3>4, <3>6 DEF WaitInv, TypeOK
    <3> QED
      BY <3>5, <3>6 DEF WaitInv
  <2>7. ASSUME NEW d \in Database, Interrupt(t, d) PROVE WaitInv'
    <3>1. UNCHANGED locks /\ careful
      BY <1>2, <2>7 DEF Interrupt
    <3>2. \A u \in Thread : wants'[u] = wants[u] \/ wants'[u] = None
      BY <2>7 DEF Interrupt, Calls, TypeOK
    <3> QED
      BY <3>1, <3>2, WaitKept
  <2>8. ASSUME NEW s \in Statement, NEW d \in Database, Prepare(t, s, d) PROVE WaitInv'
    <3>1. UNCHANGED locks /\ careful
      BY <1>2, <2>8 DEF Prepare
    <3>2. \A u \in Thread : wants'[u] = wants[u] \/ wants'[u] = None
      BY <2>8 DEF Prepare, Calls, TypeOK
    <3> QED
      BY <3>1, <3>2, WaitKept
  <2>9. ASSUME NEW s \in Statement, NEW d \in Database, PrepareThrows(t, s, d) PROVE WaitInv'
    <3>1. UNCHANGED locks /\ careful
      BY <1>2, <2>9 DEF PrepareThrows
    <3>2. \A u \in Thread : wants'[u] = wants[u] \/ wants'[u] = None
      BY <2>9 DEF PrepareThrows, Calls, TypeOK
    <3> QED
      BY <3>1, <3>2, WaitKept
  <2>10. ASSUME NEW s \in Statement, StepStatement(t, s) PROVE WaitInv'
    <3>1. UNCHANGED locks /\ careful
      BY <1>2, <2>10 DEF StepStatement
    <3>2. \A u \in Thread : wants'[u] = wants[u] \/ wants'[u] = None
      BY <2>10 DEF StepStatement, Calls, TypeOK
    <3> QED
      BY <3>1, <3>2, WaitKept
  <2>11. ASSUME NEW s \in Statement, Release(t, s) PROVE WaitInv'
    <3>1. UNCHANGED locks /\ careful
      BY <1>2, <2>11 DEF Release
    <3>2. \A u \in Thread : wants'[u] = wants[u] \/ wants'[u] = None
      BY <2>11 DEF Release, Calls, TypeOK
    <3> QED
      BY <3>1, <3>2, WaitKept
  <2>12. ASSUME NEW s \in Statement, Finalize(t, s) PROVE WaitInv'
    <3>1. UNCHANGED locks /\ careful
      BY <1>2, <2>12 DEF Finalize
    <3>2. \A u \in Thread : wants'[u] = wants[u] \/ wants'[u] = None
      BY <2>12 DEF Finalize, Calls, TypeOK
    <3> QED
      BY <3>1, <3>2, WaitKept
  <2>13. ASSUME NEW c \in Conn, Waits(t, c) PROVE WaitInv'
    <3>1. UNCHANGED locks /\ careful /\ MayCall(t, c) /\ owner[c] # t
      BY <1>2, <2>13 DEF Waits, CanEnter
    <3>2. /\ wants'[t] = c
          /\ \A u \in Thread : u # t => wants'[u] = wants[u]
      BY <2>13 DEF Waits, TypeOK
    <3>3. Frames(t) \subseteq {wants'[t]} /\ owner[wants'[t]] # t
      BY <3>1, <3>2 DEF MayCall
    <3> QED
      BY <3>1, <3>2, <3>3, WaitKept
  <2>14. CASE ExecEnds(t)
    <3> DEFINE c == Callback(t)
    <3>1. /\ c \in Conn /\ Return(t) /\ frames[t] # Nowhere /\ ~leaked[c]
          /\ UNCHANGED wants /\ wants[t] = None
          /\ owner' = [owner EXCEPT ![c] =
               IF leaked[c] \/ \E i \in 1 .. Len(frames[t]) - 1 : frames[t][i] = c
               THEN t ELSE None]
      BY <1>2, <2>14, CallbackType DEF ExecEnds
    <3>2. /\ \A u \in Thread : u # t => Frames(u)' = Frames(u)
          /\ Frames(t)' = {frames[t][i] : i \in 1 .. Len(frames[t]) - 1}
          /\ Frames(t) = Frames(t)' \cup {c}
      BY <3>1, FramesReturned
    <3>3. /\ owner'[c] = IF c \in Frames(t)' THEN t ELSE None
          /\ \A b \in Conn : b # c => owner'[b] = owner[b]
      BY <3>1, <3>2 DEF TypeOK
    <3> HIDE DEF c
    <3>4. ASSUME NEW b \in Conn, NEW u \in Thread, owner'[b] = u
          PROVE  b \in Frames(u)'
      BY <1>2, <3>1, <3>2, <3>3, <3>4 DEF WaitInv
    <3>5. ASSUME NEW u \in Thread, wants'[u] # None
          PROVE  Frames(u)' \subseteq {wants'[u]} /\ owner'[wants'[u]] # u
      <4>1. u # t /\ wants'[u] = wants[u]
        BY <3>1, <3>5
      <4>2. wants[u] \in Conn
        BY <3>5, <4>1 DEF TypeOK
      <4>3. Frames(u) \subseteq {wants[u]} /\ owner[wants[u]] # u
        BY <1>2, <3>5, <4>1 DEF WaitInv
      <4>4. owner'[wants[u]] # u
        <5>1. CASE wants[u] = c
          BY <3>3, <4>1, <5>1
        <5>2. CASE wants[u] # c
          BY <3>3, <4>2, <4>3, <5>2
        <5> QED
          BY <5>1, <5>2
      <4> QED
        BY <3>2, <4>1, <4>3, <4>4
    <3> QED
      BY <3>4, <3>5 DEF WaitInv
  <2>15. CASE CallbackThrows(t)
    BY <1>2, <2>15 DEF CallbackThrows
  <2> QED
    BY <1>2, <2>1, <2>2, <2>3, <2>4, <2>5, <2>6, <2>7, <2>8, <2>9, <2>10, <2>11, <2>12, <2>13, <2>14, <2>15
    DEF ThreadStep, DatabaseStep, StatementStep
<1> QED
  BY <1>1, <1>2 DEF Next

(* Careful callbacks do not throw.                                          *)
LEMMA NothingLeaks ==
  Spec => [](careful => \A c \in Conn : ~leaked[c])
<1> DEFINE I == careful => \A c \in Conn : ~leaked[c]
<1>1. Init => I
  BY DEF Init
<1>2. I /\ [Next]_vars => I'
  <2> SUFFICES ASSUME I, [Next]_vars, careful' PROVE UNCHANGED leaked /\ careful
    OBVIOUS
  <2>1. careful
    BY DEF Next, vars
  <2>2. ASSUME NEW t \in Thread, NEW d \in Database, DatabaseStep(t, d)
        PROVE  UNCHANGED leaked
    BY <2>2 DEF DatabaseStep, locks, Open, OpenThrows, OpenRefused, Close, Exec,
       ExecCallsBack, Interrupt
  <2>3. ASSUME NEW t \in Thread, NEW s \in Statement, StatementStep(t, s)
        PROVE  UNCHANGED leaked
    BY <2>3 DEF StatementStep, locks, Prepare, PrepareThrows, StepStatement,
       Release, Finalize
  <2>4. ASSUME NEW t \in Thread, NEW c \in Conn, Waits(t, c)
        PROVE  UNCHANGED leaked
    BY <2>4 DEF Waits, locks
  <2>5. ASSUME NEW t \in Thread, ExecEnds(t) \/ CallbackThrows(t)
        PROVE  UNCHANGED leaked
    BY <2>1, <2>5 DEF ExecEnds, CallbackThrows
  <2>6. CASE UNCHANGED vars
    BY <2>6 DEF vars, locks
  <2> QED
    BY <2>1, <2>2, <2>3, <2>4, <2>5, <2>6 DEF Next, ThreadStep
<1> QED
  BY <1>1, <1>2, PTL DEF Spec

(* Threads whose callbacks are careful never wait for each other in a       *)
(* circle, with any number of threads, connections and nested calls.        *)
THEOREM ThreadsGoOn == Spec => []NoDeadlock
<1>1. TypeOK /\ WaitInv => NoDeadlock
  BY DEF TypeOK, WaitInv, NoDeadlock
<1> QED
  BY <1>1, TypeInit, TypeNext, WaitInit, WaitNext, NothingLeaks, PTL DEF Spec
=============================================================================
