# A TLA+ model of sqlitepp

sqlitepp is a C++17 wrapper of SQLite's C API with a small object-relational
mapper on top. These modules model its stateful parts, check them with TLC on
small instances and prove the properties that matter most with TLAPS for
instances of any size. Paths below are relative to the repository's root, as
`src/...`.

## Inventory: the parts of the system

| Part | Source | State | Operations |
|---|---|---|---|
| field conversions | `include/sqlitepp/orm.h`, `src/orm.cpp`, `src/result_iterator.cpp` | none | getter and setter of a field, `bind_db_val`, typed column reads |
| entity life cycle | `src/orm.cpp`, `include/sqlitepp/orm_entity.h` | `_rowid_`, `m_db_vals`, the data members, the table | construct, assign, `is_modified`, `reset`, `save` (`insert`, `update`), `remove`, `from_result` |
| class-wide queries | `src/orm.cpp`, `orm.h` | none of their own | `select_one`, `select_multiple`, `orm::remove`, `count` |
| statement | `src/statement.cpp`, `statement.h` | `m_handle` | prepare, move, destroy, `bind`, `execute`, `iterator`, `iterate` |
| result_iterator | `src/result_iterator.cpp`, `result_iterator.h` | borrowed `m_handle`, `m_has_row` | `next`, `done`, column reads, move, the destructor's reset |
| range-for iteration | `result_iterator.h`, `statement.h` | a `result_iterator`, a copy of its row | `begin`, `++`, `!=`, `*` |
| database | `src/database.cpp`, `database.h` | the connection | open, close, `exec` (with a callback, too), `interrupt`, `last_insert_rowid`, `total_changes` |
| schema and builder | `orm.h`, `src/orm.cpp` | a `class_info` | `field` and its attributes, `generate_create_table` |
| condition builder | `condition.h` | none | expression templates rendered to SQL and parameters |
| error codes | `error_code.h`, `error_code.cpp` | none | an `error_category`, `throw_if_error` |

How they interact: an entity holds a reference to a `database` and makes a
`statement` of its own for every call; the statement makes a `result_iterator`
over the same `sqlite3_stmt`, and the iterator's destructor resets it. The ORM
learns rowids and counts from the connection, which other threads may share.
Getters and setters are callbacks stored in the class's `class_info`, and the
callback of `exec` runs inside SQLite with the connection's mutex held. The
builder's `class_info` decides what CREATE TABLE demands of rows, and the queries
of the entities name that table by text. Conditions become the WHERE clause and
the parameters of class-wide queries.

What is hard to test in it:

* an entity caches its row (members and `m_db_vals`) and its identity
  (`_rowid_`), and rows change and go away behind its back;
* calls fail in the middle, after some of the entity has been changed;
* SQLite gives the rowid of a deleted last row out again;
* values are converted on each way, not always without loss;
* everything that steps a statement moves one shared position, and one step too
  many begins the statement again;
* two calls into a shared connection are not one;
* a connection outlives its `database` for the statements on it, an interrupt may
  come in the middle of another thread's call and stays in force while one of
  them is on a row, and threads that wait for each other's callbacks can wait for
  ever;
* the attributes of a class combine freely, and most combinations are not tested;
* a condition means what it says only if its text has the right parentheses.

`PROJECT.json` lists these hazards at their lines, with the properties for each.

What makes each part correct: a stored entity's row exists and is its own; an
entity that is not modified holds what its row holds; what it knows of its row
departs from the row only by what others do to it, or by an update that failed;
a save that fails leaves no row without an object; nobody writes a row that is
not the entity's; a setter is never given
what it throws on; the columns read are those of the row announced, in order;
a loop ends and runs its statement once; handles are finalized once, and a
statement that nobody reads can be bound and run from its first row; counts and
rowids learnt from the connection are those of the caller's own statement; a
connection lives as long as it can be used; entities go to the table of their
class, whose rows differ as declared; a query is read as the condition it was
made from.

## Modules

* **FieldCodec**: pure operators. Integers stand for the values of all four
  `db_type`s; the code tells apart NULL, the zero that a typed read makes of a
  NULL, and other values. `Kind` says which overload of `builder::field` made a
  field: `key` (the `const int64_t` overload with `row_id()`), `pk`
  (`primary_key()`), `wide`, `opt` (`std::optional`), `blob` (a vector of bytes: an
  empty one has no `data()` and is bound as NULL, `statement.cpp:85`), `time` (a
  `time_point`, which counts `Ticks` in a second while its column counts seconds,
  `orm.h:133`), `narrow` (a member that loses bits of its column's value).
* **Entity** extends FieldCodec. `rowid`, `vals`, `mem` are `_rowid_`,
  `m_db_vals` and the data members; `rows` is the table and `txn` its copy at
  BEGIN. One action per outcome of each call: `InsertOk`/`InsertThrows`,
  `UpdateOk`/`UpdateThrows`/`UpdatePrepareThrows` (the snapshot is replaced
  between the last two failures), `RemoveNothing`/`RemoveOk`/`RemoveThrows`,
  `Reset`, `Select`, `ClassRemove`, `ExecUpdate`, `StatementThrows`, `Begin`,
  `Commit`, `Rollback`. `origin` and the rows' tags are history: they
  tell a row from a later one with the same number. `Env` says what the program
  around the entities does: read a row twice (`share`), delete or rewrite rows
  under an entity (`sweep`), transactions (`txn`), updates failing for reasons
  outside the table (`update_fault`).
* **Cursor**: `owned` is `statement::m_handle`, `cursor` the position of each
  `sqlite3_stmt`, `iter` the `result_iterator` and `stl_for_each_iterator`
  objects. `Execute` is iterator, next and the destructor in one action (one
  thread). `Sharing` has TRUE in it for programs that open a statement while it is
  being read, FALSE for the others. Runs and the rows announced are history.
* **SharedConnection**: threads that call `save`, `remove` and `orm::remove` on
  one connection. A call into SQLite is one step, since the connection is opened
  with `SQLITE_OPEN_FULLMUTEX`; `InsertExecute` and `InsertLearnsRowid` are two
  steps, `RemoveCounts`, `RemoveExecute` and `RemoveReturns` three. `AsInt` wraps
  as the `int` of `sqlite3_total_changes` does. `Locking` has TRUE in it for
  programs with a lock of their own around ORM calls, FALSE for the others.
* **EntityPromise**: what entities promise, without rowids, key members or
  snapshots: an object stands for a record or for none, `Insert` makes a record
  with an identity that is never used again, `Update` and `Remove` touch the
  object's own record only, `Restore` brings back what was last read or saved
  (`Kept`: of a point in time, its second), and a call that throws is no step.
  **EntityRefinement** maps Entity's state to it: the record of a stored entity
  is the row with its `_rowid_`, the identity of a record is its row's tag, what
  `Restore` brings back is what the setters make of `m_db_vals`. `KeepsPromise`
  is the abstract specification as a property.
* **Connection**: `handle` is `database::m_handle`, `state` the life of each
  `sqlite3` (`free`, `open`, `zombie` after close_v2 with statements alive,
  `lost` when a failed open left it to nobody). `frames` are the calls of `exec`
  whose callback is running, for each thread innermost last; `owner` and `wants`
  the connection's mutex and the threads that wait for it. A call into SQLite
  that runs no callback is one step. `interrupted` is what sqlite3_interrupt
  sets: preparing and stepping obey it while a statement is on a row, and forget
  it otherwise (`Interrupt`). It takes no mutex, so it may also come while
  another thread's call runs; that call then ends by it (`Struck`), whatever was
  on a row before. `over` is history: since it was interrupted, there was a time
  when nobody used the connection in a loop or a callback (`InUse`).
  `CallbackThrows` leaves the statement of its `exec` on its row (`leaked`) and
  the mutex locked. `Careful` has TRUE in it for programs whose callbacks
  neither throw nor use another database. Of a statement, Connection keeps its
  connection, whether an iterator is alive and whether it is on a row; the rest
  is Cursor's.
* **Schema**: `Field` is one call of `builder::field` with attributes in any
  order, folded over a `field_info` as the builder does. `PrimaryKey`,
  `UniqueConstraints` and `Home` are what `generate_create_table` renders,
  `RowidAlias` what SQLite makes of it, `Target` the table the ORM's statements
  name, `Save` an `insert()` into it. `save()` inserts while `_rowid_` is
  negative (`Unsaved`), which it may be after an insert, too. `CreateOther` is
  another class of the same name. Entity takes a key that is an alias of
  `_rowid_` for granted; Schema says which classes have one, and what becomes of
  the others.
* **Condition**: `stack` are the temporaries of a C++ expression that is being
  evaluated, each with the expression it stands for; `Compare`, `Joined`,
  `Negated` build query and parameters as the overloads of `condition.h` do. The
  reference is `Parsed`, SQL's grammar of expressions, a recursive function on
  sequences of tokens and the parameters that go with them.
* **MCEntity**, **MCCursor**, **MCSharedConnection**, **MCConnection**,
  **MCSchema**, **MCCondition**: the classes and symmetry sets of the runs.
* **EntityProofs**, **EntityExclusiveProofs**, **EntityRefinementProofs**,
  **CursorProofs**, **SharedConnectionProofs**, **ConnectionProofs**,
  **SchemaProofs**, **ConditionProofs**: the theorems.

SQLite is external: a statement takes effect or throws; an error may roll the
open transaction back; a new rowid is one above the largest (the tables the
library creates have no AUTOINCREMENT); NULLs do not clash in UNIQUE; an
unqualified name is looked for in temp before main. The operators that say so
are marked external in `PROJECT.json`. The program (assignments, SQL of its own,
transactions, what callbacks do) is external too.

## Runs

Each `.cfg` is one question; its name begins with its module's.

| Run | Shows |
|---|---|
| `MCEntity_exclusive` | with one entity for each row: `StoredRowIsOwn`, `NoAliasing`, `CleanMeansPersisted`, `TypeOK`, and the refinement `KeepsPromise` |
| `MCEntity_hidden` | no key field, a point in time and a narrow member: `SaveUnmodifiedIsNoop`, `KeepsPromise` |
| `MCEntity_hostile` | all of `Env`, a UNIQUE blob column: `KeyFieldAgrees`, `ResetNeverThrows`, `SignTellsStored`, `WritesOwnRowOnly` still hold, and `SnapshotFollowsRow` |
| `MCCursor_iterators` | any number of readers: `TypeOK`, `OwnedOnce`, `IdleWhenUnread`; one reader at a time: `InOrder`, `RangeRunsOnce`, and `RangeForEnds` under fairness |
| `MCSharedConnection_threads` | with a lock of the program: `LockedSaveIsOwn`, `RemoveCountIsExact`; without: `RemoveCountIsEnough`; and `TypeOK` |
| `MCConnection_lifetime` | any program: `ConnectionsAreKept`, `InterruptsPass`, `TypeOK`; careful callbacks: `NoDeadlock`, and `MutexIsReleased` under fairness |
| `MCSchema_classes` | every class within the bounds: `SavedKeyIsInRow`, `RowsDifferAsDeclared`, `SavedInOwnTable`, `FirstEntityIsSaved`, `RowsAreKnown`, `TypeOK` |
| `MCCondition_expressions` | every expression within the bounds: `MeansWhatItSays`, and `TypeOK` (as many parameters as question marks) |

Four runs end in a violation; each is a disagreement between the code and what
its documentation, comments or tests say. The findings in `PROJECT.json` quote
the sentence.

| Run | What happens |
|---|---|
| `MCEntity_update_conflict` | `update()` adopts the new values before it executes; when that fails the entity counts as unmodified |
| `MCEntity_null` | a NULL is read back as 0 |
| `MCEntity_moved_key` | `update()` writes the key but not `_rowid_` |
| `MCSharedConnection_rowid_race` | an entity learns the rowid of another thread's row |

### Bounds, and why they are enough

* Entity: two entities (a third is in the position of one of the two for every
  property, which relate at most two), three rowids (a row below, one deleted,
  one added), three INSERTs (`MaxTag`; two let a rowid be reused, the third by
  another entity), two or three values, of which one, 0, is what NULL reads as
  and, for `narrow`, 2 is one that does not fit (`NarrowMod` is 2, standing for
  2^w) or, for `time`, 1 is one between two seconds (`Ticks` is 2). For `blob`,
  0 is the empty vector. The runs on a `pk` field use the keys -1 to 2. Rowids
  run out at the bound: `InsertOk` is then disabled, and the other actions go
  on.
* Cursor: two statements, iterators and handles (moves and sharing need two),
  results of up to two rows (an empty one, a last row, a row that is not the
  last), two runs of a handle (`MaxRuns`: the second is what a step too many
  begins; all statements are stuck at the bound until they are finalized).
* SharedConnection: two threads, three rowids, six rows written (`MaxChanges`)
  with `IntMax` = 3, so that `total_changes` wraps within the bound.
  `CHECK_DEADLOCK FALSE`: at `MaxChanges` the threads that wait to write stop,
  which is the bound's doing.
* Connection: two threads and two databases (a circle of waiting threads needs
  two of each), two `sqlite3` objects that exist together, one statement (what
  counts is whether there is one, and whether it is on a row), callbacks nested
  two deep (`MaxDepth`; the mutex is entered twice, on one connection or on two).
  A connection that is lost or leaked stays so, and `OpenThrows` uses one up, so
  behaviours with and without such losses are both in the run.
  `CHECK_DEADLOCK FALSE`: programs that are not careful do wait in a circle, with
  all their threads.
* Schema: two fields (a key of one or two columns, a group of two) with up to two
  attributes (one can undo the other), two entities (a row and the one it clashes
  with), ids -2, -1 and 1: the two constants and a group. `schema()` is absent or
  `"main"`; `"temp"` is in the theorems.
* Condition: three comparisons and two negations, which give every order of NOT,
  AND and OR within one another, one column (all are rendered alike), six of
  `col`'s operators (the others differ in their names only).
  `CHECK_DEADLOCK FALSE`: at the bounds the expression is complete.

### Fairness

`RangeForEnds`, in `MCCursor_iterators`, needs `WF_vars(RangeStep(i))` for each
iterator. A range-for statement keeps evaluating `!=`, its body and `++`, and
nothing in the library blocks between them, so a loop that can go on does go on;
the program's other calls have no fairness. In a program that does not share
statements nobody else steps the handle of a loop, so the steps stay enabled; a
result has at most `MaxRows` rows, which is finite by what SQLite is, not by
fairness.

`MutexIsReleased`, in `MCConnection_lifetime`, needs `SF_vars(EndsOnLevel(t, n))`
for each thread and depth: results are finite and callbacks return, so an `exec`
on level n that gets to go on again and again comes to its end. It is strong
fairness because a callback may call `exec` again for each row, which disables
the end of the outer one and enables it again. The property is only claimed for
careful callbacks: one that throws locks the mutex for good.

## Proofs

The theorems hold for all sets of entities, rowids, fields, values and handles
and for all bounds, under the `ASSUME`s of the modules (TLC evaluates them in
each run).

* **EntityProofs**, for any program. `TypeCorrect` and `ResetIsSafe` follow from
  `TypeInv`: `TypeOK` and "no snapshot has a NULL but in an optional field",
  which together are inductive. `KeysAgree` needs `KeyInv`: `KeyFieldAgrees` is
  not inductive, since `Select` copies what the table holds, so the key column of
  every row, also of the rows a ROLLBACK would restore, has to be the row's
  number (`Keyed`), and an entity without a snapshot has to be not stored.
  `SnapshotsFollow` takes the steps one by one: a `save()` that returns and a load
  make snapshot and row agree, and nothing else writes a snapshot but
  `UpdateThrows`, which the property names. It rests on `KeyInv`, by which an
  UPDATE stays in its row, and so assumes `PkFields = {}`, but nothing of `Env`,
  of UNIQUE columns or of blobs that are refused.
  `OwnRowOnly` is an action property; it assumes `PkFields = {}`, since a program
  that may assign the key moves rows (`MCEntity_moved_key`). `SignIsReliable`
  needs `SignInv`: the rows that a ROLLBACK would restore have positive numbers,
  too.
* **EntityExclusiveProofs**, for a program that gives each row one entity at a
  time (`Exclusive`: `Env` has at most `update_fault` in it, no `pk` field).
  `RowsAreOwn` and `NoRowIsShared` prove each other: deleting a row is safe for
  the others only because nobody else is bound to it, and a new row's number is
  free only because every stored entity's row exists. `CleanIsPersisted` also
  assumes that no UPDATE fails when stepped (`Quiet`: no UNIQUE column, no
  `update_fault`, no blob that may be empty); without it it is false, which
  `MCEntity_update_conflict` shows; what holds then is `SnapshotsFollow`.
  `CleanIsPersisted` rests on the snapshot reading as the row of every stored
  entity, modified or not; so does `UnmodifiedSavesAreNoops`, which also assumes
  that no field is optional (a NULL is read as 0, and the next `save()` writes the
  0). Narrow members are in it: what is unmodified is equal to its snapshot, and
  so fits.
* **EntityRefinementProofs**: `EntitiesKeepPromise`, the step simulation, for
  `Quiet` programs. Besides the invariants above it needs `Tags`, that the tags
  of rows are distinct, so that they are identities, and `InRange`, that no
  narrow member holds more than its type can (what `reset()` makes of a snapshot
  is then what the member was). Throwing calls, `is_modified()` and the rest of
  the rowid's doings are stutters.
* **CursorProofs**, with or without sharing: `TypeCorrect`,
  `HandlesAreOwnedOnce` and `StatementsAreIdle`. Idleness is not inductive alone:
  that a handle that is not ready has an iterator on it, and that iterators are
  on owned handles only, are proved with it. For programs that do not share
  statements `RowsAreInOrder` and `LoopsRunOnce`: no two iterators are on one
  handle, and the runs of a loop's handle are one more than before it while the
  handle is on the row the loop counts; where `next()` threw, `m_has_row` is stale
  but the handle is on no row.
* **SharedConnectionProofs**, for any number of threads. `TypeCorrect` needs
  that a connection that has executed an INSERT remembers a rowid.
  `LockedSavesAreOwn` needs `LockInv`: under the lock one thread at a time is
  within a call, and the last rowid is the one given to a thread that has yet to
  ask. For `RemovesAreCounted` and `RemovesAreNotMissed`, `CountInv` relates
  what a thread read to the rows written since, all of them its own under the
  lock; the rest is arithmetic of an `int` that wraps.
* **ConnectionProofs**, for any number of threads, databases, statements and
  connections. `ConnectionsLive` needs that a connection with a running callback
  is open (`KeptInv`). `InterruptsEnd` needs that a statement on a row has an
  iterator (`ReadInv`) and that an interrupt that is over finds no statement on
  a row (`OverInv`): none can come on one while the interrupt stands, since each
  call into the connection obeys it or forgets it. `ThreadsGoOn` needs
  `WaitInv`: a careful thread owns the mutexes of its callbacks' connections
  only, and those are no other than the connection it waits for; who owns a
  mutex therefore waits for none but its own.
* **SchemaProofs**, for classes of any number of fields and attributes:
  `SavesReachOwnTable`, `RowsHaveObjects`, `RowsDiffer`, `KeysAreInRows`.
  The rows of the table were all accepted by `Rejected`, so two of them clash in
  no constraint; the fields do not change once there is a table.
  `RowsHaveObjects` needs `KnownInv`: a `_rowid_` is negative after an insert only
  where the class binds the constant -1 as its key, and another insert of the
  entity is then either refused by its own row or learns the same number.
  `SchemaTypes` and
  `FirstSaveSucceeds` need `TypeInv`: the rowids of the rows are integers with an
  upper bound, or there would be no greatest one to number the next row after.
  What `field()` makes of its attributes is a fold, and that the fold's equation
  holds and its result is a `field_info` is proved by contradiction, with the
  shortest sequence of attributes for which it fails (`AttributesMakeField`).
* **ConditionProofs**, for expressions of any size: `ParametersMatch` and
  `QueriesMeanWhatTheySay`. The invariant is that each query on the stack is
  balanced and that the grammar reads it as the expression it stands for; `Joined`
  and `Negated` keep it because the parentheses they write are found again by
  counting, so that a query is split where its operands were joined. That a
  function with the equation of `Parsed` exists (a CHOOSE says nothing if there is
  none) is proved from the shorter queries up, by the smallest counterexample again.

Only model-checked: `RangeForEnds` and `MutexIsReleased`, since liveness under
fairness and ENABLED are beyond the proof system used. Every other property of a
passing run is the subject of a theorem whose hypotheses that run's constants
meet. Where a theorem has hypotheses they are needed: the violations above are
behaviours without them, but for `Exclusive`, without which rows are shared by
the program's own doing. What the conversions of FieldCodec compute has no
theorem of its own; the proofs about Entity use it.

## Seen while modelling, without a run

* Rowids may be negative, and `save()` and `remove()` take the entity of such a
  row for one that is not stored: `_rowid_ >= 0` is their test, and
  `from_result` keeps any `_rowid_`.
* `reset()` after `remove()` gives the `row_id()` member the removed row's number
  back, since `remove()` leaves `m_db_vals` as it is.
* `execute()` while an iterator is on a row is that iterator's next step, and
  resets the statement under it: in programs that share statements `InOrder` and
  `RangeRunsOnce` do not hold.
* A value that does not fit a narrow member (`orm.h:122`) makes the entity
  modified as soon as it is read, and the next `save()` writes what is left of it.
* After ROLLBACK an entity inserted in the transaction still counts as stored
  (`orm.cpp:103`); its `save()` updates no row, or the one that was given its
  number since.
* The overloads for `std::optional` members that are times, texts, reals or blobs
  write `static_cast<const T*>(e)->*ptr.has_value()` without parentheses
  (`orm.h:197`, `209`, `221`, `233`), which does not compile when they are used.
* `select_multiple_shared<T>` with a `class_info` (`orm.h:385`) returns a vector of
  `shared_ptr` from a function declared to return one of `unique_ptr`.
* `"c"_c == db_value{db_null_type{}}` compares with `=` and an unbound parameter,
  which selects nothing; `== nullptr` gives `IS NULL`.
* A class with `row_id()` beside another key field cannot be saved (the unbound
  column is NOT NULL); if that field is nullable, the row holds a NULL where the
  entity records its `_rowid_`. A `row_id()` field that is a string throws after
  its row was inserted.
* With `schema()` every `save()` fails. `temporary()` and a schema other than temp
  fail at CREATE TABLE.
* An interrupt while no call runs and no statement is on a row has no effect on
  the calls to come. One that comes while a call runs ends that call. While an
  iterator is on a row, every call on the connection is interrupted until it is
  stepped or destroyed; after a callback that threw, for ever, and other threads
  wait for the mutex for ever.
* An empty vector is bound as NULL (`statement.cpp:85`), which a blob column that
  is not `nullable()` refuses: `save()` throws, and on `update()` the entity counts
  as unmodified afterwards.
* A `time_point` member loses what it has beyond the second by `save()` and
  `reset()` (`orm.h:133`); the entity does not count as modified by it.
* A `const int64_t` member that is a `primary_key()` but not `row_id()` is inserted
  as it was constructed. If that is -1, the row's number is -1, and the entity
  still counts as not stored: saving it again is refused.

## Not modelled, and limits

* The wording of SQL, `default_value()` (stored, and rendered nowhere) and
  foreign keys (SQLite enforces none unless the program asks it to). In Entity, a
  field made `nullable()` without being a `std::optional` (its setter throws on
  NULL, its getter never returns one); optionals narrower than their column,
  whose conversions compose two of those modelled (optionals of the other types
  do not compile, see above); array fields, which are several fields; seconds
  that `from_time_t` overflows on; parts of a second before 1970, which
  `to_time_t` may round either way (`Seconds` drops them).
* Rows that triggers and foreign keys change, which `sqlite3_total_changes` counts
  and `orm::remove` would report.
* Entity has one table of one class; entities of two classes meet in no shared
  state but the connection. Schema has a second class of the same name, and no
  `update()` or `remove()`: they name the table as `insert()` does.
* Destroying a statement, or assigning to it, under one of its iterators leaves
  that iterator dangling; the guards of Cursor exclude it. So do the guards of
  Connection for a database destroyed while a thread is in a call on it, or
  used after it was destroyed.
* Cursor, Entity, Schema, Condition: one thread. What threads share, in
  SharedConnection and Connection, is the connection; an entity or a statement
  shared by threads is a data race.
* The `error_category` and its messages: a table, nothing to check.
* Tests and build files.

## Plan

All of the modules planned are written: FieldCodec, Entity, Cursor,
SharedConnection, EntityPromise with its refinement, Connection, Schema,
Condition, and the proofs above. What could be added to them:

1. A composition of Connection with Cursor, for iterators of several statements
   on one connection that is interrupted; each module now abstracts the other's
   half.
2. Schema's rows as Entity's table, for the life of entities (update, remove)
   whose class has a composite key.
