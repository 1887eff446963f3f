SPECIFICATION FairSpec
CONSTANTS
  Thread = {t1, t2}
  Database = {d1, d2}
  Statement = {s1}
  Conn = {c1, c2}
  MaxDepth = 2
  Careful = {TRUE, FALSE}
  None = None
INVARIANT TypeOK
INVARIANT ConnectionsAreKept
INVARIANT NoDeadlock
PROPERTY InterruptsPass
PROPERTY MutexIsReleased
CHECK_DEADLOCK FALSE
