SPECIFICATION FairSpec
CONSTANTS
  Statement = {s1, s2}
  Iterator = {i1, i2}
  Handle = {h1, h2}
  MaxRows = 2
  MaxRuns = 2
  Sharing = {TRUE, FALSE}
  None = None
INVARIANT TypeOK
INVARIANT OwnedOnce
INVARIANT IdleWhenUnread
INVARIANT InOrder
INVARIANT RangeRunsOnce
PROPERTY RangeForEnds
