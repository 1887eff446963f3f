SPECIFICATION Spec
CONSTANTS
  Thread = {t1, t2}
  MaxRow = 3
  MaxChanges = 6
  IntMax = 3
  Locking = {TRUE, FALSE}
SYMMETRY ThreadSymmetry
CHECK_DEADLOCK FALSE
INVARIANT TypeOK
INVARIANT LockedSaveIsOwn
PROPERTY RemoveCountIsExact
PROPERTY RemoveCountIsEnough
