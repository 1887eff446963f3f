SPECIFICATION Spec
CONSTANTS
  Entity = {e1, e2}
  Field <- KeyBlobFields
  Kind <- KeyBlobKind
  Unique = {"a"}
  Rowid <- RowidsOfAny
  Value = {0, 1}
  NarrowMod = 2
  Ticks = 2
  MaxTag = 3
  Env = {"share", "sweep", "txn", "update_fault"}
  Null = Null
  Nullopt = Nullopt
  None = None
SYMMETRY EntitySymmetry
INVARIANT KeyFieldAgrees
INVARIANT ResetNeverThrows
INVARIANT SignTellsStored
PROPERTY WritesOwnRowOnly
PROPERTY SnapshotFollowsRow
