SPECIFICATION Spec
CONSTANTS
  Entity = {e1, e2}
  Field <- HiddenFields
  Kind <- HiddenKind
  Unique = {}
  Rowid <- Rowids
  Value = {0, 1, 2}
  NarrowMod = 2
  Ticks = 2
  MaxTag = 2
  Env = {}
  Null = Null
  Nullopt = Nullopt
  None = None
SYMMETRY EntitySymmetry
PROPERTY SaveUnmodifiedIsNoop
PROPERTY KeepsPromise
