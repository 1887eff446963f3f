SPECIFICATION Spec
CONSTANTS
  Entity = {e1, e2}
  Field <- KeyWideFields
  Kind <- KeyWideKind
  Unique = {"a"}
  Rowid <- Rowids
  Value = {0, 1}
  NarrowMod = 2
  Ticks = 2
  MaxTag = 3
  Env = {}
  Null = Null
  Nullopt = Nullopt
  None = None
SYMMETRY EntitySymmetry
INVARIANT CleanMeansPersisted
