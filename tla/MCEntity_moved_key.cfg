SPECIFICATION Spec
CONSTANTS
  Entity = {e1, e2}
  Field <- PkFieldsOf
  Kind <- PkKind
  Unique = {}
  Rowid <- SignedRowids
  Value <- SignedValues
  NarrowMod = 2
  Ticks = 2
  MaxTag = 3
  Env = {}
  Null = Null
  Nullopt = Nullopt
  None = None
SYMMETRY EntitySymmetry
INVARIANT StoredRowIsOwn
