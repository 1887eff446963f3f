SPECIFICATION Spec
CONSTANTS
  Entity = {e1, e2}
  Schemas <- SomeSchemas
  MaxFields = 2
  MaxAttributes = 2
  UniqueIds <- Ids
  Null = Null
  None = None
SYMMETRY EntitySymmetry
INVARIANT TypeOK
INVARIANT SavedKeyIsInRow
INVARIANT RowsDifferAsDeclared
 
PROPERTY SavedInOwnTable
PROPERTY FirstEntityIsSaved
