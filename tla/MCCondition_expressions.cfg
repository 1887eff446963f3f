SPECIFICATION Spec
CONSTANTS
  Column <- OneColumn
  MaxAtoms = 3
  MaxNots = 2
INVARIANT TypeOK
INVARIANT MeansWhatItSays
CHECK_DEADLOCK FALSE
