SPECIFICATION Spec
CONSTANTS
  Base = 4
  Inline = 2
  MaxObjects = 18
  Files <- MCFiles
  Unpaired <- MCUnpaired
  NotFinite <- MCNotFinite
INVARIANTS
  
  OverrunIsHeader
  FlagsWithinTable
  ValuesReadBack
PROPERTY ReadsTable
