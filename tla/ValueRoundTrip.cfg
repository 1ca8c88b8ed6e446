SPECIFICATION RoundTripSpec
CONSTANTS
  Leaves = {1, 2, 3}
  Strings = {1, 2}
  MaxCalls = 7
  EditKeys = {0, 1, 2}
  EditItems <- MCEditItems
  MaxEdits = 2
INVARIANTS
  TypeOK
  FinishesWhole
  BuildsDescribed
  RebuildsSame
  ConsistentKeyOrder
PROPERTIES
  EventsWellFormed
  ImplementsMap
