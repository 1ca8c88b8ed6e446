SPECIFICATION FairRoundTripSpec
CONSTANTS
  Values = {s, t, n}
  Strings = {s, t}
  FaultyIO = TRUE
  MaxCalls = 7
INVARIANTS
  TypeOK
  NoPanic
  LayoutAsDocumented
  ObjectTableComplete
  ReadsBack
PROPERTIES
  AcceptsWellFormed
  CallsReturn
