SPECIFICATION FairRoundTripSpec
CONSTANTS
  b = b
  i = i
  Strings = {s}
  Datas = {d}
  Texts <- MCTexts
  Booleans <- MCBooleans
  Uids = {u}
  Documents <- MCDocuments
  MaxTokens = 3
  FaultyIO = TRUE
  EmptyKeys = FALSE
  MaxCalls = 6
INVARIANTS
  OutputNested
  XmlReadsBack
  EventsMatchElements
PROPERTIES
  AcceptsWellFormed
  ReadToTheEnd
