SPECIFICATION Spec
CONSTANTS
  MaxLength = 3
  MaxComment = 2
  Documents <- MCDocuments
  FaultyDocuments = {}
INVARIANT SlashStringsAsSpecified
