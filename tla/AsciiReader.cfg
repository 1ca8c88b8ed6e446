SPECIFICATION FairSpec
CONSTANTS
  MaxLength = 4
  MaxComment = 6
  Documents <- MCDocuments
  FaultyDocuments <- MCFaultyDocuments
INVARIANT TokensAsSpecified
PROPERTY Terminates
