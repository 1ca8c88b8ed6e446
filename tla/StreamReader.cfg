SPECIFICATION FairSpec
CONSTANTS
  v = v
  true = true
  MaxLength = 3
  NumObjects = 2
  MaxFaults = 2
  MaxErrors = 3
  Inputs <- MCInputs
  Booleans <- MCBooleans
  Parsable <- MCParsable
INVARIANT DeliversDocument
PROPERTY Recovers
