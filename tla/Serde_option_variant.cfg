SPECIFICATION RoundTripSpec
CONSTANTS
  Inputs <- VariantInputs
  Values <- VariantValues
  Atoms <- MCAtoms
  Typed <- VariantTyped
  Disturbed = {}
  Strings <- MCStrings
  Dates <- MCDates
  Reals <- MCReals
  Uids <- MCUids
  FaultyWriter = FALSE
  Depth = 1
INVARIANT OptionsReachable
