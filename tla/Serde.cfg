SPECIFICATION RoundTripSpec
CONSTANTS
  Inputs <- MCInputs
  Values <- MCValues
  Atoms <- MCAtoms
  Typed <- MCTyped
  Disturbed <- MCDisturbed
  Strings <- MCStrings
  Dates <- MCDates
  Reals <- MCReals
  Uids <- MCUids
  FaultyWriter = TRUE
  Depth = 3
INVARIANTS
  WritesWholePlist
  ModeRestored
  DeserializesBack
  ReadsWholePlist
  DeserializerModeRestored

