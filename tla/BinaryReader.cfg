SPECIFICATION FairSpec
CONSTANTS
  Files <- MCFiles
  NumObjects = 3
  MaxRefs = 2
INVARIANTS
  TypeOK
  FlagsMatchStack
  DepthBounded
  StackIsPath
  WalkIsUnfolding
PROPERTIES
  
  Terminates
