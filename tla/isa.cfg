SPECIFICATION FollowSpec
CONSTANTS
  Handler <- opcodes
  Image <- Pattern
  Starts <- Starts_All
INVARIANTS
  TypeOK
  StageBound
  FetchCoherent
PROPERTIES
  ImplementsIsa
  CycleAccurate
CHECK_DEADLOCK FALSE
