SPECIFICATION FairSpec
CONSTANTS
  Handler <- opcodes
  Image <- BreaksImage
PROPERTIES
  ResetServed
