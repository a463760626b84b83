SPECIFICATION FairSpec
CONSTANTS
  Handler <- opcodes
  Image <- LoopImage
PROPERTIES
  ResetSequenceNeverWrites
  InstructionsEnd
  ResetServed
