SPECIFICATION FairSpec
CONSTANTS
  Regs = {0, 1}
  Byte = {0, 1}
  MEMSIZE = 3
  Ram = {0}
  Pia = {1}
  Rom = {2}
  None = None
  RomData <- MCRomData
  FileSize = 2
  Repeats = FALSE
  MaxList = 2
INVARIANTS
  IInv
  AloneOnBus
PROPERTIES
  ImplementsCheckpoint
  Resumes
