SPECIFICATION FairSpec
CONSTANTS
  MEMSIZE = 16
  MAX_USER_RAM = 6
  START_EXTRA_RAM = 9
  END_EXTRA_RAM = 10
  START_ROM = 12
  END_ROM = 15
  KBD = 6
  DSPCR = 7
  RESET_VECTOR = 12
  SIZE = 64
  ERROR_MEMORY_ALLOC <- MCErrorAlloc
  ERROR_READ_FILE <- MCErrorRead
  ERROR_OPEN_FILE <- MCErrorOpen
  FileSizes = {0, 2, 4, 5}
  UserRam = {0, 1, 6, 7, 63}
  LoadAddrs = {0, 5, 11, 12}
INVARIANTS
  IInv
  MemoryMap
PROPERTIES
  Starts
CHECK_DEADLOCK FALSE
