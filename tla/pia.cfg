SPECIFICATION MCFairSpec
CONSTANTS
  Keys <- MCKeys
  Accesses <- MCAccesses
  MAX_COLUMNS = 2
  MaxTyped = 3
INVARIANTS
  IInv
  ColumnBound
  EchoInOrder
PROPERTIES
  ImplementsChannel
  KeysShown
