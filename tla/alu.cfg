SPECIFICATION Spec
CONSTANTS
  Accumulators <- AllBytes
  Operands <- Chosen
  Statuses <- Flags
INVARIANTS
  BinaryAddition
  BinarySubtraction
  DecimalArithmetic
  Comparisons
  BitOperations
CHECK_DEADLOCK FALSE
