SPECIFICATION FairSpec
CONSTANTS
  SECOND = 16
  TICKS_FOR_SYNC = 2
  BUDGET = 8
  CLOCK_SPEED = 4
  GRANULARITY = 1
  FAST = 1
  OVERSLEEP = 1
  SLOW = {3, 14}
  LATE = {2}
  MaxTrouble = 1
  MaxLead = 2
INVARIANTS
  Paced
PROPERTIES
  Settles
CHECK_DEADLOCK FALSE
