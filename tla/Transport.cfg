CONSTANTS
  Size = 3
  Buffer = 2
  MaxFaults = 3
SPECIFICATION FairSpec
INVARIANTS InOrder
PROPERTIES BothReturn DeliveredInPeace
CHECK_DEADLOCK FALSE
