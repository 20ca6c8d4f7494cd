CONSTANTS
  Size = 3
  Buffer = 2
  MaxFaults = 1
SPECIFICATION Spec
INVARIANTS SwitchLosesNothing
CHECK_DEADLOCK FALSE
