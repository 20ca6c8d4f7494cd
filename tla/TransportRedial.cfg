CONSTANTS
  Size = 3
  Buffer = 2
  MaxFaults = 1
SPECIFICATION Spec
PROPERTIES RedialsOnlyWhatBroke
CHECK_DEADLOCK FALSE
