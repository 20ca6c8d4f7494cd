\* One transfer and two faults, under fairness.
SPECIFICATION FairSpec
CONSTANTS
  Transfers = {t1}
  Payloads = {kirby, zelda}
  Names = {gb}
  MaxFaults = 2
PROPERTIES EveryImportEnds StagingDrains
CHECK_DEADLOCK FALSE
