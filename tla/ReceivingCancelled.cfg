\* One transfer: Publish fails behind its link.
SPECIFICATION Spec
CONSTANTS
  Transfers = {t1}
  Payloads = {kirby, zelda}
  Names = {gb}
  MaxFaults = 1
INVARIANTS CancelledIsUndelivered
CHECK_DEADLOCK FALSE
