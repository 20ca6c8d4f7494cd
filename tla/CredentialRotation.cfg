SPECIFICATION Spec
CONSTANTS
  Calls = {c1, c2}
  Owner = owner
  NoOne = noone
  Grace = 1
  MaxTokens = 4
  MaxLosses = 2
INVARIANTS SpentAtMostTwice InterruptionIsRecoverable
PROPERTIES ReuseHappened RevocationSticks
SYMMETRY CallSymmetry
