CONSTANTS
  Conns = {c1, c2, c3, c4}
  Grants = {g1, g2}
  NoConn = NoConn
  MaxBytes = 2
  Limits = {1, 2}
  MaxLeaves = 1
SPECIFICATION Spec
SYMMETRY RelaySymmetry
INVARIANTS SessionsAreApart SlotsAreCounted BudgetHolds OffsetIsExact
PROPERTIES RevokedMovesNothing
CHECK_DEADLOCK FALSE
