CONSTANTS
  Conns = {c1, c2, c3, c4}
  Grants = {g1}
  NoConn = NoConn
  MaxBytes = 2
  Limits = {2}
  MaxLeaves = 1
SPECIFICATION Spec
SYMMETRY RelaySymmetry
PROPERTIES RevokeEndsGrant
CHECK_DEADLOCK FALSE
