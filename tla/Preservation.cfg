SPECIFICATION InputSpec
CONSTANTS
  Aliases = {b1, b2, b3}
  Domains = {d1, d2}
  NoDomain = NoDomain
  Files = {f1, f2}
  Expected = {f1, f2}
  Window = 1
  AtRiskAt = 1
  FragileAt = 2
  ResilientAt = 3
  MaxTime = 3
  MaxRecords = 3
SYMMETRY Symmetry
INVARIANTS ReplicasAreReal CoverageAddsUp
CHECK_DEADLOCK FALSE
