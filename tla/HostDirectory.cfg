CONSTANTS
  Users = {u1}
  Swarms = {s1}
  Invitations = {i1, i2}
  Bridges = {b1, b2}
  None = None
  Calls = {c1, c2}
  MaxUses = 1
  MaxFaults = 1
SPECIFICATION Spec
SYMMETRY DirectorySymmetry
INVARIANTS WithinUses MembersCanConnect ReferencesHold OwnerNameHolds
CHECK_DEADLOCK FALSE
