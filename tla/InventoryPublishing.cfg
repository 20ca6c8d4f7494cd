CONSTANTS
  Calls = {p1, p2}
  Swarms = {s1}
  NoSwarm = NoSwarm
  NoCall = NoCall
  Files = {f1, f2}
  MaxRevision = 2
  MaxFaults = 1
SPECIFICATION Spec
SYMMETRY PublishingSymmetry
INVARIANTS SnapshotDescribesRows RevisionsAreFresh HostIsOneAhead StatusIsLive
CHECK_DEADLOCK FALSE
