\* A checkpoint that fails half-way, or a process that dies.
CONSTANTS
  Nodes = {n1, n2}
  MaxEpoch = 4
  MaxLife = 2
  KeepCount = 2
  Faults = TRUE
SPECIFICATION Spec
INVARIANT LatestIsWhole
CHECK_DEADLOCK FALSE
