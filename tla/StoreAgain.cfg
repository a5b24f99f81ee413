\* A process that is started again on the same directory; nothing fails.
CONSTANTS
  Nodes = {n1, n2}
  MaxEpoch = 2
  MaxLife = 2
  KeepCount = 1
  Faults = FALSE
SPECIFICATION Spec
INVARIANT LastSavedSurvives
CHECK_DEADLOCK FALSE
