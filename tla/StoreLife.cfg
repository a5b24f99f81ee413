\* File operations that fail, and a process that dies and is started again.
CONSTANTS
  Nodes = {n1, n2}
  MaxEpoch = 4
  MaxLife = 2
  KeepCount = 2
  Faults = TRUE
SPECIFICATION Spec
INVARIANT SurvivesFirstCrash
PROPERTY CleanupKeeps
CHECK_DEADLOCK FALSE
