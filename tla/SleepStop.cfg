\* A Sleep whose input ends.
CONSTANTS
  Setups <- RestoredSleep
  Window = 2
  MaxTime = 3
  MaxData = 2
SPECIFICATION Spec
INVARIANT StopDrains
CHECK_DEADLOCK FALSE
