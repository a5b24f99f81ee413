\* A Sleep whose timers are restored.
CONSTANTS
  Setups <- RestoredSleep
  Window = 2
  MaxTime = 3
  MaxData = 2
SPECIFICATION Spec
INVARIANT SleepDelays
CHECK_DEADLOCK FALSE
