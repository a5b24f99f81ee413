\* Sleep, restored or paused and resumed, Debounce, Deduplicate and a ticker.
CONSTANTS
  Setups <- AllSetups
  Window = 2
  MaxTime = 3
  MaxData = 3
SPECIFICATION FairSpec
INVARIANTS TypeOK SleepFifo DebounceQuiet DedupExact PendingHasTimer
PROPERTIES EveryMessageLeaves CancelTakesHold
CHECK_DEADLOCK FALSE
