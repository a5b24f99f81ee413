\* A Sleep that is paused while a message waits.
CONSTANTS
  Setups <- PausedSleep
  Window = 2
  MaxTime = 3
  MaxData = 2
SPECIFICATION FairSpec
PROPERTY ResumeTakesHold
CHECK_DEADLOCK FALSE
