\* Two nodes, two epochs, one of them injected from outside, channels of two places, duplicates.
CONSTANTS
  Nodes = {n1, n2}
  Epochs = {1, 2}
  External = {2}
  Cap = 2
  Duplicates = TRUE
  Cancels = TRUE
SPECIFICATION FairSpec
INVARIANT CallbackOnce
PROPERTIES ImplementsTracking EventuallyComplete
CHECK_DEADLOCK FALSE
