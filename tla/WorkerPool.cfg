\* Plain and pooled operators under the three error strategies.
CONSTANTS
  Setups <- AllSetups
  Size = 2
  DLCap = 1
  Signals = {"thenStop", "stop"}
  MaxData = 3
SPECIFICATION FairSpec
INVARIANTS SignalsBehindData CheckpointCovers NoneForgotten DeadLettersDelivered
PROPERTY Ends
CHECK_DEADLOCK FALSE
