\* What Build lets pass.  Each of the three is violated: run TLC with -continue.
CONSTANTS
  Ids = {1, 2}
  Limits <- SmallOnly
SPECIFICATION Spec
INVARIANTS OwnBuffers OnePort DeadLetterHasBuffer
CHECK_DEADLOCK FALSE
