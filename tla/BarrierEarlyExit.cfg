\* The code as written: the flags are reset after the last EXIT_BARRIER.
SPECIFICATION Spec
CONSTANTS
  hostnum = 2
  SigioPoints = {"reset"}
  MaxBarrier = 2
  MaxInterval = 0
INVARIANTS ExitMeansAllEntered
CHECK_DEADLOCK FALSE
