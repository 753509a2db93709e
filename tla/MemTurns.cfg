\* Writes in turns, separated by barriers only.
SPECIFICATION Spec
CONSTANTS
  hostnum = 2
  PageIndex = {0}
  Cell = {0}
  BYTE = 4
  Lock = {0}
  Program <- TurnsProgram
  SigioPoints <- FaultPoints
  MaxOps = 1
  MaxBarrier = 3
INVARIANTS ReadsLatest
CHECK_DEADLOCK FALSE
