\* Three hosts: a page shared under a lock, and a page with one writer.
SPECIFICATION MCSpec
CONSTANTS
  hostnum = 3
  PageIndex = {0, 1}
  Cell = {0, 1}
  BYTE = 4
  Lock = {0}
  Program <- SharedProgram
  SigioPoints <- FaultPoints
  MaxOps = 1
  MaxBarrier = 1
INVARIANTS ReadsLatest WaitersAnswered
