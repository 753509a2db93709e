\* The repository's memory test: a counter under a lock, read after the last barrier.
SPECIFICATION MCSpec
CONSTANTS
  hostnum = 2
  PageIndex = {0}
  Cell = {0}
  BYTE = 4
  Lock = {0}
  Program <- TestProgram
  SigioPoints <- FaultPoints
  MaxOps = 2
  MaxBarrier = 2
INVARIANTS TypeOK ReadsLatest WrittenOnce TwinWhileWritable
PROPERTIES TimestampsAdvance
