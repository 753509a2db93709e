SPECIFICATION MCSpec
CONSTANTS
  Files <- MCFiles
  LongWords = {"long"}
  MAX_HOST_NUM = 20
  Calls <- MCCalls
  PAGESIZE = 4
  MAX_MEM_SIZE = 24
  IntMax = 127
  PtrMax = 1023
  Transfers <- MCTransfers
  MAX_WN_NUM = 1024
  MAX_MSG_SIZE = 40960
INVARIANTS TypeOK SegmentsFound NodesKnowThemselves PagesAgree RegionsSound NoticesArrive StampedOnce
\* a program that has started, allocated and transferred ends
CHECK_DEADLOCK FALSE
