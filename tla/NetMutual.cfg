\* Nothing is lost and no timeout is early: a lock is handed on while pages are fetched.
SPECIFICATION Spec
CONSTANTS
  hostnum = 3
  MAX_QUEUE_SIZE = 3
  MAX_RETRY_NUM = 2
  Program <- MutualProgram
  SigioPoints = {}
  MaxLoss = 0
  MaxAckLoss = 0
  MaxLate = 0
INVARIANTS SentMeansAcked
CHECK_DEADLOCK FALSE
