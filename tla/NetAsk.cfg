\* SIGIO masked at the race points: questions answered by handlers, a lock handed on.
SPECIFICATION MCFairSpec
CONSTANTS
  hostnum = 3
  MAX_QUEUE_SIZE = 3
  MAX_RETRY_NUM = 2
  Program <- AskProgram
  SigioPoints = {}
  MaxLoss = 0
  MaxAckLoss = 0
  MaxLate = 0
INVARIANTS QueueDrained QueueHasRoom SlotStaysMine WokenByAnswer SentMeansAcked
PROPERTIES ImplementsChannel ProgramsEnd
