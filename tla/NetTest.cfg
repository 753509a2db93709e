\* The code as written: TEST messages, lost datagrams, lost acknowledgements, early timeouts.
SPECIFICATION MCFairSpec
CONSTANTS
  hostnum = 2
  MAX_QUEUE_SIZE = 2
  MAX_RETRY_NUM = 2
  Program <- TestProgram
  SigioPoints <- RacePoints
  MaxLoss = 1
  MaxAckLoss = 1
  MaxLate = 1
INVARIANTS TypeOK AckedWasReceived
PROPERTIES ImplementsChannel ProgramsEnd
