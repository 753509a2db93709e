\* One store after the other, SIGIO open at the quiet points and masked at the others: whoever waits gets the lock.
SPECIFICATION FairSpec
CONSTANTS
  hostnum = 3
  LOCK_NUM = 1
  MAX_HOST_NUM = 3
  Users <- AllUsers
  SigioPoints <- QuietPoints
  Garbage = {0}
PROPERTIES LockGranted
