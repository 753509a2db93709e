\* SIGIO masked at the race points: every host uses every lock.
SPECIFICATION Spec
CONSTANTS
  hostnum = 3
  LOCK_NUM = 2
  MAX_HOST_NUM = 3
  Users <- AllUsers
  SigioPoints = {}
  Garbage = {0}
INVARIANTS TypeOK MutualExclusion WaiterRemembered WaitingListIsQueue WokenWithLock NoticesFromLastReleaser WokenManagerFetches GrantMeansOwner
PROPERTIES ImplementsLockService
