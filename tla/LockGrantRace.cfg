\* The code as written, with a lock its manager uses too.
SPECIFICATION Spec
CONSTANTS
  hostnum = 2
  LOCK_NUM = 1
  MAX_HOST_NUM = 2
  Users <- AllUsers
  SigioPoints <- RacePoints
  Garbage = {0}
INVARIANTS GrantMeansOwner
