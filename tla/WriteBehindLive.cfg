CONSTANTS
  Worker = {w1, w2}
  User = {u1, u2, u3, u4}
  None = None
  GroupSize = 2
  BatchSize = 2
  PendingLimit = 2
  FailureModes = {"nothing"}
  FreeOnly = TRUE
  MaxMatches = 3
  MaxFailures = 3
  MaxDbFailures = 0
  MaxRestarts = 0
SPECIFICATION FairSpec
INVARIANTS
  PublishedOnce
PROPERTIES
  FormedIsStored
CHECK_DEADLOCK FALSE
