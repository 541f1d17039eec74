CONSTANTS
  Worker = {w1}
  User = {u1, u2, u3}
  None = None
  GroupSize = 2
  BatchSize = 2
  PendingLimit = 2
  FailureModes = {"nothing"}
  FreeOnly = TRUE
  MaxMatches = 2
  MaxFailures = 0
  MaxDbFailures = 1
  MaxRestarts = 0
SPECIFICATION FairSpec
PROPERTIES
  FlushIsRetried
CHECK_DEADLOCK FALSE
