CONSTANTS
  Worker = {w1}
  User = {u1, u2}
  None = None
  GroupSize = 2
  BatchSize = 2
  PendingLimit = 2
  FailureModes = {"nothing", "all"}
  FreeOnly = FALSE
  MaxMatches = 2
  MaxFailures = 1
  MaxDbFailures = 0
  MaxRestarts = 0
  MaxPosts = 4
SPECIFICATION BackendSpec
INVARIANTS
  BackendTypeOK
  OneSeatPerLapse
PROPERTIES
  PollingEnds
CHECK_DEADLOCK FALSE
