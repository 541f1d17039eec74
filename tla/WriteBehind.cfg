CONSTANTS
  Worker = {w1}
  User = {u1, u2, u3}
  None = None
  GroupSize = 2
  BatchSize = 2
  PendingLimit = 2
  FailureModes = {"nothing", "tickets", "all"}
  FreeOnly = FALSE
  MaxMatches = 2
  MaxFailures = 2
  MaxDbFailures = 1
  MaxRestarts = 1
SPECIFICATION Spec
SYMMETRY UserSymmetry
INVARIANTS
  TypeOK
  AckedIsStored
  PlayedCountsRows
  SingleActiveMatch
  KeptUntilCrash
  PublishedOnce
CHECK_DEADLOCK FALSE
