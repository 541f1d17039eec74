CONSTANTS
  Worker = {w1}
  User = {u1, u2, u3}
  None = None
  GroupSize = 2
  BatchSize = 2
  PendingLimit = 2
  FailureModes = {"nothing"}
  FreeOnly = TRUE
  MaxMatches = 1
  MaxFailures = 0
  MaxDbFailures = 0
  MaxRestarts = 1
SPECIFICATION Spec
SYMMETRY UserSymmetry
INVARIANTS
  AckedHasItsRow
CHECK_DEADLOCK FALSE
