CONSTANTS
  TeamSize = 3
  Rating = {0, 70, 300}
SPECIFICATION Spec
INVARIANTS
  TypeOK
  SanctionIsTransport
  BestSoFar
  FairResult
CHECK_DEADLOCK FALSE
