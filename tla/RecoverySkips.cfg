CONSTANTS
  w1 = w1
  Worker = {w1}
  Latest = Latest
  NumBuckets = 2
  Home <- HomeInTwo
  GroupSize = 2
  BatchSize = 2
  Interval = 1
  Kept = 1
  CounterRange = 16
  MaxLag = 1
  MaxEntries = 2
  MaxClock = 3
  MaxFailures = 1
  MaxRestarts = 2
SPECIFICATION Spec
INVARIANTS
  NeverSkips
CHECK_DEADLOCK FALSE
