CONSTANTS
  p1 = p1
  p2 = p2
  p3 = p3
  p4 = p4
  w1 = w1
  w2 = w2
  Worker = {w1, w2}
  Ingestion = Ingestion
  Snapshotter = Snapshotter
  None = None
  Player = {p1, p2, p3, p4}
  RatingOf <- RatingsApart
  TeamSize = 1
  NumBuckets = 4
  BucketWidth = 10
  Stride = 1
  Interval = 1
  LastArrival = 0
  MaxClock = 1
  CounterRange = 16
SPECIFICATION Spec
SYMMETRY PoolSymmetry
INVARIANTS
  TypeOK
  NobodyLost
  NobodyTwice
  AtHome
  DepthReconciles
  NarrowGroups
PROPERTIES
  ProvidesService
