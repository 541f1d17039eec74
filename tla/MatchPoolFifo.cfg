CONSTANTS
  p1 = p1
  p2 = p2
  p3 = p3
  p4 = p4
  w1 = w1
  w2 = w2
  Worker = {w1, w2}
  Ingestion = Ingestion
  Snapshotter = Snapshotter
  None = None
  Player = {p1, p2, p3}
  RatingOf <- RatingsTrio
  TeamSize = 1
  NumBuckets = 3
  BucketWidth = 50
  Stride = 1
  Interval = 2
  LastArrival = 1
  MaxClock = 1
  CounterRange = 16
SPECIFICATION Spec
INVARIANTS
  Fifo
