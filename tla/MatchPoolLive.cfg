CONSTANTS
  p1 = p1
  p2 = p2
  p3 = p3
  p4 = p4
  w1 = w1
  w2 = w2
  Worker = {w1}
  Ingestion = Ingestion
  Snapshotter = Snapshotter
  None = None
  Player = {p1, p2, p3}
  RatingOf <- RatingsNear
  TeamSize = 1
  NumBuckets = 3
  BucketWidth = 64
  Stride = 2
  Interval = 2
  LastArrival = 1
  MaxClock = 3
  CounterRange = 16
SPECIFICATION FairSpec
INVARIANTS
  Fifo
  AnchorServed

  
