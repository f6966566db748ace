SPECIFICATION FairSpec
VIEW MCView
CONSTANTS
  r1 = r1
  r2 = r2
  b1 = b1
  Events <- MCEvents
  Buckets <- MCBuckets
  BucketOf <- MCBucketOf
  Runs <- MCRuns
  Overlap = 1
  Lookback = 1
  Limit = 1
  MaxTime = 2
  MaxFaults = 1
  None = None
CHECK_DEADLOCK FALSE
INVARIANTS
  TypeOK
  NothingMissed
PROPERTIES
  EveryEventCounted
