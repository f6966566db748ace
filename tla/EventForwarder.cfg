SPECIFICATION FairSpec
CONSTANTS
  Kinds <- MCKinds
  Buckets <- MCBuckets
  Hooks <- MCHooks
  Times <- MCTimes
  MaxId = 3
  Limit = 2
  Retries = 2
  MaxFaults = 2
  NoEvent = NoEvent
INVARIANTS
  TypeOK
  CursorExplained
  RepeatedPerFault
PROPERTIES
  FirstInOrder
  Forwarded
