SPECIFICATION FairSpec
CONSTANTS
  Records = 2
  Sessions = 2
  Attempts = 2
  MaxRuns = 1
  MaxFaults = 3
INVARIANTS
  LossesPaid
  RepeatsPaid
PROPERTIES
  WorktimeDrains
