SPECIFICATION FairSpec
VIEW MCView
CONSTANTS
  r1 = r1
  r2 = r2
  r3 = r3
  Records <- MCThree
  Names <- MCNames
  FileName <- MCMixed
  MaxRetry = 2
  MaxCrashes = 1
  RenameMayFail = TRUE
  NoFile = NoFile
  Torn = Torn
PROPERTIES
  QueueDrains
  LostOnlyFromRecovered
