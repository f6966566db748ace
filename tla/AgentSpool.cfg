SPECIFICATION Spec
CONSTANTS
  r1 = r1
  r2 = r2
  r3 = r3
  Records <- MCTwo
  Names <- MCNames
  FileName <- MCDistinct
  MaxRetry = 2
  MaxCrashes = 2
  RenameMayFail = FALSE
  NoFile = NoFile
  Torn = Torn
INVARIANTS
  TypeOK
  NoSilentLoss
  ParkedAfterRetries
  RepostOnlyAfterDeath
PROPERTIES
  KeepsPromise
