SPECIFICATION Spec
CONSTANTS
  r1 = r1
  r2 = r2
  r3 = r3
  Records <- MCTwo
  Names <- MCNames
  FileName <- MCColliding
  MaxRetry = 2
  MaxCrashes = 0
  RenameMayFail = FALSE
  NoFile = NoFile
  Torn = Torn
PROPERTIES
  NeverRemovedUnsent
