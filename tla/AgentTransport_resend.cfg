SPECIFICATION FairSpec
CONSTANTS
  Records = 1
  Sessions = 1
  Attempts = 1
  MaxRuns = 0
  MaxFaults = 1
PROPERTIES
  TelemetryResent
