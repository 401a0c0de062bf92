SPECIFICATION FairSpecOfFewFiles
CONSTANTS
  r1 = r1
  i1 = i1
  Imports = {i1}
  RetryReqs = {r1}
  NoImport = NoImport
  MaxRows = 2
  BatchSize = 1
  MaxAttempts = 2
  MaxStalls = 1
  Concurrency = 2
  MaxFaults = 2
  MaxCrashes = 1
PROPERTY QueueDrains
PROPERTY QueuedImportsEnd
CHECK_DEADLOCK FALSE
