SPECIFICATION Spec
CONSTANTS
  r1 = r1
  i1 = i1
  Imports = {i1}
  RetryReqs = {r1}
  NoImport = NoImport
  MaxRows = 3
  BatchSize = 2
  MaxAttempts = 2
  MaxStalls = 1
  Concurrency = 2
  MaxFaults = 2
  MaxCrashes = 2
INVARIANT FileLifetime
INVARIANT TypeOK
INVARIANT ProgressIsBacked
INVARIANT CompletedIsWhole
INVARIANT EventsAreBacked
INVARIANT QuietHasVerdict
INVARIANT OneVerdict
INVARIANT RetriedNeverCompletes
PROPERTY CompletedUndoneOnlyByCreate
CHECK_DEADLOCK FALSE
