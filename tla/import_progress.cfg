SPECIFICATION ProgressFairSpec
CONSTANTS
  Loads = {"l1", "l2"}
  MaxEvents = 1
  MaxRuns = 2
  MaxMisses = 1
INVARIANT NeverAhead
PROPERTY ListSettles
CHECK_DEADLOCK FALSE
