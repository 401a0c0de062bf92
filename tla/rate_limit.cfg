SPECIFICATION Spec
CONSTANTS
  login = login
  confirm = confirm
  Keys <- MCKeys
  Limit <- MCLimit
  Ttl <- MCTtl
  SweepInterval = 2
  MaxBuckets = 2
  MaxTime = 7
  MaxRequests = 3
  MaxRestarts = 1
INVARIANT SlidingBound
PROPERTY IsFixedWindow
PROPERTY DeadBucketsGo
CHECK_DEADLOCK FALSE
