CONSTANTS
  r1 = r1
  r2 = r2
  Requests = {r1, r2}
  MaxRetries = 3
  MaxWorkers = 1
SPECIFICATION PoolSpec
CHECK_DEADLOCK FALSE
INVARIANTS
  PoolTypeOK
  NothingQueuedInVain
PROPERTIES
  NeverMadeLate
  RetriesEnd
