CONSTANTS
  r1 = r1
  r2 = r2
  Requests = {r1, r2}
  MaxRetries = 2
  MaxWorkers = 2
SPECIFICATION PoolSpec
CHECK_DEADLOCK FALSE
INVARIANTS
  CallsRunUnderTimeout
