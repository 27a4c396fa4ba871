SPECIFICATION PoolFairSpec
CONSTANTS
  Containers = {c1, c2, c3}
  Deliveries = {d1, d2, d3}
  PoolSize = 2
  PoolFaults = {"create", "start", "die", "prune", "exec", "kill", "remove", "crash"}
  None = None
INVARIANTS
  PoolTypeOK
  Exclusive
  RunningBound
  LeakBound
  PoolInv
PROPERTIES
  LendingSpec
  GetReturns
CHECK_DEADLOCK FALSE
