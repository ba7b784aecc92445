SPECIFICATION Spec
CONSTANTS
  PoolSize = 8
  kRingDescN = 4
  kMaxBurstSize = 2
  MaxPkts = 6
INVARIANTS
  AssertsHold
CHECK_DEADLOCK FALSE
