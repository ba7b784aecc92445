SPECIFICATION AllocatingSpec
CONSTANTS
  PoolSize = 8
  kRingDescN = 4
  kMaxBurstSize = 2
  MaxPkts = 4
INVARIANTS
  TypeOK
  ShortOnlyIfTxHolds
  MbufsAccounted
PROPERTIES
  PromiseSpec
  BurstsComplete
