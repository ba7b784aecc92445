SPECIFICATION Spec
CONSTANTS
  Items = {x1, x2}
  NoItem = NoItem
  Keys = {k1, k2}
  Hashes = {k1, k2}
  hash <- OwnLock
  AllocTries = 3
  PullTries = 2
  MaxSets = 3
  MaxGets = 2
INVARIANTS
  EvictionMakesRoom
CHECK_DEADLOCK FALSE
