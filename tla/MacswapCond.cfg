SPECIFICATION FairSpec
CONSTANTS
  NbPorts = 2
  Streams = {"s1", "s2"}
  MaxTxFirst = 0
  MaxThreads = 4
PROPERTIES
  StopReturns
CHECK_DEADLOCK FALSE
