SPECIFICATION FairSpec
CONSTANTS
  NbQueues = 1
  DEPTH = 2
  MaxPkts = 5
  nb_pkt_per_burst = 2
  RetryEnabled = TRUE
  burst_tx_retry_num = 1
  WaitPkg = TRUE
INVARIANTS
  TypeOK
  CursorOrder
  SlotOwnership
  RxIntoFreeSlot
  InOrderOnce
  SwappedOnce
  StatsBalanced
  NoUseAfterFree
  NoMissedWakeup
  DrainMakesRoom
PROPERTIES
  GivenBatchesStable
  StopCompletes
  PromiseSpec
  SleepEndsUntilStop
