SPECIFICATION FairSpec
CONSTANTS
  NbQueues = 2
  DEPTH = 2
  MaxPkts = 2
  nb_pkt_per_burst = 1
  RetryEnabled = FALSE
  burst_tx_retry_num = 0
  WaitPkg = TRUE
INVARIANTS
  FullInv
PROPERTIES
  StopCompletes
  PromiseSpec
