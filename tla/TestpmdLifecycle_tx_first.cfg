SPECIFICATION FairSpec
CONSTANTS
  fwd_lcores_cpuids <- Forwarders
  NUM_CORE = 3
  Placements <- GoodTable
  Workers <- MCWorkers
  NbPorts = 3
  MaxQueues = 2
  Engines <- TxFirstEngine
  SwitchWhileForwarding = FALSE
PROPERTIES
  StartTxFirstForwards
CHECK_DEADLOCK FALSE
