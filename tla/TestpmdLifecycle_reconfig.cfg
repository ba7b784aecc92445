SPECIFICATION FairSpec
CONSTANTS
  fwd_lcores_cpuids <- Forwarders
  NUM_CORE = 3
  Placements <- GoodTable
  Workers <- MCWorkers
  NbPorts = 3
  MaxQueues = 2
  Engines <- TwoEngines
  SwitchWhileForwarding = TRUE
INVARIANTS
  BothStagesRun
CHECK_DEADLOCK FALSE
