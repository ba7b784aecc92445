SPECIFICATION FairSpec
CONSTANTS
  fwd_lcores_cpuids <- Forwarders
  NUM_CORE = 3
  Placements <- AnyTable
  Workers <- MCWorkers
  NbPorts = 3
  MaxQueues = 2
  Engines <- TwoEngines
  SwitchWhileForwarding = FALSE
INVARIANTS
  TypeOK
  RingsOutliveStages
  BothStagesRun
  NothingLeftBehind
PROPERTIES
  CommandsReturn
