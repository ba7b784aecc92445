SPECIFICATION FairSpec
CONSTANTS
  Pollers <- TwoPollers
  StreamsOf <- ByQueue
  Queues <- ThreeStreams
  rx_queue <- QueueOf
  NUM_CORE = 2
  my_lcore_id <- OtherLcores
  MaxPkts = 2
  nb_pkt_per_burst = 2
INVARIANTS
  TypeOK
  TransmitProcessed
  HandoffExclusive
  LaunchSucceeds
PROPERTIES
  PromiseSpec
