SPECIFICATION LSpec
CONSTANTS
  Pollers <- OnePoller
  StreamsOf <- OnlyStream
  Queues <- OneStream
  rx_queue <- QueueOf
  NUM_CORE = 1
  my_lcore_id <- OtherLcore
  MaxPkts = 2
  nb_pkt_per_burst = 1
INVARIANTS
  SentSwapped
CHECK_DEADLOCK FALSE
