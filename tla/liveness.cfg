SPECIFICATION FairSpec
CONSTANTS
  MaxOrders = 1
  MaxMarkets = 2
  ChannelCap = 8
  MaxOrderSize = 1
  MinOrderSize = 1
  MaxBatches = 1
  MaxUnpaired = 1
  RebalanceThreshold = 1
  RebalanceSize = 1
  ClobMin = 1
  HeartbeatDeadThreshold = 1
  FokSlack = 0
  Faults = {"cancelAll", "status", "post", "prewarm"}
  Inputs = {"drain", "pause"}
INVARIANTS FlagsNeverStuck
PROPERTIES SidesUnblock DrainEnds
CHECK_DEADLOCK FALSE
