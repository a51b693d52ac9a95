SPECIFICATION FairSpec
CONSTANTS
  MaxOrders = 2
  MaxMarkets = 1
  ChannelCap = 8
  MaxOrderSize = 1
  MinOrderSize = 1
  MaxBatches = 1
  MaxUnpaired = 1
  RebalanceThreshold = 1
  RebalanceSize = 1
  ClobMin = 1
  HeartbeatDeadThreshold = 1
  FokSlack = 0
  Faults = {"post"}
  Inputs = {"drain"}
PROPERTIES HedgeUnblocks
CHECK_DEADLOCK FALSE
