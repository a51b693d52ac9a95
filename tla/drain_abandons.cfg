SPECIFICATION Spec
CONSTANTS
  MaxOrders = 2
  MaxMarkets = 2
  ChannelCap = 8
  MaxOrderSize = 2
  MinOrderSize = 1
  MaxBatches = 2
  MaxUnpaired = 1
  RebalanceThreshold = 2
  RebalanceSize = 2
  ClobMin = 1
  HeartbeatDeadThreshold = 1
  FokSlack = 0
  Faults <- NoFaults
  Inputs = {"drain"}
INVARIANTS DrainResolves
CHECK_DEADLOCK FALSE
