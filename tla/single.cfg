SPECIFICATION Spec
CONSTANTS
  MaxOrders = 3
  MaxMarkets = 1
  ChannelCap = 8
  MaxOrderSize = 2
  MinOrderSize = 1
  MaxBatches = 2
  MaxUnpaired = 1
  RebalanceThreshold = 2
  RebalanceSize = 2
  ClobMin = 1
  HeartbeatDeadThreshold = 1
  FokSlack = 1
  Faults <- NoFaults
  Inputs <- AllInputs
INVARIANTS TypeOK SettledExact FilledMirrorsCounted FlagsMirrorPipeline OneLiveOrderPerSide NoOrphan MakerCap ImbalanceBounded DrainBeforeRotation
CHECK_DEADLOCK FALSE
