SPECIFICATION Spec
CONSTANTS
  Price = {1, 2}
  VolCapacity = 1
  SessionCapacity = 2
  VolMinWarmup = 1
  StrikeWarmupCount = 3
  TradeWarmup = 2
  Signal = {"basis", "obi"}
  MarketSide = {"yes"}
  MaxMarkets = 2
  MaxPrices = 4
  GoDark = 6
  GoLive = 3
INVARIANTS TypeOK VolWindow StrikeIsMedian PricedOnThisMarket
PROPERTIES DarkWithReason
