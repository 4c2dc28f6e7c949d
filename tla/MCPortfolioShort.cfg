SPECIFICATION Spec
CONSTANTS
  Universe <- MCUniverse
  Unknown <- MCUnknown
  Price <- MCPrice
  Sector <- MCSector
  Books <- MCBooks
  Lot <- MCLot
  MaxTradesPerDay = 4
  MaxTradePct = 19
  MaxPositionPct = 55
  MinCashPct = 5
  MaxSectorPct = 65
  MaxGrossPct = 95
  TradeThresholdPct = 15
  MaxOrders = 7
INVARIANTS
  LongOnly
