SPECIFICATION Spec
CONSTANTS
  Clocks <- MCClocks
  MaxId = 2
  MaxSeq = 2
  MaxNow = 3
INVARIANTS
  TypeOK
  OrdersCheckedOrApproved
PROPERTIES
  EscalationReachesQueue
  PassedTradeIsPlaced
