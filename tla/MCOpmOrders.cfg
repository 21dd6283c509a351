CONSTANTS
  buy = buy
  sell = sell
  Orders = {buy, sell}
  side_of <- MCSideOf
  requested_qty <- MCRequestedQty
  FillPrices <- MCFillPrices
  MaxFills = 2
  MaxFailures = 1
SPECIFICATION Spec
INVARIANTS
  TypeOK
  FillsCountOnce
  PositionFollowsFills
  FilledIsExecuted
  AveragesAreExact
PROPERTIES
  StatusFollowsTransitions
