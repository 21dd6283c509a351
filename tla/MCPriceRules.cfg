CONSTANTS
  MaxTicks = 14
SPECIFICATION WalkSpec
INVARIANTS
  BuyLimitIsTwoLadderStepsUp
  SellLimitIsMarketable
  ToleranceNeverDecides
  EveryLowHasABuyPrice
CHECK_DEADLOCK FALSE
