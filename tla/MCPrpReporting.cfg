CONSTANTS
  A = A
  B = B
  Traded = {A, B}
  MarketPrice <- MCMarketPrice
  Quantities <- MCQuantities
  MaxExecutions = 4
  MaxCrashes = 1
SPECIFICATION Spec
INVARIANTS
  TypeOK
  PairsAreFirstInFirstOut
  ReportIsTheSumOfDetails
PROPERTIES
  LateExecutionsOnlyAdd
