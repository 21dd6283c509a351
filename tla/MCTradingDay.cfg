CONSTANTS
  A = A
  B = B
  C = C
  WatchSymbols <- MCWatchSymbols
  NoSymbol = NoSymbol
  UnwatchedSymbol = C
  REFERENCE_CAPTURE_TIME = 1
  Days = {0, 1}
  Times = {0, 1}
  Prices = {0, 985, 987, 990, 992, 1000}
  Rates = {0, 7000, 8000, 10000}
  MaxSequence = 1
SPECIFICATION Spec
INVARIANTS
  TypeOK
  SingleBuy
  GateAgreesWithPositions
  NoStaleCandidate
  LockBelongsToThePosition
PROPERTIES
  BuyIsJustified
  ImplementsDailyTrade
