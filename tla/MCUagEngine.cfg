CONSTANTS
  A = A
  B = B
  WatchSymbols <- MCWatchSymbols
  NoSymbol = NoSymbol
  REFERENCE_CAPTURE_TIME = 2
  QuotePrices <- MCQuotePrices
  BackfillPrices = {1000}
  Affordable = {TRUE}
  DryRuns = {FALSE}
  MaxBatch = 1
  MaxRestarts = 1
SPECIFICATION Spec
INVARIANTS
  TypeOK
  OneOrderPerSymbolAndSide
  OneBuyPerSession
  RecordedBeforeSent
  FileIsCurrent
PROPERTIES
  DayIsNeverForgotten
CHECK_DEADLOCK FALSE
