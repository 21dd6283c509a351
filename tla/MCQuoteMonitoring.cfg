CONSTANTS
  A = A
  B = B
  WatchSymbols <- MCWatchSymbols
  NoSymbol = NoSymbol
  REFERENCE_CAPTURE_TIME = 1
  consecutive_error_threshold = 3
  recovery_success_threshold = 2
  PollPrices <- MCPollPrices
SPECIFICATION FairSpec
INVARIANTS
  TypeOK
  BlockedIffDegraded
  QuotesKeepTheirSymbols
PROPERTIES
  HysteresisFollowsHistory
  NoBuyFromFailingFeed
  HealthyFeedUnblocks
  StopEndsTheWorker
