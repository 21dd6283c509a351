CONSTANTS
  T1 = T1
  T2 = T2
  Threads = {T1, T2}
  NoThread = NoThread
  Services <- MCServices
  Keys <- MCKeys
  retry_attempts = 2
  MaxCalls = 2
  MaxTokens = 3
  MaxSaves = 1
SPECIFICATION FairSpec
INVARIANTS
  TypeOK
  OrdersAreTakenAsReported
  RejectedTokenIsGone
  CachedTokenIsNewest
  SettingsNameWrittenCredentials
PROPERTY EveryCallEnds
