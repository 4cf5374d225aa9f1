SPECIFICATION Spec

CONSTANTS
  Keys = {k1, k2}
  Vals = {v1}
  Null = Null
  NoKey = NoKey
  NoFile = NoFile
  Torn = Torn
  Threads = {t1}
  Flushers = {t1}
  WalEnabled = TRUE
  EdgesUsed = TRUE
  V3Api = FALSE
  IoErrors = FALSE
  MaxWrites = 3
  MaxCrashes = 2
  MaxRecords = 0

INVARIANTS
  SubscriberConverges
  LogAgreesWithStore

PROPERTIES
  RecoversRecentStore
  TruncateKeepsLoggedData
