SPECIFICATION Spec

CONSTANTS
  Keys = {k1}
  Vals = {v1}
  Null = Null
  NoKey = NoKey
  NoFile = NoFile
  Torn = Torn
  Threads = {t1}
  Flushers = {t1}
  WalEnabled = TRUE
  EdgesUsed = FALSE
  V3Api = FALSE
  IoErrors = FALSE
  MaxWrites = 2
  MaxCrashes = 1
  MaxRecords = 0

INVARIANTS
  OpenAlwaysAccepts
