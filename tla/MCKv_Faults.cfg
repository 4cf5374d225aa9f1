SPECIFICATION Spec

CONSTANTS
  Keys = {k1}
  Vals = {v1}
  Null = Null
  NoKey = NoKey
  NoFile = NoFile
  Torn = Torn
  Threads = {t1, t2}
  Flushers = {t1}
  WalEnabled = TRUE
  EdgesUsed = FALSE
  V3Api = TRUE
  IoErrors = TRUE
  MaxWrites = 2
  MaxCrashes = 2
  MaxRecords = 1

INVARIANTS
  CheckpointNeverTorn
