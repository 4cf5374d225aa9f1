SPECIFICATION Spec
CONSTANTS
  k1 = k1
  k2 = k2
  a = a
  b = b
  Keys = {k1, k2}
  Vals = {a, b}
  Null = Null
  NoTtl = NoTtl
  Prefixes <- MCPrefixes
  Ttls <- MCTtls
  Rising = TRUE
  MaxVersion = 2
  MaxClock = 3
  MaxWrites = 3
  MaxReopens = 2
SYMMETRY Symmetry
INVARIANTS ScanAgreesWithGet
PROPERTIES EarlierSnapshotsKeepReading WritersReadTheirWrites ReopenKeepsCurrentValues
CHECK_DEADLOCK FALSE
