SPECIFICATION GraphOrIndex

CONSTANTS
  full = full
  writer = writer
  Inst <- MCInst
  user = user
  doc = doc
  uses = uses
  Kinds = {user, doc}
  Types = {uses}
  MaxId = 2
  Queries <- MCQueries
  EntityBatches <- MCEntityBatches
  EdgeBatches <- MCEdgeBatches
  Chunkings <- MCChunkings
  None = None
  Does <- MCDoes
  MaxCalls = 6
  MaxReads = 3
  MaxFaults = 1
  Positions = {0, 1, 3, 7}
  Batches <- MCBatches
  Configs <- MCConfigs
  Width0 = 1
  ReverseLimit = 2
  MaxVector = 4
  MaxVectorLayers = 3
  PositionsLayers = {0, 1, 3}
  MaxChanges = 1
  MaxOpens = 2

INVARIANTS
  CachesCurrent
  SnapshotsShowOneMoment
  EdgesHaveEnds
  LabelsTellKinds
  FindsEverything
  FindsOnlyStored
  SavedIsCurrent

PROPERTIES
  RestoresWhatWasDumped

CHECK_DEADLOCK FALSE
