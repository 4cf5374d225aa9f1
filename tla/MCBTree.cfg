SPECIFICATION TreeSpec

CONSTANTS
  MaxKey = 4
  Values = {v, w}
  None = None
  Cap = 2
  LastIndexPage = 10
  MaxUpdates = 6
  MaxCrashes = 1

INVARIANTS
  LookupsRight
  DeletesEndLookups
  WellShaped

SYMMETRY ValueSymmetry
