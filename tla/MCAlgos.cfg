SPECIFICATION GraphSpec

CONSTANTS
  N = 4
  Insertable <- MCInsertable
  Drawn <- MCDrawn
  WeightOf <- MCWeights
  EntityOf <- MCEntityOf
  TypeOf <- MCTypeOf
  Queries <- MCQueries
  Legs <- MCLegs
  Anything = Anything

INVARIANTS
  DominanceRight
  ComponentsAndOrdersRight
  CutsRight
  WalksRight
  MatchesRight

CHECK_DEADLOCK FALSE
