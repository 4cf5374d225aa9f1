SPECIFICATION Spec

CONSTANTS
  main = main
  other = other
  Threads = {main, other}
  Kinds = {function, class}
  Plain = Plain
  None = None
  MaxId = 2
  Does <- MCDoes
  MaxCalls = 4
  MaxCrashes = 2

INVARIANTS
  KindIndexRight
  NoEdgeToDeletedNode

PROPERTIES
  ImportRestores

CONSTRAINT Judged

CHECK_DEADLOCK FALSE
