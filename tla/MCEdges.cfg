SPECIFICATION Spec

CONSTANTS
  Nodes = {a, b}
  Types = {uses}
  NoType = NoType
  Absent = Absent
  PageCap = 2
  MaxInserts = 3
  MaxOpens = 2

INVARIANTS
  ReadsCompleteOnceListed
  DirectionsAgree
  SameListsAfterOpen

SYMMETRY NodeSymmetry
