SPECIFICATION Spec

CONSTANTS
  Payloads = {v1, v2}
  Absent = Absent
  PageCap = 2
  CacheCap = 1
  MaxId = 2
  MaxPage = 2
  MaxOpens = 1

INVARIANTS
  ReadsAreRight
  CommittedIsInFile
  CountIsRight

SYMMETRY PayloadSymmetry

CONSTRAINT Judged
