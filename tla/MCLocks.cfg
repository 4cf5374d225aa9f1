SPECIFICATION FairSpec

CONSTANTS
  Threads = {t1, t2}
  Mixes <- MCMixes

INVARIANTS
  OnlyHeaderCloses

PROPERTIES
  EveryCallReturns

CHECK_DEADLOCK FALSE
