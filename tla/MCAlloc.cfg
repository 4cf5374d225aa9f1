SPECIFICATION Spec

CONSTANTS
  Clients = {nodes, edges}
  LastPage = 3
  MaxOpens = 2

INVARIANTS
  OneOwnerUnlessStale
  FreeListSound
  Accounted

PROPERTIES
  HandsOutUnownedPages
