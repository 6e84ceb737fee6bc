CONSTANTS
  gate = gate
  db = db
  loop = loop
  c1 = c1
  c2 = c2
  k1 = k1
  k2 = k2
  k3 = k3
  None = None
  Servers = {gate, db, loop}
  Hosts = {h1}
  Jump <- HopAndLoop
  Callers = {c1}
  Conns = {k1, k2}
  Faults = {"escape"}
SPECIFICATION FairSpec
CONSTRAINTS OnlyGatePinned LoopStays
INVARIANTS
  OneConnectionPerServer
PROPERTIES
  EveryCallReturns
  CloseAllEnds
  ImplementsService
