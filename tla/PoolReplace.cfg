CONSTANTS
  gate = gate
  db = db
  loop = loop
  c1 = c1
  c2 = c2
  k1 = k1
  k2 = k2
  k3 = k3
  None = None
  Servers = {gate, db}
  Hosts = {h1, h2}
  Jump <- OneHop
  Callers = {c1, c2}
  Conns = {k1, k2, k3}
  Faults = {}
SPECIFICATION Spec
INVARIANTS
  ReturnsRegisteredHost
