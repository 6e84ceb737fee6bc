CONSTANTS
  a = a
  b = b
  c = c
  a1 = a1
  b1 = b1
  t1 = t1
  t2 = t2
  x = x
  NodeSeq <- AThenB
  Local = Local
  Target = c
  Addrs = {a1, b1, t1, t2, x}
  HostOf <- Registered
  Interfaces <- OnThem
  LeadsTo <- Leads
  Latency <- Times
  Links <- Possible
  Denials <- OneOrAll
  MaxChanges = 1
  None = None
SPECIFICATION Spec
CHECK_DEADLOCK FALSE
INVARIANTS
  HopsHaveWorked
  NoPathMeansNone
  PathIsBest
