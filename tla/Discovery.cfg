CONSTANTS
  p = p
  q = q
  r = r
  s = s
  p1 = p1
  p2 = p2
  q1 = q1
  r1 = r1
  s1 = s1
  k1 = k1
  k2 = k2
  Local = Local
  None = None
  Boxes = {p, q, r, s}
  Addrs = {p1, p2, q1, r1, s1}
  SeedList <- LocalAndP
  Crumbs <- Known
  Dial <- Behind
  Slug <- Slugs
  Earlier = {q}
  Lock <- Locks
  KeysOn <- KeysFound
  OurKeys = {k1}
  Block <- BlockOfTwo
  Cap = 1
  MaxDepth = 2
  MaxNodes = 3
  Concurrency = 2
  Faults = {"harvest", "connect", "write", "cancel"}
SPECIFICATION FairSpec
CHECK_DEADLOCK FALSE
INVARIANTS
  DiscoveredOnceWithinBounds
  
  UntruncatedIsComplete
  
PROPERTIES
  ScanEnds
