CONSTANTS
  s1 = s1
  i1 = i1
  i2 = i2
  i3 = i3
  Servers = {s1}
  Sessions = {i1, i2, i3}
  Starts = {t1, t2}
  Limit <- OneSession
  Watched = i1
  MaxOut = 4
  ChunkMax = 2
  DequeMax = 2
  MaxBytes = 2
  None = None
SPECIFICATION PtySpec
SYMMETRY AnySession
INVARIANTS
  CapOvershootBounded
  CountedIsHandled
  ReturnedIsRemembered
  
  OutputInOrder
  RunningLosesOnlyByOverflow
