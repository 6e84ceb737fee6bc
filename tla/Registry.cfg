SPECIFICATION Spec
CONSTANTS
  a = a
  h = h
  None = None
  Names = {a, h, b, c}
  Plain = {b, c}
  Aliases = {a}
  Hop <- OneHop
  Prefixed <- OwnPrefix
  Notes = {"plain", "quoted"}
  Calls = {t1}
SYMMETRY AnyPlain
INVARIANTS
  ConfigFollowsFile
  CycleDetectionExact
  
PROPERTIES
  OnlyUnseenEditsAreLost
