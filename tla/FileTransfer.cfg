CONSTANTS
  left = left
  right = right
  near = near
  here = here
  Locs = {left, right, near, here}
  Here = here
  Host <- HostOf
  Shared = {left, right}
  Routes <- InUse
  Asked <- AllKinds
  Files <- Paths
  BaseName = "root"
  Sized <- Sizes
  Pattern = {"a", "d"}
  Tolerance = 0
  Before <- AtFirst
  MaxClock = 1
  MaxEdits = 1
  MaxFaults = 1
SPECIFICATION Spec
INVARIANTS
  DeletedIsAbsent
  FailedNeverDeletes
  
  SettledCopiesNothing
