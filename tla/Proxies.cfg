SPECIFICATION ProxiesSpec
CONSTANTS
  Servers = {s1, s2}
  Ids = {i1, i2, i3}
  Tasks = {t1, t2}
  None = None
SYMMETRY AnyName
INVARIANTS
  
  ListenerIsListed
  OnlySharingUnpins
