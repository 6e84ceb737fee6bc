CONSTANTS
  web = web
  lab = lab
  h1 = h1
  h2 = h2
  t1 = t1
  t2 = t2
  r1 = r1
  r2 = r2
  r3 = r3
  None = None
  Servers = {web, lab}
  HostOf <- TwoHosts
  Policies <- OnlyLabAccepts
  Keys = {r1, r2, r3}
  Tasks = {t1, t2}
  MaxKeys = 2
SPECIFICATION Spec
SYMMETRY AnyTaskOrKey
INVARIANTS
  PooledKeyIsRecorded
  FirstUseOnly
  
