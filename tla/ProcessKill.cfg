CONSTANTS
  None = None
  Procs = {p1}
  Tasks = {t1, t2}
  MaxLog = 3
  MaxBytes = 2
SPECIFICATION Spec
SYMMETRY AnyTask
INVARIANTS
  KilledIsNotRunning
