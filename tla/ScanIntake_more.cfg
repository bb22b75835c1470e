\* As ScanIntake.cfg, the type invariant and further properties.
CONSTANTS
  Requests = {r1, r2, r3}
  Keys = {k1}
  Persons = {m1, m2}
  Actions = {entry, exit}
  Window = 1
  Ttl = 2
  MaxTime = 2
  MaxFailures = 1
  None = None
SPECIFICATION Spec
SYMMETRY MCSymmetry
INVARIANTS
  TypeOK
  MergesIntoActive
  RepeatGetsSameScan
  GoesOnIsEnabled
\* See ScanIntake.cfg.
CHECK_DEADLOCK FALSE
