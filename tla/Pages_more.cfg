\* As Pages.cfg, the type invariants.
CONSTANTS
  Locations = {l1, l2}
  PageSize = 1
  MaxPolls = 1
  MaxScans = 2
  MaxCalls = 2
  MaxActs = 3
  None = None
  Managers = {m1, m2}
  Sites = {s1, s2}
  MaxAsks = 2
  MaxTurns = 1
  Branches = {b1, b2}
  Persons = {q1, q2}
  MaxReads = 3
  MaxClicks = 3
  MaxEditions = 1
  Nowhere = Nowhere
  Nobody = Nobody
SPECIFICATION MCSpec
SYMMETRY MCSymmetry
INVARIANTS
  TypeOK
  AssignmentsTypeOK
  DirectoryTypeOK
\* See Pages.cfg.
CHECK_DEADLOCK FALSE
