\* The workbench: two locations, two pages of one record, one poll, and three acts
\* of the user after the session that was there is looked for.
CONSTANTS
  Locations = {l1, l2}
  PageSize = 1
  MaxPolls = 1
  MaxScans = 2
  MaxCalls = 2
  MaxActs = 3
  None = None
  Managers = {m1}
  Sites = {s1}
  MaxAsks = 0
  MaxTurns = 0
  Branches = {b1}
  Persons = {q1}
  MaxReads = 0
  MaxClicks = 0
  MaxEditions = 0
  Nowhere = Nowhere
  Nobody = Nobody
SPECIFICATION MCSpec
SYMMETRY MCSymmetry
INVARIANTS
  OnlySelectedRecords
\* The pages rest once the acts are used up and the calls answered.
CHECK_DEADLOCK FALSE
