\* The operators' page alone: two managers, two locations, two saves.
CONSTANTS
  Locations = {l1}
  PageSize = 1
  MaxPolls = 0
  MaxScans = 0
  MaxCalls = 1
  MaxActs = 0
  None = None
  Managers = {m1, m2}
  Sites = {s1, s2}
  MaxAsks = 2
  MaxTurns = 0
  Branches = {b1}
  Persons = {q1}
  MaxReads = 0
  MaxClicks = 0
  MaxEditions = 0
  Nowhere = Nowhere
  Nobody = Nobody
SPECIFICATION MCSpec
SYMMETRY MCSymmetry
PROPERTIES
  ReplacedAtomically
\* The pages rest once the acts are used up and the calls answered.
CHECK_DEADLOCK FALSE
