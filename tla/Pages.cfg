\* The workbench: two locations, two pages of one record, one poll, and three acts
\* of the user after the session that was there is looked for. The operators: two
\* managers, two locations, two saves or other acts, one change of a location. The
\* people: two locations and persons, three reads of a list, three acts of the manager.
CONSTANTS
  Locations = {l1, l2}
  PageSize = 1
  MaxPolls = 1
  MaxScans = 2
  MaxCalls = 2
  MaxActs = 3
  None = None
  Managers = {m1, m2}
  Sites = {s1, s2}
  MaxAsks = 2
  MaxTurns = 1
  Branches = {b1, b2}
  Persons = {q1, q2}
  MaxReads = 3
  MaxClicks = 3
  MaxEditions = 1
  Nowhere = Nowhere
  Nobody = Nobody
SPECIFICATION MCSpec
SYMMETRY MCSymmetry
INVARIANTS
  ShownIsSelected
  WaitingIsAnswered
  NoticeIsShown
PROPERTIES
  SettledStaysShown
  SaveReplaces
  RevokedIsConfirmed
\* The pages rest once the acts are used up and the calls answered.
CHECK_DEADLOCK FALSE
