\* Three requests for two persons, with one key or without.
CONSTANTS
  Requests = {r1, r2, r3}
  Keys = {k1}
  Persons = {m1, m2}
  Actions = {entry, exit}
  Window = 1
  Ttl = 2
  MaxTime = 2
  MaxFailures = 1
  None = None
SPECIFICATION Spec
SYMMETRY MCSymmetry
INVARIANTS
  ScansAreSpaced
  OneEventPerKey
  AnswersMatch
  SomeoneGoesOn
\* The behaviour stops when the requests are used up and the last tick is reached.
CHECK_DEADLOCK FALSE
