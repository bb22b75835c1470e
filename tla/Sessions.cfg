CONSTANTS
  Realms = {"tenant", "platform"}
  Sessions = {s1, s2}
  Calls = {c1, c2}
  MaxTokens = 3
  MaxChanges = 2
  MayFail = TRUE
  None = None
SYMMETRY Symmetric
SPECIFICATION Spec
INVARIANTS
  OpenMeansCurrent
PROPERTIES
  RevokedIsFinal
  SignedOutForACause
\* The behaviour stops when its tokens and changes are used up.
CHECK_DEADLOCK FALSE
