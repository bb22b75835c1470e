CONSTANTS
  Realms = {"tenant"}
  Sessions = {s1}
  Calls = {c1, c2}
  MaxTokens = 3
  MaxChanges = 2
  MayFail = FALSE
  None = None
SYMMETRY Symmetric
\* One session: the page does not log in again.
SPECIFICATION Spec
PROPERTIES
  SignedOutOnlyWhenEnded
CHECK_DEADLOCK FALSE
