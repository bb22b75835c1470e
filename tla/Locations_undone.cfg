CONSTANTS
  Places = {l1, l2}
  People = {p1}
  Here = l1
  Home <- MCHome
  Settled = {l1, p1}
  Requests = {r1, r2}
  Retention = 3
  Batch = 1
  MaxLimit = 2
  MaxServed = 2
  MaxFailures = 1
  MaxTime = 3
  None = None
SPECIFICATION Spec
PROPERTIES
  PendingIsClosed
CHECK_DEADLOCK FALSE
