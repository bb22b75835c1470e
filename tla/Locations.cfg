CONSTANTS
  Places = {l1, l2}
  People = {p1}
  Here = l1
  Home <- MCHome
  Settled = {l1, p1}
  Requests = {r1, r2}
  Retention = 3
  Batch = 1
  MaxLimit = 2
  MaxServed = 2
  MaxFailures = 1
  MaxTime = 3
  None = None
SPECIFICATION FairSpec
INVARIANTS
  QuotaKept
  PurgedLocationIsEmpty
PROPERTIES
  PurgedIsFinal
  GraceIsKept
  DueIsPurged
\* The behaviour stops when its requests are used up and the last tick is reached.
CHECK_DEADLOCK FALSE
