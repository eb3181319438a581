\* One copy fails for good, the other one is transferred.
CONSTANTS
  m1 = m1
  m2 = m2
  m3 = m3
  m4 = m4
  p1 = p1
  p2 = p2
  NbCopies = 2
  Mounts = {m1, m2}
  Reporters = {p1}
  PoolOf <- TwoPools
  None = None
  MaxTotalRetries = 2
  MaxRetriesWithinMount = 2
  MaxReportRetries = 2
  MaxStops = 0
  MaxReportErrors = 0
  MaxMoveErrors = 0
SPECIFICATION Spec
\* A request that is answered is finished.
CHECK_DEADLOCK FALSE
INVARIANTS
  OneVerdict
