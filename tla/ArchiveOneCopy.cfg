\* One copy: transfers, updates and reports fail, a process stops; the request
\* is answered in the end.
CONSTANTS
  m1 = m1
  m2 = m2
  m3 = m3
  m4 = m4
  p1 = p1
  p2 = p2
  NbCopies = 1
  Mounts = {m1, m2, m3}
  Reporters = {p1, p2}
  PoolOf <- OnePool
  None = None
  MaxTotalRetries = 2
  MaxRetriesWithinMount = 2
  MaxReportRetries = 2
  MaxStops = 1
  MaxReportErrors = 3
  MaxMoveErrors = 1
SPECIFICATION FairSpec
\* A request that is answered is finished.
CHECK_DEADLOCK FALSE
INVARIANTS
  TypeOK
  RepeatsAreExplained
  ReportRetriesAreBounded
PROPERTIES
  FinallyAnswered
