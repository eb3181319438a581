\* Two copies written by concurrent sessions: siblings neither report too early
\* nor wait for each other for ever.  One report fails.
CONSTANTS
  m1 = m1
  m2 = m2
  m3 = m3
  m4 = m4
  p1 = p1
  p2 = p2
  NbCopies = 2
  Mounts = {m1, m2, m3, m4}
  Reporters = {p1, p2}
  PoolOf <- TwoPoolsTwice
  None = None
  MaxTotalRetries = 2
  MaxRetriesWithinMount = 2
  MaxReportRetries = 2
  MaxStops = 1
  MaxReportErrors = 1
  MaxMoveErrors = 0
SPECIFICATION FairSpec
\* A request that is answered is finished.
CHECK_DEADLOCK FALSE
INVARIANTS
  StatusMatchesQueueUndisturbed
  TransferredIsOnTape
  SomeoneWillReport
  SuccessCoversEveryCopy
PROPERTIES
  FinallyAnswered
