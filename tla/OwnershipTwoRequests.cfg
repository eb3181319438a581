\* Two requests on the same queue: batches of two jobs, two accesses fail.
CONSTANTS
  f1 = f1
  w1 = w1
  w2 = w2
  g1 = g1
  g2 = g2
  r1 = r1
  r2 = r2
  j1 = j1
  j2 = j2
  qa = qa
  qb = qb
  qr = qr
  Frontends = {f1}
  Workers = {w1}
  Collectors = {g1}
  Requests = {r1, r2}
  Jobs = {j1, j2}
  Queues = {qa}
  RequestOf <- TwoRequestsRequest
  QueuesOf <- TwoRequestsQueues
  TransferQueueOf <- TwoRequestsTransfer
  Register = Register
  NoOwner = NoOwner
  None = None
  MaxCrashes = 2
  MaxErrors = 2
  MaxUnlockFailures = 0
SPECIFICATION Spec
\* Every process may stop, and then nothing happens any more.
CHECK_DEADLOCK FALSE
INVARIANTS
  QueuedJobIsReferenced
  IndInv
PROPERTIES
  HandoverByOwnerOrCollector
