\* One request with two copies on different queues; two processes die and one update
\* is committed and then reported as failed.
CONSTANTS
  f1 = f1
  w1 = w1
  w2 = w2
  g1 = g1
  g2 = g2
  r1 = r1
  r2 = r2
  j1 = j1
  j2 = j2
  qa = qa
  qb = qb
  qr = qr
  Frontends = {f1}
  Workers = {w1, w2}
  Collectors = {g1}
  Requests = {r1}
  Jobs = {j1, j2}
  Queues = {qa, qb, qr}
  RequestOf <- TwoCopiesRequest
  QueuesOf <- TwoCopiesQueues
  TransferQueueOf <- TwoCopiesTransfer
  Register = Register
  NoOwner = NoOwner
  None = None
  MaxCrashes = 2
  MaxErrors = 0
  MaxUnlockFailures = 1
SPECIFICATION Spec
\* Every process may stop, and then nothing happens any more.
CHECK_DEADLOCK FALSE
SYMMETRY Interchangeable
INVARIANTS
  OwnedJobIsListed
  HolderIsOwner
