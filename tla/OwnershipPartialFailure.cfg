\* Two copies, one of which cannot be updated: the list is left too early.
CONSTANTS
  f1 = f1
  w1 = w1
  w2 = w2
  g1 = g1
  g2 = g2
  r1 = r1
  r2 = r2
  j1 = j1
  j2 = j2
  qa = qa
  qb = qb
  qr = qr
  Frontends = {f1}
  Workers = {w1}
  Collectors = {g1}
  Requests = {r1}
  Jobs = {j1, j2}
  Queues = {qa, qb, qr}
  RequestOf <- TwoCopiesRequest
  QueuesOf <- TwoCopiesQueues
  TransferQueueOf <- TwoCopiesTransfer
  Register = Register
  NoOwner = NoOwner
  None = None
  MaxCrashes = 1
  MaxErrors = 1
  MaxUnlockFailures = 0
SPECIFICATION Spec
\* Every process may stop, and then nothing happens any more.
CHECK_DEADLOCK FALSE
INVARIANTS
  ListedUntilIndividuallyCollected
