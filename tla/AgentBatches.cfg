\* Two threads and the heartbeat share the agent; a batch fails, the process
\* stalls and is collected, a collection stops half way.
CONSTANTS
  w1 = w1
  w2 = w2
  hb = hb
  o1 = o1
  Threads = {w1, w2, hb}
  HeartbeatThread = hb
  Objects = {o1}
  None = None
  Collector = Collector
  MaxCalls = 3
  MaxErrors = 1
  MaxCollectorDeaths = 1
SPECIFICATION FairSpec
\* A process that has exited does nothing any more.
CHECK_DEADLOCK FALSE
INVARIANTS
  TypeOK
  ListedUntilItsTurn
PROPERTIES
  CallsAreOrdered
  EveryCallReturns
  CollectedProcessExits
