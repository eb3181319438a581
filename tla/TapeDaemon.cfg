\* One drive and the maintenance process; any two kinds of fault.
CONSTANTS
  d1 = d1
  d2 = d2
  Drives = {d1}
  Faults <- AllFaults
  MaxFaults = 2
SPECIFICATION FairSpec
\* A daemon that has exited does nothing more.
CHECK_DEADLOCK FALSE
INVARIANTS
  TypeOK
  NoChildLeftBehind
  OneChildEach
  NoMountOverTape
  DrivesLeftDown
  NoCleanerStarts
PROPERTIES
  TermEndsDaemon
  HungSessionEnds
  DeadChildrenReaped
