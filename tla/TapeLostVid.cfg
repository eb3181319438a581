\* A session crashes with a tape in the drive.
CONSTANTS
  d1 = d1
  d2 = d2
  Drives = {d1}
  Faults <- CrashOnly
  MaxFaults = 1
SPECIFICATION Spec
\* A daemon that has exited does nothing more.
CHECK_DEADLOCK FALSE
INVARIANTS
  CleanerAfterCrash
