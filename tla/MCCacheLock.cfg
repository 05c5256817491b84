SPECIFICATION FairLock
CONSTANTS
  p1 = p1
  p2 = p2
  t1 = t1
  t2 = t2
  t3 = t3
  Process <- MCProc
  Thread <- MCThread
  ProcOf <- MCProcOf
  NoThread = NoThread
  MaxDeaths = 1
INVARIANTS
  OnlyManagedRoots
PROPERTIES
  IsMutex
  LockHandedOn
