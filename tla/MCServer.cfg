SPECIFICATION Spec
CONSTANTS
  t1 = t1  t2 = t2  t3 = t3  a1 = a1  a2 = a2  a3 = a3
  right1 = right1  right2 = right2  wrong = wrong  NoLogin = NoLogin  None = None
  Threads <- MCThreads
  Addrs <- MCAddrs
  Right = {right1, right2}
  Wrong = {wrong}
  MAX_FAILURES = 2  FAILURE_WINDOW = 1  LOCKOUT = 2  MAX_TRACKED = 2  CACHE_SIZE = 1
  Files <- MCFiles
  Printed <- MCPrinted
SYMMETRY Symmetry
CHECK_DEADLOCK FALSE
INVARIANTS
  AuthTypeOK
  MemoryBounded
  AtMostOneLateCheck
  LoginIsNeverForgotten
  OnlyTheOwnerGetsIn
  CleanStopOnceReady
PROPERTIES
  LockLasts
