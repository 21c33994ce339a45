SPECIFICATION Spec
CONSTANTS
  r1 = r1  r2 = r2  r3 = r3  s1 = s1  s2 = s2  a1 = a1  a2 = a2
  None = None
  Requests <- ThreeRequests
  Kinds <- MCKinds
  Sockets <- MCSockets
  Addresses <- MCAddresses
  RACE_WINDOW = 1  LOCK_TIMEOUT = 1  MaxTime = 0  MaxSetBack = 0
CHECK_DEADLOCK FALSE
INVARIANTS
  StoreNeverFailsACommand
