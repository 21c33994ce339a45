SPECIFICATION Spec
CONSTANTS
  r1 = r1  r2 = r2  r3 = r3  s1 = s1  s2 = s2  a1 = a1  a2 = a2
  None = None
  Requests <- ThreeRequests
  Kinds <- RaceKinds
  Sockets <- OneSocket
  Addresses <- OneAddress
  RACE_WINDOW = 2  LOCK_TIMEOUT = 10  MaxTime = 3  MaxSetBack = 0
CHECK_DEADLOCK FALSE
PROPERTIES
  NewerCommandKept
