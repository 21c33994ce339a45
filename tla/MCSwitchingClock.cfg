SPECIFICATION FairSpec
CONSTANTS
  r1 = r1  r2 = r2  r3 = r3  s1 = s1  s2 = s2  a1 = a1  a2 = a2
  None = None
  Requests <- TwoRequests
  Kinds <- ClockKinds
  Sockets <- OneSocket
  Addresses <- MCAddresses
  RACE_WINDOW = 1  LOCK_TIMEOUT = 3  MaxTime = 4  MaxSetBack = 1
CHECK_DEADLOCK FALSE
PROPERTIES
  OvertakenByAtMostTheLock
  EveryRequestIsAnswered
