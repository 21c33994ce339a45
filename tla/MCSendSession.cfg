SPECIFICATION FairSpec
CONSTANTS
  t1 = t1  t2 = t2  l1 = l1  l2 = l2  cfg2 = cfg2  cfgBad = cfgBad
  Threads <- MCThreads
  Addresses <- MCAddresses
  RawCalls <- MCRawCalls
  Configs <- MCConfigs
  Lines <- MCLines
  DefaultLine = l1
  LineOf <- MCLineOf
  NTIMES = 3
  NoThread = NoThread  NoLine = NoLine  NULL = NULL
INVARIANTS
  TypeOK
  SessionsSerialized
  KeyedOnlyByFault
  SuccessIsAWholeTransmission
  SessionDrivesTheConfiguredLine
  LineHeldOnlyInSession
PROPERTY LockIsReleased
