SPECIFICATION FairSpec
CONSTANTS
  w1 = w1  w2 = w2  w3 = w3  p1 = p1  p2 = p2  x = x  y = y
  NoFile = NoFile  Partial = Partial  None = None
  Writers <- MCWriters
  Processes <- MCProcesses
  ProcessOf <- MCProcessOf
  Docs <- MCDocs
  EmptyDoc = {}
  Change <- MCChange
CHECK_DEADLOCK FALSE
INVARIANTS
  TypeOK
  NoLitter
PROPERTIES
  ImplementsAtomicDocument
  LockIsFreed
