SPECIFICATION Spec
CONSTANTS
  r1 = r1  r2 = r2  s1 = s1  s2 = s2
  NULL = NULL  NotAnInt = NotAnInt
  RoomIds <- MCRoomIds
  SocketIds <- MCSocketIds
  Clean <- MCClean
  Key <- MCKey
  Unencodable = {"surrogate"}
  Limit <- MCLimit
  Requests <- MCRequests
  Documents <- MCDocuments
SYMMETRY Symmetry
INVARIANTS
  DocumentStaysLoadable
  ProblemsInOrder
  NewSharingIsTold
PROPERTIES
  NoNewCollision
  OthersAreLeftAlone
