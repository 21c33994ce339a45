SPECIFICATION FairSpec
CONSTANTS
  s1 = s1  i1 = i1  i2 = i2  HOUSEHOLD = HOUSEHOLD  None = None
  Sockets <- MCSockets
  Keys <- MCKeys
  Members <- MCMembers
  Slots <- MCSlots
  MaxCommands = 2
  MaxChanges = 1
INVARIANTS
  FlagsTellTheTruth
PROPERTIES
  MessagesStay
  OldAnswersAreDropped
  ButtonsComeBack
