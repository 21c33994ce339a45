SPECIFICATION WireSpec
CONSTANTS
  PROTO_MAX_LINE = 128
  Entered <- MCEntered
  Seeds <- MCSeeds
  Bytes <- MCBytes
  MaxEdits = 1
  NotAnInt = NotAnInt
CHECK_DEADLOCK FALSE
INVARIANTS
  ParserMatchesGrammar
  ExactlyTheAddressedSocketObeys
