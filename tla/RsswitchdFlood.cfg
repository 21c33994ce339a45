SPECIFICATION FairSpec
CONSTANTS
  c1 = c1  c2 = c2
  None = None
  PROTO_MAX_LINE = 8
  Clients <- TwoClients
  Streams <- FloodStreams
  Endless = {c1}
  idle_timeout = 2
  SendTime = 1
  ReplyWrites = 1
CHECK_DEADLOCK FALSE
PROPERTY QueueMovesOn
