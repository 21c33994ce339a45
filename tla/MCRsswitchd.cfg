SPECIFICATION FairSpec
CONSTANTS
  c1 = c1  c2 = c2
  None = None
  PROTO_MAX_LINE = 8
  Clients <- TwoClients
  Streams <- MCStreams
  Endless = {}
  idle_timeout = 2
  SendTime = 1
  ReplyWrites = 1
CHECK_DEADLOCK FALSE
INVARIANTS
  OneReplyPerCommandInOrder
  SentIffConfirmed
PROPERTIES
  StaysOpenAfterReply
  StopIsObeyed
  QueueMovesOn
