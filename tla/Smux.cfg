SPECIFICATION FairSpec
CONSTANTS
  MaxSid = 1
  Setups <- MCSetups
  MaxUnits = 5
  QueueCap = 1
  InboxCap = 1
  BacklogCap = 1
  WireCap = 1
  InitialWindow = 2
  StreamBuffer = 2
  ReceiveBuffer = 3
INVARIANTS TypeOK InOrder AcceptedEofComplete WindowRespected
PROPERTIES Delivered
CHECK_DEADLOCK FALSE
