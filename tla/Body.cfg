SPECIFICATION FairSpec
CONSTANTS
  Requests = {r1}
  Transport = "websocket"
  Limits = {0, 1}
  MaxChunks = 2
\* Every request may have ended.
CHECK_DEADLOCK FALSE
PROPERTIES CleanEndIsComplete AbandonedEnds
