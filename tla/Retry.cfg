SPECIFICATION FairSpec
CONSTANTS
  Requests = {r1, r2}
  c1 = c1  c2 = c2  c3 = c3  m1 = m1  m2 = m2
  Channels = {c1, c2, c3}
  Models = {m1, m2}
  Members <- MCMembers
  Priority <- MCPriority
  NewModel <- MCNewModel
  Unsuitable <- MCUnsuitable
  RetryTimes = 1
  RetryCooldownSeconds = 5
  None = None
\* Every request may have been answered.
CHECK_DEADLOCK FALSE
INVARIANTS TypeOK NoChannelTwice CallsBounded
PROPERTY Answered
