SPECIFICATION FairSpec
CONSTANTS
  Tasks = {t1}
  t1 = t1  c1 = c1  c2 = c2
  Channels = {c1, c2}
  ChannelId <- MCChannelId
  NoTask = NoTask
  Threshold = 2
  Faults = {}
  MaxFaults = 0
PROPERTY ActivationNotLost
