SPECIFICATION FairSpec
CONSTANTS
  Sessions = {s1,s2}
  Admins = {}
  Namespaces = {n1}
  Channels = {c1}
  Users = {u1,u2}
  ModelLists = {m1}
  None = None
\* Every session may have ended.
CHECK_DEADLOCK FALSE
INVARIANTS TypeOK ClaimHeld NodeRowFollowsSession
PROPERTIES DirectorySpec DeadWorkerReleased
