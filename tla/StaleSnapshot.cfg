SPECIFICATION Spec
CONSTANTS
  Sessions = {s1,s2}
  Admins = {}
  Namespaces = {n1,n2}
  Channels = {c1,c2}
  Users = {u1}
  ModelLists = {m1}
  None = None
CHECK_DEADLOCK FALSE
INVARIANT OfferedUnlessStranded
