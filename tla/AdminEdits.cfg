SPECIFICATION Spec
CONSTANTS
  Sessions = {s1,s2}
  Admins = {a}
  Namespaces = {n1}
  Channels = {c1,c2}
  Users = {u1}
  ModelLists = {m1}
  None = None
CHECK_DEADLOCK FALSE
INVARIANTS RoutesToOwner UnheldIsOffline
SYMMETRY Symmetry
