SPECIFICATION FairSpec
CONSTANTS
  Conns = {1, 2}
  None = None
  MaxQueue = 1
  Setups <- MCSetups
INVARIANTS TypeOK OneTunnel ConnectedIsRegistered
PROPERTIES KeptWhileHealthy Reconnects StopReleases
\* A worker that was asked to stop ends.
CHECK_DEADLOCK FALSE
