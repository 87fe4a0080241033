SPECIFICATION Spec
CONSTANTS
  Requests = {r1, r2}
  Transport = "quic"
  Limits = {1}
  MaxChunks = 1
\* Every request may have ended.
CHECK_DEADLOCK FALSE
INVARIANTS TypeOK SlotsAccounted WithinLimit TrackedWhileLive CancelOnlyIfAbandoned
SYMMETRY Symmetry
