SPECIFICATION Spec
CONSTANTS
  Tabs = {1, 2}
  HEARTBEAT_MS = 1
  LEASE_TTL_MS = 3
  Jitter = {0, 1}
  MaxMoves = 3
INVARIANTS LeaseIsRight RivalsAreBrief
PROPERTIES SomeoneDrains
CHECK_DEADLOCK FALSE
