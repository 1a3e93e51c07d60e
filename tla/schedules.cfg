SPECIFICATION Spec
CONSTANTS
  a = a
  b = b
  x = x
  Engines = {a, b}
  Items = {x}
  Due <- MCDue
  Inodes = 3
  GRACE = 3
  RETRY_MIN = 1
  RETRY_MAX = 2
  LOCK_BEAT = 1
  LOCK_STALE = 1
  Horizon = 6
  Faults = {"die", "stop", "recycle", "hold", "busy", "refuse", "full"}
  MaxFaults = 1
  MaxEdits = 1
SYMMETRY Symmetry
CONSTRAINT Undisturbed
INVARIANTS
  TypeOK
  SentOnce
  InTime
  RemovedStaysRemoved
PROPERTIES RunsInOrder
