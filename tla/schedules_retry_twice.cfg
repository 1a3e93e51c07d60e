SPECIFICATION Spec
CONSTANTS
  a = a
  b = b
  x = x
  Engines = {a}
  Items = {x}
  Due <- MCDue
  Inodes = 3
  GRACE = 2
  RETRY_MIN = 1
  RETRY_MAX = 2
  LOCK_BEAT = 1
  LOCK_STALE = 1
  Horizon = 4
  Faults = {"die"}
  MaxFaults = 1
  MaxEdits = 0
CONSTRAINT Undisturbed
INVARIANTS
  NeverTwice
