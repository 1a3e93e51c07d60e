SPECIFICATION Spec
CONSTANTS
  r1 = r1
  r2 = r2
  m1 = m1
  m2 = m2
  d1 = d1
  d2 = d2
  Rows = {r1}
  Cids = {m1}
  Dirs = {d1}
  Cid <- OneMessage
  Dir <- SameBytes
  Chunks = {0}
  MAX_ACTIVE = 2
  MAX_OUTSTANDING = 1
  Faults = {"flap"}
  MaxFaults = 1
  MaxEdits = 0
CHECK_DEADLOCK FALSE
INVARIANTS OneClip
