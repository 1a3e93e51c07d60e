SPECIFICATION Spec
CONSTANTS
  r1 = r1
  r2 = r2
  m1 = m1
  m2 = m2
  d1 = d1
  d2 = d2
  Rows = {r1, r2}
  Cids = {m1}
  Dirs = {d1, d2}
  Cid <- OneMessage
  Dir <- OtherBytes
  Chunks = {0, 1}
  MAX_ACTIVE = 1
  MAX_OUTSTANDING = 2
  Faults = {"flap", "stall", "reload", "crash", "sweep", "evict", "refuse", "fail"}
  MaxFaults = 2
  MaxEdits = 1
CHECK_DEADLOCK FALSE
INVARIANTS TypeOK OneUpload AckedWasStored NothingGivenUp
PROPERTIES TransferEnds
