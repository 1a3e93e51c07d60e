SPECIFICATION Spec
CONSTANTS
  Engines = {e1, e2}
  Inodes = {i1, i2, i3, i4}
  StaleTicks = 3
  Slack = 1
  Reuse = FALSE
  Faults = {"die", "freeze", "stall", "unable", "recycle"}
  MaxFaults = 3
SYMMETRY Alike
INVARIANTS
  TypeOK
  RivalsAreBrief
  GapsAreShort
CHECK_DEADLOCK FALSE
