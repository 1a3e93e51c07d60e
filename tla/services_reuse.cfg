SPECIFICATION Spec
CONSTANTS
  Engines = {e1, e2}
  Inodes = {i1, i2, i3, i4}
  StaleTicks = 3
  Slack = 1
  Reuse = TRUE
  Faults = {"freeze"}
  MaxFaults = 1
SYMMETRY Alike
INVARIANTS
  RivalsAreBrief
CHECK_DEADLOCK FALSE
