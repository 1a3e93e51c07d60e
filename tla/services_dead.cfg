SPECIFICATION Spec
CONSTANTS
  Engines = {e1, e2}
  Inodes = {i1, i2, i3, i4}
  StaleTicks = 3
  Slack = 1
  Reuse = FALSE
  Faults = {"die", "freeze", "stall", "unable"}
  MaxFaults = 2
SYMMETRY Alike
INVARIANTS
  DeadAreReplaced
CHECK_DEADLOCK FALSE
