SPECIFICATION Spec
CONSTANTS
  e1 = e1
  e2 = e2
  Engines = {e1}
  Faults = {"rebuild", "crossed"}
  MaxFaults = 1
  MaxMoves = 2
INVARIANTS EdgesAreTrue
