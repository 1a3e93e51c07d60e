SPECIFICATION Spec
CONSTANTS
  e1 = e1
  e2 = e2
  Engines = {e1}
  Faults = {"late", "lag"}
  MaxFaults = 1
  MaxMoves = 0
INVARIANTS EdgesAreTrue
