SPECIFICATION Spec
CONSTANTS
  e1 = e1
  e2 = e2
  Engines = {e1}
  Faults = {"down"}
  MaxFaults = 1
  MaxMoves = 1
PROPERTIES IntentDials
