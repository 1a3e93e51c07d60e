SPECIFICATION Spec
CONSTANTS
  e1 = e1
  e2 = e2
  Engines = {e1}
  Faults = {"down", "close", "mute", "late", "relay", "shake", "forget", "rebuild"}
  MaxFaults = 3
  MaxMoves = 3
INVARIANTS TypeOK EdgesAreTrue QuietWhenParked
PROPERTIES Returns
