SPECIFICATION Spec
CONSTANTS
  a = a
  b = b
  s1 = s1
  s2 = s2
  e1 = e1
  e2 = e2
  Msgs = {a}
  Sessions = {s1, s2}
  Engines = {e1, e2}
  SessionOf <- Single
  EngineOf <- TwoEngines
  Faults = {"lose", "drop"}
  MaxFaults = 2
  MaxTaps = 0
  Files = {}
  MaxHeld = 2
  CidsKept = 1
PROPERTIES NobodyPendsForever
CHECK_DEADLOCK FALSE
