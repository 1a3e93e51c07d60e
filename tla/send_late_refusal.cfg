SPECIFICATION Spec
CONSTANTS
  a = a
  b = b
  s1 = s1
  s2 = s2
  e1 = e1
  e2 = e2
  Msgs = {a}
  Sessions = {s1}
  Engines = {e1}
  SessionOf <- Single
  EngineOf <- OneEngine
  Faults = {"slow", "offline"}
  MaxFaults = 2
  MaxTaps = 0
  Files = {}
  MaxHeld = 2
  CidsKept = 1
PROPERTIES DeliveredStays
CHECK_DEADLOCK FALSE
