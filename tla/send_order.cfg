SPECIFICATION Spec
CONSTANTS
  a = a
  b = b
  s1 = s1
  s2 = s2
  e1 = e1
  e2 = e2
  Msgs = {a, b}
  Sessions = {s1}
  Engines = {e1}
  SessionOf <- OneSession
  EngineOf <- OneEngine
  Faults = {"drop", "lose", "slow", "tabdies"}
  MaxFaults = 2
  MaxTaps = 0
  Files = {}
  MaxHeld = 2
  CidsKept = 2
INVARIANTS AtMostOnce InOrder AllAccountedFor
CHECK_DEADLOCK FALSE
