SPECIFICATION Spec
CONSTANTS
  a = a
  b = b
  s1 = s1
  s2 = s2
  e1 = e1
  e2 = e2
  Msgs = {a}
  Sessions = {s1}
  Engines = {e1}
  SessionOf <- Single
  EngineOf <- OneEngine
  Faults = {"drop", "lose", "slow", "age", "tabdies", "enginedies", "refuse", "offline", "prune"}
  MaxFaults = 3
  MaxTaps = 2
  Files = {a}
  MaxHeld = 2
  CidsKept = 1
INVARIANTS TypeOK InflightHoldsSlot KeptUntilTaken HonestTicks
PROPERTIES KeepsContract NobodyPendsForever
CHECK_DEADLOCK FALSE
