SPECIFICATION Spec
CONSTANTS
  a = a
  b = b
  Msgs <- One
  TailOf <- OneTail
  Long <- NoLong
  CanParse = TRUE
  Mischief = {"dialog", "race", "slow", "clear", "eaten", "blind", "late"}
  MaxAttempts = 3
  MaxMischief = 4
INVARIANTS TypeOK RetriesAreSafe NoBlindEnter
CHECK_DEADLOCK FALSE
