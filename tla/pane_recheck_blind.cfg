SPECIFICATION Spec
CONSTANTS
  a = a
  b = b
  Msgs <- One
  TailOf <- OneTail
  Long <- NoLong
  CanParse = TRUE
  Mischief = {"eaten", "blind"}
  MaxAttempts = 2
  MaxMischief = 2
INVARIANTS DeliveredMeansTaken
CHECK_DEADLOCK FALSE
