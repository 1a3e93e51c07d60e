SPECIFICATION Spec
CONSTANTS
  a = a
  b = b
  Msgs <- Two
  TailOf <- Distinct
  Long <- NoLong
  CanParse = TRUE
  Mischief = {"dialog", "notice", "scribble", "hand", "eaten", "throw", "late", "ttl", "restart"}
  MaxAttempts = 2
  MaxMischief = 2
INVARIANTS DeliveredMeansTaken
PROPERTIES EveryAttemptSettles
CHECK_DEADLOCK FALSE
