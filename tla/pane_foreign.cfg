SPECIFICATION Spec
CONSTANTS
  a = a
  b = b
  Msgs <- Two
  TailOf <- Distinct
  Long <- NoLong
  CanParse = FALSE
  Mischief = {"dialog", "notice", "slow", "hand"}
  MaxAttempts = 2
  MaxMischief = 3
INVARIANTS NeverAnsweredByAccident NothingLeftBehind
CHECK_DEADLOCK FALSE
