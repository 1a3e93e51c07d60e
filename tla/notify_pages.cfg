SPECIFICATION Spec
CONSTANTS
  laptop = laptop
  phone = phone
  Clients = {laptop, phone}
  Desktops = {laptop}
  Faults = {"freeze", "drop", "refuse", "unsure", "rebuild", "restart", "swipe"}
  MaxFaults = 1
  MaxMoves = 3
  MaxReplies = 2
  MaxEvents = 3
CONSTRAINT Undisturbed
CHECK_DEADLOCK FALSE
INVARIANTS TypeOK FlagIsCarried NoOrphanBanner
PROPERTIES EveryReplyIsTold
