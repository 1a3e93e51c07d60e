SPECIFICATION Spec
CONSTANTS
  laptop = laptop
  phone = phone
  Clients = {laptop}
  Desktops = {laptop}
  Faults = {"rebuild"}
  MaxFaults = 1
  MaxMoves = 3
  MaxReplies = 2
  MaxEvents = 4
CONSTRAINT Undisturbed
CHECK_DEADLOCK FALSE
PROPERTIES CeilingHolds
