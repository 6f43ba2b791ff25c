CONSTANTS
  Clients = {c1}
  MaxTransitions = 3
  MaxQueued = 1
  MaxUnseen = 2
  MaxFaults = 1
SPECIFICATION LiveSpec
INVARIANTS
  FailureIsReal
PROPERTIES
  BadgeConverges
CHECK_DEADLOCK FALSE
