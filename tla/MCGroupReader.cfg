SPECIFICATION FairSpec
CONSTANTS
  Consumers = {TRUE, FALSE}
  ReadCount = 2
  Retries = 1
  MaxEntries = 4
  MaxFaults = 3
INVARIANTS
  DeliveryIsExact
PROPERTIES
  OnceInOrder
  ReplayMeetsTheGroup
  EverythingSettles
CHECK_DEADLOCK FALSE
