CONSTANTS
  MaxOutbox = 3
  ReadCount = 1
  Capacity = 1
  Retries = 1
  MaxRecords = 4
  MaxFaults = 1
SPECIFICATION LiveSpec
INVARIANTS
  OutboxIsFaithful
  SkipsAreReal
PROPERTIES
  ScreenShowsTheNewest
CHECK_DEADLOCK FALSE
