SPECIFICATION MonitorSpec
CONSTANTS
  LagThreshold = 2
  StaleIntervals = 1
  MaxEntries = 4
  MaxRestarts = 1
CHECK_DEADLOCK FALSE
INVARIANT
  GapIsCountedOnce
