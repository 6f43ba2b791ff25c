SPECIFICATION StoreSpec
CONSTANTS
  FlushEvery = 2
  Horizon = 3
  Slack = 1
  MaxMinute = 4
  MaxFaults = 1
CHECK_DEADLOCK FALSE
INVARIANT
  BufferIsNotSurrendered
