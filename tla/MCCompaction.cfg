SPECIFICATION FairSpec
CONSTANTS
  Row = {r1, r2, r3, r4}
  MaxFaults = 3
INVARIANTS
  EveryRowOnce
PROPERTIES
  ReadsAsAClosedDay
  SettlesToOneFile
