SPECIFICATION FairSpec
CONSTANTS
  quote = quote
  computed = computed
  Stream = {quote, computed}
  Grace <- TwoGraces
  ReadCount = 1
  Commands = {}
  Faults = {"crash", "stop", "flush", "clear"}
  MaxTime = 3
  MaxEntries = 2
  MaxCommands = 0
  MaxFaults = 1
INVARIANTS
  RecordIsExact
PROPERTIES
  Settles
