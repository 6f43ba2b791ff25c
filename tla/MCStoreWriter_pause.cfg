SPECIFICATION Spec
CONSTANTS
  quote = quote
  computed = computed
  Stream = {quote}
  Grace <- OneGrace
  ReadCount = 1
  Commands = {"pause", "resume"}
  Faults = {"crash", "stop", "flush"}
  MaxTime = 3
  MaxEntries = 2
  MaxCommands = 2
  MaxFaults = 1
PROPERTIES
  IsARecordedLog
