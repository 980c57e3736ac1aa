CONSTANTS
  Entries = 16
  SqRoom = 2
  MaxCalls = 5
  MaxTimeouts = 0
SPECIFICATION Spec
INVARIANTS
  EntriesHaveMemory
CHECK_DEADLOCK FALSE
