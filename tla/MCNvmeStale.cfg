CONSTANTS
  Entries = 4
  SqRoom = 4
  MaxCalls = 9
  MaxTimeouts = 2
SPECIFICATION Spec
INVARIANTS
  ZeroIsSuccess
CHECK_DEADLOCK FALSE
