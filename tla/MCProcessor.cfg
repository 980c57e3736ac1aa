CONSTANTS
  MaxProcesses = 5
  Steps = 3
  NicLine = 11
  Parts = {"processes", "interrupts"}
SPECIFICATION ProcessorSpec
INVARIANTS
  ContextsOwned
  BoundedWait
  LapicBalanced
  PicOnceEach
PROPERTIES
  ImplementsMultitasking
  InputServed
