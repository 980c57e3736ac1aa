CONSTANTS
  Base <- MCBase
  Sizes <- MCSizes
  RawSizes <- MCRawSizes
  MaxBlocks <- MCMaxBlocks
  MaxAddr <- MCMaxAddr
SPECIFICATION Spec
INVARIANTS
  HeapSound
  ReturnedUsable
  NoLostBytes
PROPERTIES
  ImplementsAllocator
CHECK_DEADLOCK FALSE
