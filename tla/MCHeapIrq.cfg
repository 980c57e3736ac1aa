CONSTANTS
  Base <- MCBase
  Sizes <- MCSizes
  RawSizes <- MCRawSizes
  MaxBlocks <- MCMaxBlocks
  MaxAddr <- MCMaxAddr
SPECIFICATION Spec
INVARIANTS
  ListSound
PROPERTIES
  AllocatorUnlessRaced
CHECK_DEADLOCK FALSE
