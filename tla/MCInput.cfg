CONSTANTS
  Size = 3
  t1 = t1
  t2 = t2
  Terminals <- MCTerminals
  User = User
  Browser = Browser
  Nobody = Nobody
  MaxLine = 2
  MaxInput = 3
  MaxKeys = 4
  MaxClicks = 1
SPECIFICATION Spec
SYMMETRY Symmetry
PROPERTIES
  QueueUnlessRaced
  DeliveredInOrder
  RunsTwice
CHECK_DEADLOCK FALSE
