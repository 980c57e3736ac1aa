CONSTANTS
  NicLine = 11
SPECIFICATION FairSpec
PROPERTIES
  TicksKeepComing
