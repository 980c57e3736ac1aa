CONSTANTS
  Entries = 2
  SqRoom = 2
  MaxCalls = 0
  MaxTimeouts = 0
  Parts = {"echo"}
  Ports = 3
  CmdSlots = 1
  SizeSpace = 131072
  MaxPorts = 1
  Connected = {}
  CmdEntries = 1
  EvEntries = 2
  XhTimeouts = 0
  Base = 256
  SeqSpace = 8
  LocalMac = "hzos"
  RingBytes = 256
  MaxFrames = 0
  MaxPings = 0
  Iss = 6
  MaxSegment = 2
  Disks <- MCDisks
  LocalIp <- MCLocalIp
  Addresses <- MCAddresses
  Stream <- MCStream
  Incoming <- MCIncoming
SPECIFICATION DriversSpec
INVARIANTS
  TcpChecksumRight
CHECK_DEADLOCK FALSE
