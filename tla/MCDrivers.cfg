CONSTANTS
  Entries = 4
  SqRoom = 4
  MaxCalls = 8
  MaxTimeouts = 2
  Parts = {"nvme", "start", "ahci", "xhci", "card", "echo"}
  Ports = 3
  CmdSlots = 2
  SizeSpace = 131072
  MaxPorts = 5
  Connected = {1, 2, 4, 5}
  CmdEntries = 1
  EvEntries = 3
  XhTimeouts = 2
  Base = 16
  SeqSpace = 8
  LocalMac = "hzos"
  RingBytes = 256
  MaxFrames = 4
  MaxPings = 2
  Iss = 6
  MaxSegment = 2
  Disks <- MCDisks
  LocalIp <- MCLocalIp
  Addresses <- MCAddresses
  Stream <- MCStream
  Incoming <- MCIncoming
SPECIFICATION DriversSpec
INVARIANTS
  RingsInStep
  RegisteredOverQueues
  AhciSuccessIsOwn
  VolumesFound
  CommandsInStep
  ReceivedInOrder
  SentInOrder
  AnswersConform
  EchoIsPrefix
PROPERTIES
  QueuesAreFifo
  AhciInitEnds
  ReceivedInTheEnd
CHECK_DEADLOCK FALSE
