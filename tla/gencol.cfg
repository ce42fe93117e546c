SPECIFICATION SysFairSpec
CONSTANTS
  Ports = 2
  CU <- MCCU
  Bytes = 1
  ByteRange = 4
  IdRange = 8
  ExclOr <- MCExclOr
  Room = 1
  NumPorts = 2
  Sender = 1
  NumPkts = 4
  MaxFlaps = 1
INVARIANTS HostTypeOK ReadyToSend PassMeansDelivered
PROPERTIES EventuallyPasses
CHECK_DEADLOCK FALSE
