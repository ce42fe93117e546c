SPECIFICATION SysSpec
CONSTANTS
  Ports = 2
  CU <- MCCU
  Bytes = 1
  ByteRange = 4
  IdRange = 8
  ExclOr <- MCExclOr
  Room = 1
  NumPorts = 2
  Sender = 0
  NumPkts = 3
  MaxFlaps = 2
PROPERTIES WaitsForLinks
CHECK_DEADLOCK FALSE
