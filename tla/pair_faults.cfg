SPECIFICATION PairSpec
CONSTANTS
  Generator = g
  Collector = c
  CU = {g, c}
  Bytes = 4
  ByteRange = 8
  IdRange = 16
  ExclOr <- MCExclOr
  Room = 3
  Ids = {0, 3, 7}
  NumPkts = 10
  MaxFaults = 2
INVARIANTS PairTypeOK ErrorSound NoFalseAlarm
CHECK_DEADLOCK FALSE
