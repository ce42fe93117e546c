SPECIFICATION PairSpec
CONSTANTS
  Generator = g
  Collector = c
  CU = {g, c}
  Bytes = 4
  ByteRange = 8
  IdRange = 16
  ExclOr <- MCExclOr
  Room = 3
  Ids = {3, 7, 8, 9}
  NumPkts = 4
  MaxFaults = 0
INVARIANTS NoFalseAlarm
CHECK_DEADLOCK FALSE
