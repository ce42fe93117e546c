SPECIFICATION AnyStartSpec
CONSTANTS
  QP = {q1, q2}
  N = 5
  UserGate = 1
  RetrGate = 2
  UserMax = 2
  RetrMax = 3
  PipeCap = 2
  ReadLead = 1
  RetrCap = 1
  MaxRetr = 1
  MaxData = 3
  MaxPSN = 100
  MaxLoss = 1
  MaxEarly = 0
INVARIANTS TypeOK RingInv GrantHasRoom InStep InOrderDelivery NothingLost NumberedInOrder
PROPERTIES RefinesChannel
CHECK_DEADLOCK FALSE
