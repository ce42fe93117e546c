SPECIFICATION FairSpec
CONSTANTS
  QP = {q1}
  N = 2
  UserGate = 0
  RetrGate = 0
  UserMax = 0
  RetrMax = 0
  PipeCap = 1
  ReadLead = 1
  RetrCap = 1
  MaxRetr = 1
  MaxData = 5
  MaxPSN = 100
  MaxLoss = 2
  MaxEarly = 1
  Rounds = 2
INVARIANTS NothingLost AckMeansDelivered StreamInv AnswerInv ArithmeticExact
PROPERTIES NoOverwrite EventuallyDelivered
CHECK_DEADLOCK FALSE
