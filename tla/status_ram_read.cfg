\* The walk on the real read port: after a stall it passes a refused packet.
SPECIFICATION RamReadSpec
CONSTANTS
    N = 4
    AnnounceDelay = 8
    ViewDelay = 3
    AnswerDelay = 3
    HandTime = 22
    TimerTime = 18
    Slack = 1
    QueueCap = 4
    MaxPSN = 2
INVARIANTS
    PassedIsAcknowledged
CHECK_DEADLOCK FALSE
