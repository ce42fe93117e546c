\* The status RAM: four writers, the walk, and the announcement of a PSN; its read
\* path under any writes and stalls.
SPECIFICATION SidesSpec
CONSTANTS
    N = 3
    AnnounceDelay = 8
    ViewDelay = 3
    AnswerDelay = 3
    HandTime = 4
    TimerTime = 4
    Slack = 1
    QueueCap = 4
    MaxPSN = 5
    s1 = s1
    old = old
    Address = {s1, s2, s3}
    Data = {old, new}
INVARIANTS
    StatusTypeOK
    MarkedBeforeWalk
    NewestStays
    ReadIsCurrent
CHECK_DEADLOCK FALSE
