SPECIFICATION RuntimeSpec
CONSTANTS
    None = None
    Threads = {t1, t2}
    StorageMayFail = TRUE
    Workers = {w1, w2}
    Callers = {c1, c2}
    MaxPending = 2
    MaxTasks = 3
    MaxStarts = 2
    Names = {ann}
    Passwords = {p1, p2}
    Addresses = {a1}
    MaxFailures = 2
    MaxTime = 2
    MaxTimers = 3
    LoopCount = 1
    MaxSessions = 2
    MaxRequests = 1
    MaxJobs = 1
    HighWater = 4
    PacketSizes = {1, 3, 5}
    SocketRoom = 2
    MaxSends = 4
    PacketParts = 2
    SendRoom = 1
    MaxCommands = 2
    MaxReplies = 1
INVARIANTS
    StopDrains
    FailuresBounded
    FiresAsScheduled
    CleanupsPrecedeClose
    FramesWhole
PROPERTIES
    AcceptedIsRun
    StopReturns
    LockoutEnds
    TimerFires
    ExpiredIsClosed
    ShutdownEnds
    OutputDrains
    QuitEnds
CHECK_DEADLOCK FALSE
