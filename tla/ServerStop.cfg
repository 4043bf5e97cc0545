SPECIFICATION ReactorSpec
CONSTANTS
    LoopCount = 1
    MaxSessions = 2
    MaxRequests = 1
    MaxJobs = 1
INVARIANT StopClosesSessions
CHECK_DEADLOCK FALSE
