SPECIFICATION FairSpec
CONSTANTS
    Msgs = {m1, m2}
    TooLarge = {}
    Threads = {t1}
    Limit = 1
    StorageMayFail = TRUE
    RedisMayFail = TRUE
    MayCrash = TRUE
PROPERTIES
    PendingIsDelivered
