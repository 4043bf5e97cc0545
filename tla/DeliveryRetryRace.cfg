SPECIFICATION Spec
CONSTANTS
    Msgs = {m1}
    TooLarge = {}
    Threads = {t1, t2}
    Limit = 1
    StorageMayFail = FALSE
    RedisMayFail = FALSE
    MayCrash = FALSE
PROPERTIES
    DeliveredNotRequeued
