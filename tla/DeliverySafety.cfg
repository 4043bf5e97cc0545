SPECIFICATION Spec
CONSTANTS
    Msgs = {m1, m2}
    TooLarge = {m2}
    Threads = {t1, t2}
    Limit = 1
    StorageMayFail = TRUE
    RedisMayFail = TRUE
    MayCrash = TRUE
SYMMETRY Symmetry
INVARIANTS
    DeliveredMeansReceived
    RowsAgree
    AcceptedIsReachable
PROPERTIES
    DeliveryNeverRegresses
    NoDoubleUnread
