SPECIFICATION FairSpec
CONSTANTS
    None = None
    Users = {u1}
    Sessions = {s1, s2}
    Threads = {t1, t2}
    RedisMayFail = TRUE
    PoolMayReject = TRUE
PROPERTIES
    DeadBindingCleaned
    UserGoneKeyExpires
    ImplementsRegistry
