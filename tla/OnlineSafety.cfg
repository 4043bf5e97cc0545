SPECIFICATION Spec
CONSTANTS
    None = None
    Users = {u1, u2}
    Sessions = {s1, s2}
    Threads = {t1, t2}
    RedisMayFail = TRUE
    PoolMayReject = TRUE
SYMMETRY Symmetry
INVARIANTS
    BindingsConsistent
    KickIsNeverLost
    DeadBindingHasOwner
PROPERTIES
    SessionNeverChangesUser
    BindingLossJustified
