SPECIFICATION Spec
CONSTANTS
    None = None
    Users = {u1, u2}
    Sessions = {s1, s2, s3}
    Threads = {t1}
    RedisMayFail = FALSE
    PoolMayReject = TRUE
SYMMETRY Symmetry
INVARIANTS
    QuiescentAgreement
