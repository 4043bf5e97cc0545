SPECIFICATION ConnSpec
CONSTANTS
    None = None
    Threads = {t1, t2}
    StorageMayFail = TRUE
    Conns = {k1}
INVARIANT NoInheritedTransaction
CHECK_DEADLOCK FALSE
