SPECIFICATION Spec
CONSTANTS
    Disks = {d1, d2}
    Threads = {t1, t2}
    NoDisk = NoDisk
INVARIANTS
    DiskIsAccounted
    ForgottenIsUseless
PROPERTIES
    StockKept
VIEW Live
SYMMETRY Alike
CHECK_DEADLOCK FALSE
