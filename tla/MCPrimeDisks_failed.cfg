SPECIFICATION Spec
CONSTANTS
    Disks = {d1, d2}
    Threads = {t1, t2}
    NoDisk = NoDisk
INVARIANTS
    ForgottenIsGone
CHECK_DEADLOCK FALSE
