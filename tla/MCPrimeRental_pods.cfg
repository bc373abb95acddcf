SPECIFICATION FairSpec
CONSTANTS
    Pods = {p1, p2}
    Threads = {t1, t2}
    NoPod = NoPod
INVARIANTS
    BillingIsKnown
    NoTunnelOutlivesPod
    DoneMeansGone
PROPERTIES
    EveryCallEnds
    StockKept
CHECK_DEADLOCK FALSE
