SPECIFICATION Spec
CONSTANTS
    Tails = {t1}
    Follows = {f1}
    Cli = Cli
    Events = 3
    Limit = 2
    Faults = 1
INVARIANTS
    FollowShowsAll
CHECK_DEADLOCK FALSE
