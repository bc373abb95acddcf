SPECIFICATION FairSpec
CONSTANTS
    Tails = {t1}
    Follows = {f1}
    Cli = Cli
    Events = 3
    Limit = 2
    Faults = 1
PROPERTIES
    FollowEnds
CHECK_DEADLOCK FALSE
