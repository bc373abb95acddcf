SPECIFICATION FairSpec
CONSTANTS
    Tails = {t1}
    Follows = {f1}
    Cli = Cli
    Events = 3
    Limit = 2
    Faults = 1
INVARIANTS
    TailShowsAll
    OutcomeIsFinal
PROPERTIES
    EveryWatchEnds
    CancelReachesJob
CHECK_DEADLOCK FALSE
