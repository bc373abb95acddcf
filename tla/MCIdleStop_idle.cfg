SPECIFICATION FairSpec
CONSTANTS
    Idle = 3
    Grace = 5
    Attempts = 3
INVARIANTS
    GivesUpLast
PROPERTIES
    DecidedWhenIdle
    IdleRentalEnds
CHECK_DEADLOCK FALSE
