SPECIFICATION Spec
CONSTANTS
    Idle = 3
    Grace = 5
    Attempts = 3
INVARIANTS
    PodStaysWatched
CHECK_DEADLOCK FALSE
