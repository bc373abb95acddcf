SPECIFICATION Spec
CONSTANTS
    Idle = 3
    Grace = 5
    Attempts = 3
PROPERTIES
    BusyStaysUp
CHECK_DEADLOCK FALSE
