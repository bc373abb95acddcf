SPECIFICATION FairSpec
CONSTANTS
    MaxPlacements = 3
    Ladders <- AllLadders
    NoOutcome = NoOutcome
INVARIANTS
    OneRentalAtATime
    OutcomeIsTrue
    LeftoverIsNamed
    CancelEndsLadder
PROPERTIES
    EveryRunEnds
    LadderKept
