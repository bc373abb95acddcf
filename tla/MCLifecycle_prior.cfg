SPECIFICATION Spec
CONSTANTS
    MaxPlacements = 3
    Ladders <- AllLadders
    NoOutcome = NoOutcome
PROPERTIES
    EarlierDeploymentStays
