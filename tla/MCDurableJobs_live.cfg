SPECIFICATION FairSpec
CONSTANTS
    k1 = k1
    k2 = k2
    Jobs = {j1}
    Keys = {k1, k2}
    Ladders <- OneLadder
    Workers = {w1, w2}
    Sessions = {s1}
    Fragile = {}
    NoWorker = NoWorker
    NoJob = NoJob
PROPERTIES
    EveryClaimedJobEnds
    BoardKept
