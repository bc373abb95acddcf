SPECIFICATION Spec
CONSTANTS
    k1 = k1
    k2 = k2
    Jobs = {j1, j2}
    Keys = {k1, k2}
    Ladders <- TwoLadders
    Workers = {w1, w2}
    Sessions = {s1, s2}
    Fragile = {s1, s2}
    NoWorker = NoWorker
    NoJob = NoJob
INVARIANTS
    OwnerExclusive
    EndedIsNotRunning
    DuplicateOnlyByFallback
    InterruptedIsDead
PROPERTIES
    LiveOwnerDecides
VIEW View
SYMMETRY Alike
