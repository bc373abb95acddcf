SPECIFICATION Spec
CONSTANTS
    p = p
    q = q
    a1 = a1
    a2 = a2
    Busy = 2
    Apps = {a1, a2}
    Providers = {p, q}
    Of <- OneEach
    Tui = {s1, s2}
    Cli = {c}
    NoApp = NoApp
INVARIANTS
    RunningStaysListed
    RunningStaysPublished
    EntryIsManaged
CONSTRAINT FewBusy
SYMMETRY AlikeInPairs
CHECK_DEADLOCK FALSE
