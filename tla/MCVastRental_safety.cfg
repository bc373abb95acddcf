SPECIFICATION Spec
CONSTANTS
    w1 = w1
    s1 = s1
    worker = worker
    session = session
    Names = {n1}
    Labels = {l1, l2}
    Threads = {w1, s1}
    Processes = {worker, session}
    ProcessOf <- OneEach
    NoName = NoName
    NoLabel = NoLabel
    NoThread = NoThread
    NoRecord = NoRecord
INVARIANTS
    EveryRentalRecorded
    ConfirmedMeansOver
    StoppedMeansOver
    OneRentalPerName
    RunningKeepsItsId
PROPERTIES
    IdNeverLost
    LedgerKept
    StopKeepsToItsName
VIEW View
SYMMETRY Alike
