SPECIFICATION FairSpec
CONSTANTS
    w1 = w1
    s1 = s1
    worker = worker
    session = session
    Names = {n1}
    Labels = {l1}
    Threads = {w1, s1}
    Processes = {worker}
    ProcessOf <- OneProcess
    NoName = NoName
    NoLabel = NoLabel
    NoThread = NoThread
    NoRecord = NoRecord
PROPERTIES
    EveryCallReturns
