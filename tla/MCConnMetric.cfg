\* One Read, one Write and one Close racing on an InstrumentedConn.
CONSTANTS
    r1 = r1
    w1 = w1
    x1 = x1
    Null = Null
    Tasks <- MCTasks
    Ops <- MCOps
    MaxN = 2
SPECIFICATION Spec
INVARIANT CloseRecordsStats
CHECK_DEADLOCK FALSE
