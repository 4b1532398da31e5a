SPECIFICATION OFairSpec
CONSTANTS
    r1 = r1
    r2 = r2
    a1 = a1
    a2 = a2
    w1 = w1
    w2 = w2
    o1 = o1
    Readers = {}
    Runs = {r1}
    ApiSessions = {a1, a2}
    Workers = {w1, w2}
    Requests <- AllRequests
    FaultKinds = {"redeliver", "create", "refresh"}
    MaxFaults = 2
    NoRun = NoRun
PROPERTIES SubmittedRunsSettle
CHECK_DEADLOCK FALSE
