SPECIFICATION DemoSpec
CONSTANTS
    r1 = r1
    r2 = r2
    a1 = a1
    a2 = a2
    w1 = w1
    w2 = w2
    Runs = {r1}
    RejectedSeeds = {}
    ApiSessions = {a1}
    Workers = {w1}
    Requests <- AllRequests
    FaultKinds = {}
    MaxFaults = 0
    NoRun = NoRun
INVARIANTS ApprovalPrecedesCall
CHECK_DEADLOCK FALSE
