SPECIFICATION Spec
CONSTANTS
    r1 = r1
    r2 = r2
    a1 = a1
    a2 = a2
    w1 = w1
    w2 = w2
    Runs = {r1}
    ApiSessions = {a1, a2}
    Workers = {w1}
    Requests <- AllRequests
    FaultKinds = {"refresh"}
    MaxFaults = 1
    NoRun = NoRun
SYMMETRY Symmetry
INVARIANTS PendingRequestsResumable
CHECK_DEADLOCK FALSE
