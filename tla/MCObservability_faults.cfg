SPECIFICATION OSpec
CONSTANTS
    r1 = r1
    r2 = r2
    a1 = a1
    a2 = a2
    w1 = w1
    w2 = w2
    o1 = o1
    Readers = {o1}
    Runs = {r1}
    ApiSessions = {a1, a2}
    Workers = {w1, w2}
    Requests <- AllRequests
    FaultKinds = {"crash", "db", "create", "broker", "redeliver"}
    MaxFaults = 2
    NoRun = NoRun
SYMMETRY Symmetry
INVARIANTS ObservedTypeOK GateHolds AllowedAtMostOnce EffectsAccounted TimelineMatchesRows CountersTrackRows ReportExplainsStatus SettledReportWhole
PROPERTIES ReviewIsFinal SettledIsFinal ImplementsGatedCall
CHECK_DEADLOCK FALSE
