SPECIFICATION FairSpec
CONSTANTS
  v1 = v1
  v2 = v2
  v3 = v3
  p1 = p1
  p2 = p2
  NoVersion = NoVersion
  Versions = {v1}
  Sessions = {p1}
  MaxEvaluations = 1
  MaxEvents = 1
  MaxEdits = 1
  MaxFaults = 0
INVARIANTS ProductionConfigPassed
CHECK_DEADLOCK FALSE
