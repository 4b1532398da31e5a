SPECIFICATION FairSpec
CONSTANTS
  v1 = v1
  v2 = v2
  v3 = v3
  p1 = p1
  p2 = p2
  NoVersion = NoVersion
  Versions = {v1, v2}
  Sessions = {p1, p2}
  MaxEvaluations = 2
  MaxEvents = 3
  MaxEdits = 0
  MaxFaults = 1
PROPERTIES SessionsFinish
CHECK_DEADLOCK FALSE
