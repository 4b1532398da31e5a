SPECIFICATION FairSpec
CONSTANTS
  v1 = v1
  v2 = v2
  v3 = v3
  p1 = p1
  p2 = p2
  NoVersion = NoVersion
  Versions = {v1, v2, v3}
  Sessions = {p1}
  MaxEvaluations = 3
  MaxEvents = 5
  MaxEdits = 0
  MaxFaults = 0
PROPERTIES RollbackRestoresPrevious
CHECK_DEADLOCK FALSE
