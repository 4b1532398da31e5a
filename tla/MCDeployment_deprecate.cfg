SPECIFICATION FairSpec
CONSTANTS
  v1 = v1
  v2 = v2
  v3 = v3
  p1 = p1
  p2 = p2
  NoVersion = NoVersion
  Versions = {v1}
  Sessions = {p1, p2}
  MaxEvaluations = 1
  MaxEvents = 2
  MaxEdits = 0
  MaxFaults = 0
PROPERTIES ProductionNotDeprecated
CHECK_DEADLOCK FALSE
