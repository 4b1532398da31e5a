SPECIFICATION Spec
CONSTANTS
  v1 = v1
  v2 = v2
  v3 = v3
  p1 = p1
  p2 = p2
  NoVersion = NoVersion
  Versions = {v1, v2}
  Sessions = {p1, p2}
  MaxEvaluations = 2
  MaxEvents = 3
  MaxEdits = 1
  MaxFaults = 1
INVARIANTS TypeOK OneProduction LogNamesProduction ProductionPassedGate HistoryChains NumbersDense
PROPERTIES DeprecatedIsFinal AgentLockFreezes
SYMMETRY Symmetry
CHECK_DEADLOCK FALSE
