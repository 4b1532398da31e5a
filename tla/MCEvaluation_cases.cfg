SPECIFICATION FairSpec
CONSTANTS
  e1 = e1
  v1 = v1
  Evaluations = {e1}
  Versions = {v1}
  Cases = 3
  CaseKinds <- SomeKinds
  FaultKinds = {"error", "crash"}
  MaxFaults = 2
  MaxCalls = 2
INVARIANTS TypeOK PassedIsEarned ReportCountsResults RunsHaveResults PassedResultsStand
PROPERTIES EvaluatesAsSeen EvaluationsComplete
CHECK_DEADLOCK FALSE
