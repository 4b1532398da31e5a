SPECIFICATION FairSpec
CONSTANTS
  VersionSeeds <- AgentSeeds
  RunSeeds <- AllRunSeeds
  EvaluationSeeds <- AllEvaluationSeeds
  DeploymentSeeds <- AllDeploymentSeeds
  LegacyRuns <- SomeLegacy
  NoVersion <- NoSourceVersion
  MaxDisturbances = 2
INVARIANTS TypeOK OneRunPerSeed HistoryFollowsManifest DoneIsComplete
PROPERTIES SeedingAgainAddsNothing  
CHECK_DEADLOCK FALSE
