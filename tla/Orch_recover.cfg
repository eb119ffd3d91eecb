SPECIFICATION Spec
CONSTANTS
  Stages <- PairStages
  DependsOn <- PairDependsOn
  Rank <- PairRank
  AgentStages = {"GOLDEN_GEN"}
  Gates = {"GOLDEN_GEN"}
  SimStages = {"SIM"}
  HardenStages = {}
  CheckedStages = {"SIM"}
  Budget <- OneRound
  MaxTransient = 0
  w1 = w1
  w2 = w2
  c1 = c1
  JobIds = {1, 2}
  Workers = {w1}
  Clients = {c1}
  Tick = Tick
  NoStage = NoStage
  Requests = {"approve", "override", "retry", "reject", "cancel"}
  Failures = {"verdict"}
  MaxRequests = 1
  MaxTicks = 1
  Unbounded = Unbounded
  MaxCrashes = 1
  MaxRedisFaults = 0
  MaxSpawned = 1
INVARIANT ReviewedBeforeUse
INVARIANT CompletedIsReviewed
INVARIANT NotStartedHasNoJob
INVARIANT RepairsBounded
PROPERTY ImplementsFlow
CHECK_DEADLOCK FALSE
