SPECIFICATION FairSpec
CONSTANTS
  Stages <- PairStages
  DependsOn <- PairDependsOn
  Rank <- PairRank
  AgentStages = {"GOLDEN_GEN"}
  Gates = {"GOLDEN_GEN"}
  SimStages = {"SIM"}
  HardenStages = {}
  CheckedStages = {"SIM"}
  Budget <- OneRound
  MaxTransient = 0
  w1 = w1
  w2 = w2
  c1 = c1
  JobIds = {1, 2, 3}
  Workers = {w1}
  Clients = {c1}
  Tick = Tick
  NoStage = NoStage
  Requests = {"approve"}
  Failures = {}
  MaxRequests = 0
  MaxTicks = Unbounded
  Unbounded = Unbounded
  MaxCrashes = 0
  MaxRedisFaults = 0
  MaxSpawned = 1
PROPERTY Delivered
CHECK_DEADLOCK FALSE
