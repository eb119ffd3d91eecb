SPECIFICATION Spec
CONSTANTS
  Stages <- PairStages
  DependsOn <- PairDependsOn
  Rank <- PairRank
  AgentStages = {"GOLDEN_GEN"}
  Gates = {"GOLDEN_GEN", "SIM"}
  SimStages = {"SIM"}
  HardenStages = {}
  CheckedStages = {"SIM"}
  Budget <- OneRound
  MaxTransient = 1
  w1 = w1
  w2 = w2
  c1 = c1
  JobIds = {1}
  Workers = {w1}
  Clients = {c1}
  Tick = Tick
  NoStage = NoStage
  Requests = {"approve", "retry"}
  Failures = {}
  MaxRequests = 1
  MaxTicks = 1
  Unbounded = Unbounded
  MaxCrashes = 0
  MaxRedisFaults = 0
  MaxSpawned = 1
PROPERTY QueuedBehindOpenGates
CHECK_DEADLOCK FALSE
