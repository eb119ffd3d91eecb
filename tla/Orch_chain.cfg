SPECIFICATION Spec
CONSTANTS
  Stages <- ChainStages
  DependsOn <- ChainDependsOn
  Rank <- ChainRank
  AgentStages = {"GOLDEN_GEN", "RTL_GEN"}
  Gates = {"GOLDEN_GEN", "SIM"}
  SimStages = {"SIM"}
  HardenStages = {}
  CheckedStages = {"SIM"}
  Budget <- OneRound
  MaxTransient = 1
  w1 = w1
  w2 = w2
  c1 = c1
  JobIds = {1, 2}
  Workers = {w1, w2}
  Clients = {c1}
  Tick = Tick
  NoStage = NoStage
  Requests = {"approve"}
  Failures = {"agent", "create", "job", "verdict"}
  MaxRequests = 0
  MaxTicks = 1
  Unbounded = Unbounded
  MaxCrashes = 0
  MaxRedisFaults = 1
  MaxSpawned = 1
SYMMETRY Interchangeable
INVARIANT TypeOK
INVARIANT DoneHasEvidence
INVARIANT OneGoroutinePerKey
INVARIANT AgentStageHasDispatcher
CHECK_DEADLOCK FALSE
