SPECIFICATION ServiceSpec
CONSTANTS
  Jobs = {j1, j2, j3}
  NoJob = NoJob
  MaxFaults = 1
  MaxCrashes = 1
  MaxDeletes = 1
  Versions = 2
  Attempts = 2
  AnalysisJobs = 4
  Names = {1, 2, 3}
  Top = 2
  ChipNamed = {3}
  Nets = {"clk", "uart"}
  MaxCores = 2
  MaxRuns = 3
  Reworks = 1
  Exports = 2
  ExportCrashes = 1
SYMMETRY Interchangeable
INVARIANTS
  TypesOK
  RunAtMostOnce
  HonestVerdict
  NothingLost
  VerdictIsEarned
  ChecksAreOfLayout
  RingIsOfThisRun
  PaperIsWhole
CHECK_DEADLOCK FALSE
