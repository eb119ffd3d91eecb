SPECIFICATION StagesSpec
CONSTANTS
    RepairPasses = 2
    Sweeps = 2
    MaxRepairs = 2
    Modules = {"uart", "top"}
    Top = "top"
    Serial = {"uart"}
    Briefs = {"short", "long", "simulating"}
    Units = {"mac"}
    UnitCap = 1
    ElabCap = 1
    BenchRounds = 2
    Inputs = {"maze", "photo"}
    Canonical = "maze"
    BridgeRounds = 1
    MaxUploads = 1
    MaxRefs = 2
INVARIANTS
    ContractIsImplemented
    RepairIsHonest
    DeliveredIsUsable
    AnswerIsHonest
PROPERTIES
    RunsEnd
    KeepsContract
CHECK_DEADLOCK FALSE
