SPECIFICATION ServiceSpec
CONSTANTS
    Last = 2
    Workers = {"w1"}
    Deletes = FALSE
    Views = 1
    MaxFaults = 1
    MaxCrashes = 1
    MaxRuns = 2
    w1 = w1
    w2 = w2
SYMMETRY Interchangeable
INVARIANTS
    RepairsAreBounded
    AttachmentsFirst
    CreatedIsWhole
    DeletedIsGone
CHECK_DEADLOCK FALSE
