SPECIFICATION ToolsSpec
CONSTANTS
    RepairRounds = 2
    Scripts = {"s1", "s2"}
    Installs = {"p1", "p2"}
    PipAttempts = 2
    MaxDeletes = 1
    Threads = {"a", "b", "c"}
    Readers = {"r"}
    Signatures = {"s", "t"}
    MaxCrashes = 1
    MaxWrites = 3
    MaxSame = 2
    MaxTurns = 4
    Attempts = 2
    Requests = {"c1", "c2", "c3"}
    Tasks = {"t", "u"}
    TaskOf <- TwoAndOne
    Models = {"m"}
    Default = "d"
    MaxTime = 1
    Images = {"i", "j"}
    VisionTries = 2
    MaxStages = 2
INVARIANTS
    VerdictIsCurrent
    FailingModelIsRefused
    NothingIsLost
    SessionIsGuarded
    CallsAreExact
    RequestsAreApart
PROPERTIES
    LessonsAreEarned
    PicturesAreRead
CHECK_DEADLOCK FALSE
