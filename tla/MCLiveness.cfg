SPECIFICATION SuiteSpec
CONSTANTS
    None = None
    NoFile = NoFile
    NoStage = NoStage
    c1 = c1
    c2 = c2
    Client = {c1, c2}
    Key = {k1}
    Capacity = 2
    MaxCommits <- Commits
    MaxFaults = 2
    MaxCrashes = 1
    MaxVersion = 4
INVARIANTS
    StoreIsSafe
    FailuresLoseNothing
PROPERTIES
    AcceptedIsDecided
    ReportsAreTrue
    CallsReturn
    WorkEnds
