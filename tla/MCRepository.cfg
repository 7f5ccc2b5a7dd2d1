SPECIFICATION RepositorySpec
CONSTANTS
    Block <- MCBlock
    None = None
    Pos <- MCPos
    Height <- MCHeight
    Parent <- MCParent
    Address <- MCAddress
    Output <- MCOutput
    Owner <- MCOwner
    Creates <- MCCreates
    Spends <- MCSpends
    Retention = 2
    Backend = "postgres"
    SpendsRun = TRUE
    a1 = a1
    a2 = a2
    o1 = o1
    o2 = o2
    o3 = o3
INVARIANTS
    HistoryIsPath
    OutputsAreReplay
    RepositoryInv
