SPECIFICATION FairIndexingSpec
CONSTANTS
    Block <- ReorgBlock
    None = None
    NoReload = NoReload
    Pos <- MCPos
    Height <- MCHeight
    Parent <- MCParent
    Address <- MCAddress
    Output <- MCOutput
    Owner <- MCOwner
    Creates <- MCCreates
    Spends <- MCSpends
    Retention = 3
    Backend = "redb"
    SpendsRun = TRUE
    BatchSize = 2
    Task = {t1, t2}
    Publisher = {}
    MaxRevision = 1
    HasRegistry = FALSE
    Wallet = {w1, w2}
    AddressOf <- MCAddressOf
    Imported <- ImportedBoth
    w1 = w1
    w2 = w2
    a1 = a1
    a2 = a2
    o1 = o1
    o2 = o2
INVARIANTS
    IndexingInv
    StoreAgrees
    NoGap
PROPERTIES
    CatchesUp
