SPECIFICATION IndexingSpec
CONSTANTS
    Block <- SmallBlock
    None = None
    NoReload = NoReload
    Pos <- MCPos
    Height <- MCHeight
    Parent <- MCParent
    Address <- MCAddress
    Output <- MCOutput
    Owner <- MCOwner
    Creates <- MCCreates
    Spends <- MCSpends
    Retention = 3
    Backend = "postgres"
    SpendsRun = TRUE
    BatchSize = 2
    Task = {t1}
    Publisher = {p1}
    MaxRevision = 1
    HasRegistry = FALSE
    Wallet = {w2}
    AddressOf <- MCAddressOf
    Imported <- NothingImported
    w1 = w1
    w2 = w2
    a1 = a1
    a2 = a2
    o1 = o1
    o2 = o2
INVARIANT
    NoGap
