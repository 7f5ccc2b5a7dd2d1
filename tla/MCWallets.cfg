SPECIFICATION WalletsSpec
CONSTANTS
    Block <- MCBlock
    None = None
    NoReload = NoReload
    Pos <- MCPos
    Height <- MCHeight
    Parent <- MCParent
    Address <- MCAddress
    Task = {t1}
    Publisher = {p1, p2}
    MaxRevision = 1
    HasRegistry = TRUE
    Wallet <- MCWallet
    AddressOf <- MCAddressOf
    Imported <- MCImported
    w1 = w1
    w2 = w2
    w3 = w3
    a1 = a1
    a2 = a2
SYMMETRY Symmetry
INVARIANTS
    CommitCoversPublished
    BirthdayPinned
    NoLostWakeup
    PublishedObserved
    AdmissionInv
