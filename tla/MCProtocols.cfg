SPECIFICATION SuiteSpec
CONSTANTS
    None = None
    Declined = Declined
    Conflict = Conflict
    Native = Native
    Blank = Blank
    ZeroToken = ZeroToken
    s1 = s1
    s2 = s2
    Sender = {s1, s2}
    Task = {t1, t2}
    MaxNonce = 2
    MaxTransfers = 2
    MaxCalls = 2
    Job <- Jobs
SYMMETRY Symmetry
INVARIANTS
    PartsTypeOK
    EnvelopesKept
    AdmissionSound
    OutcomesAreTrue
    PreparedIsPayable
    AnswersWereTrue
    KeptMeansTheSame
    PagesAreHistory
PROPERTIES
    LedgerSpec
    StepsAreAtomic
