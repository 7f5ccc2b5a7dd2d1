SPECIFICATION Spec
CONSTANTS
    None = None
    Declined = Declined
    Retry = Retry
    Fatal = Fatal
    Corrupt = Corrupt
    Invalid = Invalid
    Unreadable = Unreadable
    A = A
    B = B
    AtC = AtC
    D = D
    OddText = OddText
    Foreign = Foreign
    BigA = BigA
    ThisScope = ThisScope
    OtherScope = OtherScope
    Zero = Zero
    Transfer = Transfer
    Approval = Approval
    Native = Native
    Token = Token
    ThisHash = ThisHash
    OtherHash = OtherHash
    System = System
    Program = Program
CHECK_DEADLOCK FALSE
INVARIANTS
    NumbersAreExact
    BuildsArePayments
    KeysAreApart
    ClaimsAreChecked
    MovementsFollowTheChain
    KeysServeTheirOwners
    LintIsSound
