SPECIFICATION Spec
CONSTANTS
    Caller = {c1, c2}
    Source = {s1, s2}
    Jobs <- Overlapping
    Close = Close
    Capacity = 1
    Lifetime = 1
    MaxHeight = 2
    PageLimit = 1
    MaxPanics = 1
    MayFail = TRUE
    MayStop = TRUE
INVARIANTS
    SendsAreSafe
PROPERTIES
    SupervisedDispatch
