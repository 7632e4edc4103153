SPECIFICATION Spec
CONSTANTS
    Process = {p, q, r}
    None = None
    Torn = Torn
    Mixes <- Histories
    MaxToken = 2
    MaxId = 2
    MaxPassword = 3
    MaxMask = 1
SYMMETRY Interchangeable
INVARIANTS
    SaltIsCurrent
    BusyIsRight
PROPERTIES
    NothingUndone
