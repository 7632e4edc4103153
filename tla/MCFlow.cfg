SPECIFICATION FairSpec
CONSTANTS
    a = a
    b = b
    g = g
    None = None
    theHost = theHost
    Client = {a, b}
    Guest = {g}
    Host = theHost
    Outlives = TRUE
    Setting <- Mixed
CHECK_DEADLOCK FALSE
INVARIANTS
    TypeOK
    WrongPinNeverPairs
    PasswordNeeded
    CompletedIsListed
    ToldPairedIsGranted
    GrantsAreEarned
PROPERTIES
    HandedIsDealtWith
