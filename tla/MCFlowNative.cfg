SPECIFICATION Spec
CONSTANTS
    a = a
    b = b
    g = g
    None = None
    theHost = theHost
    Client = {a}
    Guest = {}
    Host = theHost
    Outlives = FALSE
    Setting <- Alone
CHECK_DEADLOCK FALSE
INVARIANTS
    ToldPairedHasCertificate
