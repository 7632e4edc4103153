SPECIFICATION Spec
CONSTANTS
    a = a
    b = b
    g = g
    None = None
    theHost = theHost
    Client = {a, b}
    Guest = {}
    Host = theHost
    Outlives = TRUE
    Setting <- Peace
SYMMETRY FlowSymmetry
CHECK_DEADLOCK FALSE
INVARIANTS
    PairedMeansGranted
