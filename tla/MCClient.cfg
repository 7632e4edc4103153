SPECIFICATION Spec
CONSTANTS
    p1 = p1
    p2 = p2
    h1 = h1
    h2 = h2
    w1 = w1
    w2 = w2
    s1 = s1
    s2 = s2
    None = None
    Torn = Torn
    Process = {p1, p2}
    Host = {h1, h2}
    Word = {w1, w2}
    Stream = {s1, s2}
    MaxSalt = 1
    MaxIdentity = 2
    MaxSession = 3
SYMMETRY ClientSymmetry
INVARIANTS
    TypeOK
    IdentityIsOne
    RememberedIsRight
    OneStream
    BusyEnds
    WindowIsCurrent
    ForgottenStays
