SPECIFICATION Spec
CONSTANTS
    p1 = p1
    p2 = p2
    None = None
    Process = {p1, p2}
    MaxToken = 2
    MaxPassword = 2
    MaxStray = 1
    MaxId = 2
INVARIANTS
    ShownIsServed
