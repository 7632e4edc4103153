SPECIFICATION Spec
CONSTANTS
    i1 = i1
    i2 = i2
    t1 = t1
    t2 = t2
    c1 = c1
    c2 = c2
    None = None
    Id = {i1, i2}
    Token = {t1, t2}
    Call = {c1, c2}
    Fault = {"write_error", "killed_mid_write", "lengths_differ"}
    MaxVersion = 2
SYMMETRY RegistrySymmetry
INVARIANTS
    FileLagsBehind
    AckedIsOnDisk
    SavedIdIsMine
PROPERTIES
    OwnerNeverReplaced
