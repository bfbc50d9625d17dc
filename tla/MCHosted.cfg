SPECIFICATION Spec
CONSTANTS
    r1 = r1
    r2 = r2
    r3 = r3
    i1 = i1
    i2 = i2
    x = x
    y = y
    None = None
    Runs = {r1, r2, r3}
    Issuers = {i1, i2}
    Originals = {x, y}
    Setting <- Settings
INVARIANTS
    RegisteredIsSaved
    CertificatesTraceable
    IssuedBelongs
CHECK_DEADLOCK FALSE
