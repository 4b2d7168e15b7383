SPECIFICATION Spec
CONSTANTS
    Proc = {p1, p2}
    NoOne = NoOne
    NINO = 2
    INOPB = 1
    NINODE = 2
    NICINOD = 1
    MaxFaults = 0
INVARIANTS
    Bounded
