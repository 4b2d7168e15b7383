SPECIFICATION Spec
CONSTANTS
    Proc = {p1, p2, p3}
    NoOne = NoOne
    NINO = 2
    INOPB = 1
    NINODE = 2
    NICINOD = 1
    MaxFaults = 1
INVARIANTS
    OneInode
    References
    NoLostWakeup
    ModesRight
CONSTRAINT Small
SYMMETRY Symmetry
PROPERTIES
    UnusedUnlessFault
