SPECIFICATION Spec
CONSTANTS
    Proc = {p1, p2, p3}
    NICFREE = 2
    Block = {b1, b2, b3, b4}
    Garbage = {g}
SYMMETRY Symmetry
INVARIANTS
    OnePlace
    FmodTells
    LockHeld
PROPERTIES
    IsBlockPool
