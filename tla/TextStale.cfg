SPECIFICATION Spec
CONSTANTS
    Proc = {p1, p2, p3}
    Seg = {x1, x2}
    Ino = {i1, i2, i3}
    Sticky = {i1}
    none = none
SYMMETRY Symmetry
INVARIANT
    HooksUp
CHECK_DEADLOCK FALSE
