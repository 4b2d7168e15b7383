SPECIFICATION Spec
CONSTANTS
    Slot = {p0, p1, p2, p3}
    Initproc = p0
    Sig = {3}
    SIGKIL = 9
    Fun = {"dfl", "catch"}
    none = none
SYMMETRY Symmetry
INVARIANTS
    WaitersWoken
    Family
    Handshake
PROPERTIES
    ExitStays
