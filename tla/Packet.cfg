SPECIFICATION Spec
CONSTANTS
    Window = 2
    MaxPackets = 3
    MaxFaults = 1
    Writers = {"a"}
    Closers = {"a", "b"}
    Start = {6}
INVARIANTS
    InOrder
    Kept
CHECK_DEADLOCK FALSE
