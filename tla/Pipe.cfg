SPECIFICATION FairSpec
CONSTANTS
    Proc = {p1, p2, p3}
    PIPSIZ = 2
    Reads = {2}
    Writes = {2, 3}
    MaxAsked = 5
    MaxFaults = 1
INVARIANTS
    NoLostWakeup
    LockHeld
    Fifo
PROPERTIES
    AtomicWrites
    HangupEnds
CHECK_DEADLOCK FALSE
