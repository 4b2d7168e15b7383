SPECIFICATION FairSpec
CONSTANTS
    Proc = {p1, p2}
    Buf = {b1, b2}
    d1 = d1
    d2 = d2
    x1 = x1
    x2 = x2
    t1 = t1
    Block = {x1, t1}
    DevOf <- DiskAndTape
    Dev = {d1, d2}
    Tape = {d2}
    Val = {v1}
    Nil = Nil
    NoDev = NoDev
    FreeList = FreeList
    Calls = {"bread", "getblk", "geteblk", "bflush", "bwrite", "bawrite", "bdwrite"}
    DiskErrors = TRUE
INVARIANTS
    AvailIffNotBusy
    UniqueBlock
    NoLostWakeup
PROPERTIES
    SleepEnds
