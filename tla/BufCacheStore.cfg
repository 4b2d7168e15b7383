SPECIFICATION Spec
CONSTANTS
    Proc = {p1, p2}
    Buf = {b1, b2}
    d1 = d1
    d2 = d2
    x1 = x1
    x2 = x2
    t1 = t1
    Block = {x1, x2}
    DevOf <- OneDisk
    Dev = {d1}
    Tape = {}
    Val = {v1, v2}
    Nil = Nil
    NoDev = NoDev
    FreeList = FreeList
    Calls = {"bread", "breada", "getblk", "geteblk", "bflush", "bwrite", "bawrite", "bdwrite"}
    DiskErrors = FALSE
SYMMETRY SymmetryBlock
INVARIANTS
    RightBuffer
    OneOwner
PROPERTIES
    IsBlockStore
CHECK_DEADLOCK FALSE
