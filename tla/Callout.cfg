SPECIFICATION Spec
CONSTANTS
    NCALL = 8
    HZ = 2
    Req = {r1, r2}
    Tim = {1, 2, 3}
    Null = Null
    MaxTicks = 5
    MaxNested = 1
INVARIANTS
    OneEntryEach
    TimesAddUp
    TicksKept
PROPERTIES
    NeverEarly
CHECK_DEADLOCK FALSE
