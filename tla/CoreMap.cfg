SPECIFICATION MapSpec
CONSTANTS
    Units = 9
    MAPSIZ = 4
INVARIANTS
    EndsFollow
    Coalesced
    Conserved
    NoMissedCore
PROPERTIES
    IsFirstFit
CHECK_DEADLOCK FALSE
