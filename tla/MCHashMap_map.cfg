\* The table is a map until it follows unwritten memory.
CONSTANTS
    Keys <- FourKeys
    Values = {a, b}
    HashOf <- FourHashes
    InitialCapacity = 2
    MaximumCapacity = 4
    Cleared = 1
    Memory <- Dirty
    NULL = NULL
    JUNK = JUNK
SPECIFICATION Spec
INVARIANTS
    TypeOK
    WellFormed
PROPERTIES
    ImplementsMap
CHECK_DEADLOCK FALSE
