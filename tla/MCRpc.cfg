SPECIFICATION Spec
CONSTANTS
    Versions = {"1.0", "2.0"}
    Variants = {"whole", "missing", "empty", "other", "swapped"}
CHECK_DEADLOCK FALSE
INVARIANTS
    MapsComplete
    EveryVersionStores
    UndefinedOnly
