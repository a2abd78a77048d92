SPECIFICATION Spec
CONSTANTS
    Versions = {"1.0", "2.0"}
    Variants = {"whole"}
CHECK_DEADLOCK FALSE
INVARIANTS
    HandlerReached
