SPECIFICATION Spec
CONSTANTS
    Sizes = {0, 1, 2, 4}
    MaxRows = 4
    MaxContentLen = 3
    Word = 64
    MaxAvailableSize = 6
    ResponseSize = 2
    RowSize = 1
INVARIANTS
    RowsOnce
    LastMeansAll
    Fits
