SPECIFICATION FairSpec
CONSTANTS
    Dids = {d1, d2}
    FeedsDids = {s1, s2}
    MaxDate = 2
    MaxFaults = 3
    NoDid = NoDid
INVARIANTS
    MemoryIsDisk
    ToldIsKept
PROPERTIES
    Implements
    BecomesReady
