SPECIFICATION FairSpec
CONSTANTS
    Peers = {p}
    Streams <- MCStreams
    Chunks = {1, 5}
    MaxSessions = 2
    MaxWaiting = 1
CHECK_DEADLOCK FALSE
INVARIANTS
    WholeMessages
    RemovesOwnPipe
    DownOnlyIfCut
PROPERTIES
    ClosedIsRemoved
