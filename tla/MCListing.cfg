SPECIFICATION Spec
CONSTANTS
    Objects = {"post", "comment"}
    MaxIds = 3
    MaxTime = 2
INVARIANTS
    NothingMissed
    PagesAll
