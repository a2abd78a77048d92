SPECIFICATION Spec
CONSTANTS
    Users = {owner, u1}
    Owner = owner
    Names = {a, b, c, d}
    NoName = noname
    MaxFeeds = 3
    MaxPost = 2
    MaxCmt = 0
    MaxSubs = 3
    MaxLikes = 0
    MaxReports = 0
SYMMETRY Symmetry
INVARIANTS
    TypeOK
    CacheMatchesDb
    SubsCounted
    IdsDense
PROPERTIES
    DeletedPostFinal
