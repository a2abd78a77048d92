SPECIFICATION Spec
CONSTANTS
    Users = {owner, u1}
    Owner = owner
    Names = {a}
    NoName = noname
    MaxFeeds = 1
    MaxPost = 1
    MaxCmt = 1
    MaxSubs = 0
    MaxLikes = 1
    MaxReports = 0
INVARIANTS
    NoAbort
