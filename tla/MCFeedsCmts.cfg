SPECIFICATION Spec
CONSTANTS
    Users = {owner, u1}
    Owner = owner
    Names = {a}
    NoName = noname
    MaxFeeds = 1
    MaxPost = 1
    MaxCmt = 2
    MaxSubs = 0
    MaxLikes = 2
    MaxReports = 1
INVARIANTS
    LikesCounted
    NoDangling
PROPERTIES
    DeletedCmtBack
    LoopsOnlyByEdit
