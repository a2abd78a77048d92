SPECIFICATION Spec
CONSTANTS
    Users = {u1, u2}
    Owner = u1
    Nodes = {n1, n2}
    Chans = {c1}
    MaxUpds = 2
SYMMETRY Symmetry
INVARIANTS
    TwoSided
    NoneMissed
    NoneUnwanted
    OfflineOnlyIfLate
