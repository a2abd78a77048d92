SPECIFICATION Spec
CONSTANTS
    Users = {o, u}
    Owner = o
    Apps = {a}
    Names = {"Ann"}
    LoginTtl = 1
    SecretTtl = 1
    MaxTime = 3
    MaxChals = 2
    MaxTokens = 2
    MaxFaults = 1
INVARIANTS
    OneTokenPerLogin
    TokensAreAskedFor
    LateOnlyBeforeSweep
    OwnerIsFresh
    NamelessOnlyIfReset
