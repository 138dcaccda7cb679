SPECIFICATION Spec
CONSTANTS
    Users = {u1, u2}
    Uids = {1000}
    Workers = {w1, w2}
    Ttl = 2
    AbsoluteTtl = 3
    Grace = 1
    MaxPerUser = 1
    MaxTotal = 2
    Lag = 1
    MaxTokens = 3
    MaxClock = 3
SYMMETRY Interchangeable
INVARIANTS
    DeadlinesKept
    RevokedUntilAbsolute
    WithinCaps
 
