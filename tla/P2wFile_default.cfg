SPECIFICATION P2wSpec
CONSTANTS
    Log2Ms = {12, 16, 18}
    Ts = {1, 2, 3}
    Ps = {1}
    Contents = {0}
    CredCap = 1
    FoldCap = 1
    RecordMax = 1
INVARIANT DefaultOpens
