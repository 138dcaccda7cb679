SPECIFICATION ThreadsSpec
CONSTANTS
    Threads = {"t1", "t2"}
    Handlers <- AllHandlers
    NoThread = "none"
    Clients = {c1, c2, c3}
    RequestKinds = {"unlock", "copy", "lock", "change_password"}
    Totp = TRUE
    Present = {TRUE, FALSE}
    MaxKeys = 3
    Overlap = 2
SYMMETRY Interchangeable
INVARIANTS
    StuckOnlyByReentry
    SecondFactorKept
    VaultConsistent
