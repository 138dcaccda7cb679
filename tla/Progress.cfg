SPECIFICATION ProgressSpec
CONSTANTS
    Limiters <- const_Limiters
    CallCap = 5
    Workers = {"w1", "w2", "w3"}
    ArgonMax = 2
    ArgonTtl = 2
    Backends = {"memory", "redis"}
    Gone = Gone
    Procs = {p1, p2}
    EventMax = 4
    QueueCap = 2
    LogCap = 3
    Unlocked = Unlocked
    Instances = {p1, p2}
    BootMax = 2
    Listeners = {"main", "redirect"}
    NoKey = NoKey
    EmptyFile = EmptyFile
    BufferMax = 3
    CodeMax = 3
    Emails = {"e1", "e2"}
    SendMax = 2
    AttemptMax = 2
    Folders = {"f1", "f2"}
    Creds = {"c1", "c2"}
    NoFolder = "-"
    VaultMenus <- const_VaultMenus
    EditMax = 2
    ReloadMax = 1
INVARIANTS
    SpanBounded
    GateExpires
    
    CachesSafe
PROPERTY WorkEnds
CHECK_DEADLOCK FALSE
