SPECIFICATION ServerSpec
CONSTANTS
    r1 = r1
    r2 = r2
    Reqs = {r1, r2}
    Menus <- const_Menus
    Enforce <- const_Enforce
    SessIds = {1, 2}
    SessCap = 2
    LockAfter = 2
    MfaMax = 2
    DuressMax = 2
    Calls = {r1, r2}
    Ids = {"i1", "i2"}
    EmailOf <- const_EmailOf
    Names = {"sessions"}
    Vals = {1, 2}
    None = None
    DualMenus <- const_DualMenus
    ShareReqs = {r1, r2}
    Sids = {"d1", "d2"}
    ShareMenus <- const_ShareMenus
    Nobody = Nobody
    Attempts = {r1, r2}
    Devices = {"d1", "d2", "d3"}
    DeviceMenus = {"log", "record"}
    DevCap = 2
    LockCount = 2
    AttemptCap = 3
    VaultSalts = {"v1", "v2"}
    Servers = {r1, r2}
    FileMenus <- const_FileMenus
    PutMax = 3
    Inodes = {1, 2, 3, 4, 5, 6, 7}
    KmsProcs = {r1, r2}
    KeyScripts = {"s1", "s2"}
    KmsUsers = {"u1", "u2"}
    Phrases = {"p", "q"}
    NoPhrase = "none"
    KmsKinds = {"local", "vault", "selfhost"}
    KeyDraws = 3
    IpAddrs = {"d1", "d2", "d3"}
    IpPrivate = {"lan"}
    IpReqs = {r1, r2}
    IpEnvs <- const_IpEnvs
    IpReports <- const_IpReports
    IpCacheMax = 2
    PublicIps = {"ip"}
    PubCallMax = 2
    Instances = {r1, r2}
    BootMax = 2
    Listeners = {"main", "redirect"}
    NoKey = NoKey
    EmptyFile = EmptyFile
SYMMETRY const_Symmetry
INVARIANTS
    TokenOnce
    GuessesLimited
    MirrorsAgree
    SingleViewOnce
    RevokedUnreachable
    ListsKept
    FilesWhole
    RowsOpen
    LifecycleSafe
    
PROPERTIES
    
    FileSemanticsKept
CHECK_DEADLOCK FALSE
