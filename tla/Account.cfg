SPECIFICATION AccountSpec
CONSTANTS
    Browsers = {"b1", "b2"}
    Salts = {"s1", "s2", "s3"}
    NoSalt = "-"
    SignMenus <- const_SignMenus
    LockTries = 2
    DuressTries = 2
    MfaMenus <- const_MfaMenus
    KeyIds = {1, 2}
    PeriodMax = 4
    ChangeMax = 2
    MailMax = 3
    PersistMax = 2
    KeyMenus <- const_KeyMenus
    MailDomains = {"d1", "d2"}
    MxDomains = {"d1"}
    PublicHosts = {"d1"}
    MailEdits = 2
    MailLoads = 1
    DnsCases <- const_DnsCases
    GuardCases <- const_GuardCases
    Contents <- const_Contents
    Labels = {"a", "b"}
    RowMax = 2
    KeyMax = 2
    Passwords = {"bad", "weak"}
    Breached = {"bad"}
    Common = {"weak"}
    Loaded = {"weak"}
    Padding = {"pad"}
    Vaults <- const_Vaults
    NoPassword = "none"
    EditMax = 1
    LinkIds = {1, 2, 3}
    Creds = {"c1", "c2"}
    Viewers = {"v1", "v2"}
    Askers = {"a1", "a2"}
    LinkMenus <- const_LinkMenus
    PageMax = 2
INVARIANTS
    
    
    
    LinksSound
    
CHECK_DEADLOCK FALSE
