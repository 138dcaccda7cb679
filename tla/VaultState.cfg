SPECIFICATION BothSpec
CONSTANTS
    p1 = p1
    Passwords = {p1, p2}
    NoFile = NoFile
    MaxFresh = 3
    Requests <- KeepKey
    HeavyKdf = {FALSE}
    Outcomes = {TRUE, FALSE}
    InitVaults = {"absent", "current", "passkey"}
INVARIANTS
    WaysInOpen
    OpenVaultUsable
    
    ChangedVaultSound
PROPERTIES
    OnlyVerifiedKeysLoaded
