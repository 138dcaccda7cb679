SPECIFICATION Spec
CONSTANTS
    Passwords = {p1}
    NoFile = NoFile
    MaxFresh = 3
    Requests = {"change_password", "store_item"}
    HeavyKdf = {FALSE}
    Outcomes = {TRUE}
    InitVaults = {"current"}
INVARIANT PasswordOpens
