SPECIFICATION LockoutSpec
CONSTANTS
    Callers = {w1, w2}
    Kinds = {"unlock", "backup", "other", "recovery", "verify"}
    Schedule <- ShortSchedule
    DuressMax = 2
    PendingCap = 1
PROPERTIES
    NoEarlyWipe
    
    LockoutEnds
