SPECIFICATION LockoutSpec
CONSTANTS
    Callers = {w1}
    Kinds = {"unlock"}
    Schedule <- RealSchedule
    DuressMax = 0
    PendingCap = 1
PROPERTY RepeatedFailuresLockOut
