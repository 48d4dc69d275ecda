CONSTANTS
    Tasks = {t1, t2}
    Keys = {k1, k2}
    NoKey = NoKey
    NoTask = NoTask
    Slot = Slot
    MaxCalls = 2
    HardCalls = 3
    MaxAttempts = 2
    MaxSold = 3
    MaxUpsets = 2
SPECIFICATION Spec
INVARIANTS CallCeiling PaidIsBooked RestartExplained NothingLeaks
PROPERTIES ImplementsLedger
CHECK_DEADLOCK FALSE
