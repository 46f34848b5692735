SPECIFICATION Spec
CONSTANTS
    j1 = j1
    j2 = j2
    p1 = p1
    p2 = p2
    c1 = c1
    c2 = c2
    NoPump = NoPump
    NoJob = NoJob
    Jobs = {j1}
    Pumps = {p1, p2}
    Calls = {c1}
    MaxAttempts = 1
    FirstBackoff = 1
    MaxBackoff = 1
    Ttl = 1
    FinishedRetention = 0
    ConfirmationRetention = 1
    HousekeepingInterval = 1
    MaxRemembered = 2
    WakeAfterFailure = 1
    MaxTime = 3
    MaxCrashes = 1
    MaxFailures = 1
SYMMETRY Symmetry
INVARIANTS
    TypeOK
    OneWriter
    ConfirmedTellsTruth
    PrintedHasPaper
    WakeArmed
PROPERTIES
    NoSecondReceipt
CHECK_DEADLOCK FALSE
