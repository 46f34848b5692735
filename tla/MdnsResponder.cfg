SPECIFICATION FairSpec
CONSTANTS
    Hosts = {1, 2}
    Service <- SameNames
    Unprobed = {}
    ProbeCount = 3
    AnnounceCount = 3
    MaxRenames = 2
    MaxLost = 3
    MaxStops = 1
    MaxCrashes = 1
    MaxAttempt = 3
INVARIANTS UniqueClaim DuplicateNeverRests ContestIsFair
PROPERTIES ClaimIsKept AlwaysSettles
CHECK_DEADLOCK FALSE
