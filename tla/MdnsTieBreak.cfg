SPECIFICATION Spec
CONSTANTS
    Hosts = {1, 2}
    Service <- OwnHosts
    Unprobed = {}
    ProbeCount = 3
    AnnounceCount = 3
    MaxRenames = 2
    MaxLost = 0
    MaxStops = 0
    MaxCrashes = 0
    MaxAttempt = 3
INVARIANT OneProberWins
CHECK_DEADLOCK FALSE
